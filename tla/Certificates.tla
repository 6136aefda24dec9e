---------------------------- MODULE Certificates ----------------------------
(***************************************************************************)
(* The certificate authority of a data directory and the leaf certificates *)
(* made with it (tls/mod.rs).  Processes that start on the directory       *)
(* create the CA unless it is there (ensure_ca: the lock file .ca.lock,    *)
(* temporary files, two renames); a gateway then loads it into a           *)
(* CertCache, from which its connection threads take a leaf per host       *)
(* (get_or_generate).                                                      *)
(*                                                                         *)
(* A CA file is named by the process that made it.  A unit of time is a    *)
(* part of MaxAge.                                                         *)
(***************************************************************************)
EXTENDS Naturals, Sequences, FiniteSets

CONSTANTS
    Process,
    Thread,     \* connection threads
    GatewayOf,  \* process of each thread
    Host,
    Capacity,   \* max_entries of the LRU cache (1000)
    MaxWaits,   \* looks at the files while another one generates (10)
    MaxAge,     \* of a cached leaf (12 hours)
    Validity,   \* of a leaf (24 hours)
    MaxTime,    \* bound on the clock
    None

VARIABLES
    key, cert,        \* ca.key and ca.crt: their maker, or None
    keyTmp, certTmp,  \* .ca.key.tmp and .ca.crt.tmp
    lock,             \* .ca.lock: its creator, or None
    proc,             \* step of each process
    waits,
    loaded,           \* CertCache.ca_cert_pem and ca_key_pair
    cache,            \* CertCache.cache of each process, least recent first
    step, host,       \* of each thread
    leaf,             \* the leaf a thread has made or was given
    now,
    late              \* history: a process that had seen no CA took the lock
                      \* after another one had made it

files == << key, cert, keyTmp, certTmp, lock >>
threads == << step, host, leaf >>
vars == << files, proc, waits, loaded, cache, threads, now, late >>

Exists == key # None /\ cert # None
Goto(p, s) == proc' = [proc EXCEPT ![p] = s]
Became(t, s) == step' = [step EXCEPT ![t] = s]

Init ==
    /\ key = None /\ cert = None /\ keyTmp = None /\ certTmp = None /\ lock = None
    /\ proc = [p \in Process |-> "check"]
    /\ waits = [p \in Process |-> 0]
    /\ loaded = [p \in Process |-> [cert |-> None, key |-> None]]
    /\ cache = [p \in Process |-> << >>]
    /\ step = [t \in Thread |-> "idle"]
    /\ host = [t \in Thread |-> None]
    /\ leaf = [t \in Thread |-> None]
    /\ now = 0 /\ late = FALSE

-----------------------------------------------------------------------------
(* ensure_ca.                                                              *)

Check(p) ==
    /\ proc[p] = "check"
    /\ Goto(p, IF Exists THEN "load" ELSE "lock")
    /\ UNCHANGED << files, waits, loaded, cache, threads, now, late >>

\* Mutant of Unlocked: the lock file is opened, not created.
UnlockedAlways == TRUE

Unlocked == lock = None

\* The files are not looked at again under the lock.
Lock(p) ==
    /\ proc[p] = "lock"
    /\ IF Unlocked
       THEN /\ lock' = p
            /\ late' = (late \/ Exists)
            /\ Goto(p, "write")
       ELSE Goto(p, "wait") /\ UNCHANGED << lock, late >>
    /\ UNCHANGED << key, cert, keyTmp, certTmp, waits, loaded, cache, threads, now >>

Write(p) ==
    /\ proc[p] = "write"
    /\ keyTmp' = p /\ certTmp' = p
    /\ Goto(p, "key")
    /\ UNCHANGED << key, cert, lock, waits, loaded, cache, threads, now, late >>

\* A rename fails when the temporary file has gone.
RenameKey(p) ==
    /\ proc[p] = "key"
    /\ IF keyTmp = None THEN Goto(p, "give up") /\ UNCHANGED << key, keyTmp >>
       ELSE key' = keyTmp /\ keyTmp' = None /\ Goto(p, "cert")
    /\ UNCHANGED << cert, certTmp, lock, waits, loaded, cache, threads, now, late >>

RenameCert(p) ==
    /\ proc[p] = "cert"
    /\ IF certTmp = None THEN Goto(p, "give up") /\ UNCHANGED << cert, certTmp >>
       ELSE cert' = certTmp /\ certTmp' = None /\ Goto(p, "unlock")
    /\ UNCHANGED << key, keyTmp, lock, waits, loaded, cache, threads, now, late >>

\* A file operation fails.
GenerateFails(p) ==
    /\ proc[p] \in {"write", "key", "cert"}
    /\ Goto(p, "give up")
    /\ UNCHANGED << files, waits, loaded, cache, threads, now, late >>

\* The lock file goes first, then whatever temporary files there are.
Unlock(p) ==
    /\ proc[p] \in {"unlock", "give up"}
    /\ lock' = None
    /\ Goto(p, IF proc[p] = "unlock" THEN "clean" ELSE "clean and fail")
    /\ UNCHANGED << key, cert, keyTmp, certTmp, waits, loaded, cache, threads, now, late >>

Clean(p) ==
    /\ proc[p] \in {"clean", "clean and fail"}
    /\ keyTmp' = None /\ certTmp' = None
    /\ Goto(p, IF proc[p] = "clean" THEN "load" ELSE "failed")
    /\ UNCHANGED << key, cert, lock, waits, loaded, cache, threads, now, late >>

\* Another process has the lock: ten looks, half a second apart.
Wait(p) ==
    /\ proc[p] = "wait"
    /\ waits' = [waits EXCEPT ![p] = @ + 1]
    /\ Goto(p, IF Exists THEN "load" ELSE IF waits[p] + 1 = MaxWaits THEN "failed" ELSE "wait")
    /\ UNCHANGED << files, loaded, cache, threads, now, late >>

\* A killed process leaves its lock file, which the operator deletes.
Crash(p) ==
    /\ proc[p] \notin {"serving", "failed", "crashed"}
    /\ Goto(p, "crashed")
    /\ UNCHANGED << files, waits, loaded, cache, threads, now, late >>

RemoveLock ==
    /\ lock # None /\ proc[lock] = "crashed"
    /\ lock' = None
    /\ UNCHANGED << key, cert, keyTmp, certTmp, proc, waits, loaded, cache, threads, now, late >>

-----------------------------------------------------------------------------
(* CertCache::new: the certificate first, then the key.                    *)

LoadCert(p) ==
    /\ proc[p] = "load"
    /\ loaded' = [loaded EXCEPT ![p].cert = cert]
    /\ Goto(p, "load key")
    /\ UNCHANGED << files, waits, cache, threads, now, late >>

LoadKey(p) ==
    /\ proc[p] = "load key"
    /\ loaded' = [loaded EXCEPT ![p].key = key]
    /\ Goto(p, "serving")
    /\ UNCHANGED << files, waits, cache, threads, now, late >>

-----------------------------------------------------------------------------
(* get_or_generate.                                                        *)

Entries(p, h) == {i \in DOMAIN cache[p] : cache[p][i].host = h}

Fresh(e) == now - e.created < MaxAge

\* The entries of other hosts: a host has one entry at most.
Others(p, h) ==
    IF Entries(p, h) = {} THEN cache[p]
    ELSE LET i == CHOOSE i \in Entries(p, h) : TRUE
         IN  SubSeq(cache[p], 1, i - 1) \o SubSeq(cache[p], i + 1, Len(cache[p]))

\* Every look at an entry makes it the most recent one.
Touched(p, h) ==
    IF Entries(p, h) = {} THEN cache[p]
    ELSE Append(Others(p, h), cache[p][CHOOSE i \in Entries(p, h) : TRUE])

\* Put in a full cache, the least recent entry goes.
Inserted(p, e) ==
    LET others == Others(p, e.host)
    IN  Append(IF Len(others) = Capacity THEN Tail(others) ELSE others, e)

\* A fresh entry for h, if there is one, is given to thread t.
Hit(t, h) ==
    LET p == GatewayOf[t] IN
    \E i \in Entries(p, h) :
        /\ Fresh(cache[p][i])
        /\ leaf' = [leaf EXCEPT ![t] = cache[p][i].leaf]
        /\ cache' = [cache EXCEPT ![p] = Touched(p, h)]
        /\ Became(t, "served")

Miss(t, h) == \A i \in Entries(GatewayOf[t], h) : ~Fresh(cache[GatewayOf[t]][i])

Connect(t) ==
    /\ step[t] = "idle" /\ proc[GatewayOf[t]] = "serving"
    /\ \E h \in Host :
        /\ host' = [host EXCEPT ![t] = h]
        /\ \/ Hit(t, h)
           \/ /\ Miss(t, h)
              /\ cache' = [cache EXCEPT ![GatewayOf[t]] = Touched(GatewayOf[t], h)]
              /\ Became(t, "generate") /\ UNCHANGED leaf
    /\ UNCHANGED << files, proc, waits, loaded, now, late >>

\* generate_leaf, without the mutex.
Generate(t) ==
    /\ step[t] = "generate"
    /\ leaf' = [leaf EXCEPT ![t] = [maker |-> t, made |-> now]]
    /\ Became(t, "insert")
    /\ UNCHANGED << files, proc, waits, loaded, cache, host, now, late >>

\* Mutant of InsertLeaf: no second look.
InsertUnchecked(t) ==
    LET p == GatewayOf[t] IN
    /\ step[t] = "insert"
    /\ cache' = [cache EXCEPT ![p] =
            Inserted(p, [host |-> host[t], leaf |-> leaf[t], created |-> now])]
    /\ Became(t, "served")
    /\ UNCHANGED << files, proc, waits, loaded, host, leaf, now, late >>

\* The leaf another thread has put there meanwhile is used.
InsertLeaf(t) ==
    LET p == GatewayOf[t] IN
    /\ step[t] = "insert"
    /\ \/ Hit(t, host[t])
       \/ /\ Miss(t, host[t])
          /\ cache' = [cache EXCEPT ![p] =
                Inserted(p, [host |-> host[t], leaf |-> leaf[t], created |-> now])]
          /\ Became(t, "served") /\ UNCHANGED leaf
    /\ UNCHANGED << files, proc, waits, loaded, host, now, late >>

\* The client leaves, or generate_leaf fails.
Disconnect(t) ==
    /\ step[t] \in {"served", "generate"}
    /\ Became(t, "idle")
    /\ host' = [host EXCEPT ![t] = None] /\ leaf' = [leaf EXCEPT ![t] = None]
    /\ UNCHANGED << files, proc, waits, loaded, cache, now, late >>

\* A thread takes far less than a unit of time to serve a handshake.
Tick ==
    /\ now < MaxTime
    /\ \A t \in Thread : step[t] = "idle"
    /\ now' = now + 1
    /\ UNCHANGED << files, proc, waits, loaded, cache, threads, late >>

-----------------------------------------------------------------------------
Next ==
    \/ \E p \in Process :
        \/ Check(p) \/ Lock(p) \/ Write(p) \/ RenameKey(p) \/ RenameCert(p)
        \/ GenerateFails(p) \/ Unlock(p) \/ Clean(p) \/ Wait(p) \/ Crash(p)
        \/ LoadCert(p) \/ LoadKey(p)
    \/ RemoveLock
    \/ \E t \in Thread : Connect(t) \/ Generate(t) \/ InsertLeaf(t) \/ Disconnect(t)
    \/ Tick

Spec == Init /\ [][Next]_vars

-----------------------------------------------------------------------------
(* Properties.                                                             *)

\* A client that trusts ca.crt accepts every certificate it is shown, whichever
\* processes started, failed or were killed on the directory: the gateway's CA
\* certificate is that of the key it signs with, and its leaf is valid.  It
\* holds unless a process takes the lock after another one made the CA.
ChainsVerify ==
    ~late => \A t \in Thread : step[t] = "served" =>
        /\ loaded[GatewayOf[t]].cert = loaded[GatewayOf[t]].key
        /\ loaded[GatewayOf[t]].cert = cert
        /\ now - leaf[t].made < Validity

\* "Only one is kept": of the leaves that threads make for a host at the same
\* time, all are given the one in the cache, if it was not evicted.
OneLeafKept ==
    \A t, u \in Thread :
        /\ GatewayOf[t] = GatewayOf[u] /\ host[t] = host[u]
        /\ step[t] = "served" /\ step[u] = "served"
        /\ Cardinality(Host) <= Capacity
        => leaf[t] = leaf[u]
=============================================================================
