------------------------------ MODULE MCParts ------------------------------
(***************************************************************************)
(* TLC instance of Parts: the turns of MCAttachments; a log with one       *)
(* exchange and one connection open at a time (MCWal has two of both); a   *)
(* probe and up to two requests that grow, shrink and change their         *)
(* prompts; a stream of three frames; two processes that start without a   *)
(* CA, one with two connections; two sessions of which one has two turns.  *)
(***************************************************************************)
EXTENDS Parts, MCAttachments

CONSTANTS p1, s1, s2, a, b, d

Ask(n, h) ==
    [messages |-> [i \in 1 .. n |-> i], prompts |-> [k \in {"system", "tools"} |-> h]]

\* For Conversation: the quota probe has a message of its own.
MCPreflight == << 0 >>
MCAsked == << {[Ask(1, "a") EXCEPT !.messages = MCPreflight], Ask(1, "a")},
              {Ask(1, "b"), Ask(3, "a")},
              {Ask(5, "b"), Ask(2, "a")} >>

MCGatewayOf == [t \in Thread |-> p1]
MCTurnsOf == (s1 :> << a, b >>) @@ (s2 :> << d >>)
=============================================================================
