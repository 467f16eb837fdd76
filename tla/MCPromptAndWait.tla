-------------------------- MODULE MCPromptAndWait ---------------------------
(* TLC instances of PromptAndWait: one session, and a client on its stream. *)
EXTENDS PromptAndWait

CONSTANTS s1, c1

Subscriptions == [c \in Clients |-> s1]
=============================================================================
