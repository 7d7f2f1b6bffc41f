---------------------------- MODULE RequestReply ----------------------------
(***************************************************************************)
(* What the loopback promises an application: a system call on the looped  *)
(* device is executed at most once by the user-space driver, and it        *)
(* returns either the answer to this very execution or an error.           *)
(***************************************************************************)
CONSTANT Clients

VARIABLE phase   \* of each client's current call

Phases == {"idle", "asked", "served", "answered", "refused"}

Init == phase = [c \in Clients |-> "idle"]

Move(c, from, to) == /\ phase[c] \in from
                     /\ phase' = [phase EXCEPT ![c] = to]

Ask(c)     == Move(c, {"idle"}, "asked")
Execute(c) == Move(c, {"asked"}, "served")
Answer(c)  == Move(c, {"served"}, "answered")
Refuse(c)  == Move(c, {"asked", "served"}, "refused")
Return(c)  == Move(c, {"asked", "answered", "refused"}, "idle")

Next == \E c \in Clients :
          Ask(c) \/ Execute(c) \/ Answer(c) \/ Refuse(c) \/ Return(c)

Spec == Init /\ [][Next]_phase

=============================================================================
