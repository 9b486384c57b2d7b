----------------------------- MODULE ServerLife -----------------------------
(***************************************************************************)
(* What a server promises: it serves a client only while it runs, each     *)
(* connection once, and once it is to stop it comes to rest when the last  *)
(* session has ended, or, if it does not wait, at any time.                *)
(***************************************************************************)
CONSTANT Clients

VARIABLES
  waits,   \* the server waits for its sessions
  phase,   \* "starting", "running", "stopping" or "stopped"
  active,  \* clients with a session
  ended    \* clients whose session has ended

lifeVars == <<waits, phase, active, ended>>

LifeInit ==
  /\ waits \in BOOLEAN
  /\ phase = "starting"
  /\ active = {}
  /\ ended = {}

Moves(from, to) ==
  /\ phase = from
  /\ phase' = to
  /\ UNCHANGED <<waits, active, ended>>

Start == Moves("starting", "running")
GiveUp == Moves("starting", "stopped")
Stop == Moves("running", "stopping")

Finish ==
  /\ waits => active = {}
  /\ Moves("stopping", "stopped")

Begin(c) ==
  /\ phase = "running"
  /\ c \notin active \cup ended
  /\ active' = active \cup {c}
  /\ UNCHANGED <<waits, phase, ended>>

End(c) ==
  /\ c \in active
  /\ active' = active \ {c}
  /\ ended' = ended \cup {c}
  /\ UNCHANGED <<waits, phase>>

LifeNext ==
  \/ Start \/ GiveUp \/ Stop \/ Finish
  \/ \E c \in Clients : Begin(c) \/ End(c)

LifeSafety == LifeInit /\ [][LifeNext]_lifeVars

LifeSpec == LifeSafety /\ WF_lifeVars(Finish)
=============================================================================
