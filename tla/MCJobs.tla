------------------------------- MODULE MCJobs -------------------------------
(***************************************************************************)
(* Small instances of the jobs of the server that work on their own: the   *)
(* dispatcher of the outbox, the filler of the ad spend, and the pipeline  *)
(* of the visits in two halves.  They share no state: in a behaviour one   *)
(* of them is at work, and the others have nothing to do.                  *)
(***************************************************************************)
EXTENDS MetaOutbox, AdSpend, VisitPipeline

VARIABLE part

JobsInit ==
  /\ part \in {"outbox", "ads", "counting", "writing"}
  /\ Init
  /\ part # "outbox" => active = {}
  /\ AdInit
  /\ VisitInit

JobsNext ==
  /\ part' = part
  /\ \/ part = "outbox" /\ Next /\ UNCHANGED <<adVars, visitVars>>
     \/ part = "ads" /\ AdNext /\ UNCHANGED <<vars, visitVars>>
     \/ part = "counting" /\ CountNext /\ UNCHANGED <<vars, adVars>>
     \/ part = "writing" /\ WriteNext /\ UNCHANGED <<vars, adVars>>

JobsSpec ==
  /\ JobsInit /\ [][JobsNext]_<<part, vars, adVars, visitVars>>
  /\ Fairness /\ WF_adVars(Fill)
=============================================================================
