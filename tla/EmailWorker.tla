----------------------------- MODULE EmailWorker -----------------------------
(***************************************************************************)
(* The mail worker.  poll_once runs the sync of the suppliers' letters and *)
(* then that of the sandbox, each with a session of its own and each with  *)
(* its exceptions caught: is_communication_test_reply gives every letter   *)
(* to one of them, and they share no table that they write.  A behaviour   *)
(* follows the letters of one kind.                                        *)
(*                                                                         *)
(* Source: backend/app/communication_email_worker.py.                      *)
(***************************************************************************)
EXTENDS EmailInbox, TestDialogues

VARIABLE kind    \* which letters come: the suppliers' own or the sandbox's

workerVars == <<vars, dialogueVars, kind>>

\* No letter of the other kind moves; which ones there are does not matter.
WorkerInit ==
  /\ kind \in {"inbox", "sandbox"} /\ Init /\ DialogueInit
  /\ kind = "sandbox" => about = CHOOSE m \in Mail : TRUE
  /\ kind = "inbox" => wording = CHOOSE w \in Wordings : TRUE

InboxStep == kind = "inbox" /\ Next /\ UNCHANGED <<dialogueVars, kind>>
SandboxStep == kind = "sandbox" /\ DialogueNext /\ UNCHANGED <<vars, kind>>

WorkerNext == InboxStep \/ SandboxStep

\* The worker polls for ever (main); what people do is owed to nobody.
PollsInbox == kind = "inbox" /\ (Reconcile(Poller) \/ Step(Poller)) /\ UNCHANGED <<dialogueVars, kind>>
PollsSandbox == kind = "sandbox" /\ WorkerStep /\ UNCHANGED <<vars, kind>>

WorkerSpec ==
  /\ WorkerInit /\ [][WorkerNext]_workerVars
  /\ WF_workerVars(PollsInbox) /\ WF_workerVars(PollsSandbox)
=============================================================================
