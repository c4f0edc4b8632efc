------------------------------ MODULE MCGroups ------------------------------
(* A group message on its way to every member, and a file on its way to a  *)
(* contact.                                                                *)
EXTENDS GroupDelivery, FileTransfer

VARIABLE part    \* the component that runs

groupsVars == <<part, groupVars, transferVars>>

Runs(p) == part = p

GroupsInit ==
    /\ part \in {"group", "file"}
    /\ GroupInit /\ TransferInit

GroupsNext ==
    /\ UNCHANGED part
    /\ \/ part = "group" /\ GroupNext /\ UNCHANGED <<transferVars>>
       \/ part = "file" /\ TransferNext /\ UNCHANGED <<groupVars>>

\* The fairness of each component, while it is the one that runs.
GroupsFairness ==
    /\ WF_groupVars(Runs("group") /\ StartRound)
    /\ \A c \in Contacts : WF_groupVars(Runs("group") /\ ReadPending(c))
    /\ \A row \in Messages \X Contacts :
        WF_groupVars(Runs("group") /\ Retry(row))
        /\ WF_groupVars(Runs("group") /\ Receive(row))
        /\ WF_groupVars(Runs("group") /\ ReceiveReceipt(row))
    /\ WF_transferVars(Runs("file") /\ ListFiles) /\ WF_transferVars(Runs("file") /\ SendPart)
    /\ SF_transferVars(Runs("file") /\ Reserve(Window, sent))
    /\ WF_transferVars(Runs("file") /\ (\E broken \in BOOLEAN : ReceiveOffer(broken)))
    /\ \A i \in Parts : WF_transferVars(Runs("file") /\ (\E broken \in BOOLEAN : ReceivePart(i, broken)))
    /\ WF_transferVars(Runs("file") /\ (\E ack \in acks : ReceiveAck(ack, {})))

GroupsSpec == GroupsInit /\ [][GroupsNext]_groupsVars /\ GroupsFairness

\* FileArrives asks whether Over is ever reached: the states after it need not
\* be visited to answer.
StillGoing == part = "file" => ~Over

\* The properties of each component.  What must happen in the end is asked of
\* the behaviours in which the component runs.

\* Every contact that stays in the group gets its messages (core.rs).
GroupHears == Runs("group") => Delivered

\* A file arrives or one side gives it up (file_transfer.rs).
FileComesThrough == Runs("file") => FileArrives
=============================================================================
