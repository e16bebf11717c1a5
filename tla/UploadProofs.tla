----------------------------- MODULE UploadProofs -----------------------------
(***************************************************************************)
(* Theorems about UploadServer, and about FileUpload, the way of one file  *)
(* of its sessions, for any numbers of requests, files and blocks.         *)
(***************************************************************************)
EXTENDS UploadServer, FileUpload, SequenceTheorems, TLAPS

\* The type of an accepted session, whatever the set of files it was accepted for.
AcceptedSession ==
    [state : {"Active"}, id : Request, ip : Peer,
     files : UNION {[accepted -> SessionFile] : accepted \in SUBSET File}]

LEMMA SlotType ==
    ASSUME NEW s
    PROVE  s \in {Free} \cup PendingSession \cup AcceptedSession
             <=> \/ s \in {Free} \cup PendingSession
                 \/ \E accepted \in SUBSET File : s \in ActiveSession(accepted)
BY DEF AcceptedSession, ActiveSession

\* A guard, and what a cancel carries, are set before anything reads them.
Carried ==
    /\ \A u \in Upload : upc[u] \notin {"idle", "done"} => guard[u] \in Guards
    /\ \A c \in Cancel : cpc[c] \in {"second", "relaying"} => cancelling[c] \in Cancels
    /\ \A c \in Cancel : cpc[c] = "ending" =>
            cancelling[c] \in Cancels /\ cancelling[c].session \in Request

LEMMA SendType ==
    ASSUME TypeOK, NEW e \in Events, SendOrIgnore(e)
    PROVE  queue' \in Seq(Events) /\ open' \in BOOLEAN /\ told' \in [Request -> SUBSET EventKinds]
<1>1. CASE SendFails
  BY <1>1 DEF SendFails, eventVars, TypeOK
<1>2. CASE Send(e)
  <2>1. e.kind \in EventKinds
    BY DEF Events, EventKinds
  <2>2. told' \in [Request -> SUBSET EventKinds]
    BY <1>2, <2>1 DEF Send, TypeOK
  <2> QED
    BY <1>2, <2>2 DEF Send, TypeOK
<1> QED BY <1>1, <1>2 DEF SendOrIgnore

LEMMA FinalizeType ==
    ASSUME TypeOK, NEW g \in Guards \cup {NoGuard}, NEW res \in SaveResults, NEW ends,
           FinalizeFile(g, res, ends)
    PROVE  slot' \in {Free} \cup PendingSession \cup AcceptedSession
<1>1. CASE ~(IsActive /\ slot.id = g.session)
  BY <1>1, SlotType DEF FinalizeFile, TypeOK
<1>2. CASE IsActive /\ slot.id = g.session
  <2> DEFINE files == Settled(slot.files, g.file, res)
  <2>1. slot \in AcceptedSession
    BY <1>2, SlotType DEF TypeOK, IsActive, Free, PendingSession
  <2>2. PICK D \in SUBSET File : slot.files \in [D -> SessionFile]
    BY <2>1 DEF AcceptedSession
  <2>3. ASSUME NEW f \in D PROVE FinalStatus(slot.files[f], res) \in FileStatus
    BY DEF FinalStatus, FileStatus
  <2>4. files \in [D -> SessionFile]
    BY <2>2, <2>3 DEF Settled, SessionFile
  <2>5. [slot EXCEPT !.files = files] \in AcceptedSession
    BY <2>1, <2>4 DEF AcceptedSession
  <2>6. slot' = Free \/ slot' = [slot EXCEPT !.files = files]
    BY <1>2 DEF FinalizeFile
  <2> QED BY <2>5, <2>6
<1> QED BY <1>1, <1>2

LEMMA TypeStep == TypeOK /\ Carried /\ [Next]_vars => TypeOK'
<1> SUFFICES ASSUME TypeOK, Carried, [Next]_vars PROVE TypeOK'
  OBVIOUS
<1> USE ConstantsAssumption
<1>1. ASSUME NEW r \in Request, PinAccepted(r) PROVE TypeOK'
  <2>1. ppc' \in [Request -> PrepareStates]
    BY <1>1 DEF PinAccepted, Blocked, TypeOK, PrepareStates
  <2>2. pinAttempts' \in [Peer -> 0 .. MaxPinAttempts]
    BY <1>1 DEF PinAccepted, Blocked, TypeOK
  <2> QED BY <1>1, <2>1, <2>2 DEF PinAccepted, TypeOK, prepareVars, uploadVars, cancelVars, eventVars
<1>2. ASSUME NEW r \in Request, PinRefused(r) PROVE TypeOK'
  <2>1. ppc' \in [Request -> PrepareStates] /\ reply' \in [Request \cup Upload -> Replies]
    <3>1. \E code \in {401, 429} : AnswerPrepare(r, code)
      BY <1>2, SMTT(30) DEF PinRefused
    <3> QED BY <3>1 DEF AnswerPrepare, TypeOK, PrepareStates, Replies
  <2>2. pinAttempts' \in [Peer -> 0 .. MaxPinAttempts]
    <3>1. CASE UNCHANGED pinAttempts
      BY <3>1 DEF TypeOK
    <3>2. CASE /\ ~Blocked(req[r].ip)
               /\ \E wrong \in {0, 1} : pinAttempts' = [pinAttempts EXCEPT ![req[r].ip] = @ + wrong]
      BY <3>2 DEF Blocked, TypeOK
    <3> QED BY <1>2, <3>1, <3>2, Zenon DEF PinRefused
  <2> QED BY <1>2, <2>1, <2>2 DEF PinRefused, TypeOK, prepareVars, uploadVars, cancelVars, eventVars, AnswerPrepare
<1>3. ASSUME NEW r \in Request, ClaimRefused(r) PROVE TypeOK'
  <2>1. ppc' \in [Request -> PrepareStates] /\ reply' \in [Request \cup Upload -> Replies]
    <3>1. \E code \in {400, 409} : AnswerPrepare(r, code)
      BY <1>3, SMTT(30) DEF ClaimRefused
    <3> QED BY <3>1 DEF AnswerPrepare, TypeOK, PrepareStates, Replies
  <2> QED BY <1>3, <2>1 DEF ClaimRefused, TypeOK, prepareVars, uploadVars, cancelVars, eventVars, AnswerPrepare
<1>4. ASSUME NEW r \in Request, Claim(r) PROVE TypeOK'
  <2>1. slot' \in {Free} \cup PendingSession \cup AcceptedSession
    BY <1>4 DEF Claim, PendingSession, TypeOK
  <2>2. ppc' \in [Request -> PrepareStates]
    BY <1>4 DEF Claim, TypeOK, PrepareStates
  <2> QED BY <1>4, <2>1, <2>2, SlotType DEF Claim, TypeOK, prepareVars, uploadVars, cancelVars, eventVars
<1>5. ASSUME NEW r \in Request, Ask(r) PROVE TypeOK'
  <2>1. queue' \in Seq(Events) /\ open' \in BOOLEAN /\ told' \in [Request -> SUBSET EventKinds]
    BY <1>5, SendType DEF Ask, SendOrIgnore, Events
  <2>2. ppc' \in [Request -> PrepareStates]
    BY <1>5 DEF Ask, TypeOK, PrepareStates
  <2> QED BY <1>5, <2>1, <2>2 DEF Ask, TypeOK, prepareVars, uploadVars, cancelVars, eventVars
<1>6. ASSUME NEW r \in Request, AskFails(r) PROVE TypeOK'
  <2>1. queue' \in Seq(Events) /\ open' \in BOOLEAN /\ told' \in [Request -> SUBSET EventKinds]
    BY <1>6 DEF AskFails, SendFails, eventVars, TypeOK
  <2>2. ppc' \in [Request -> PrepareStates]
    BY <1>6 DEF AskFails, AnswerArmed, TypeOK, PrepareStates
  <2>3. reply' \in [Request \cup Upload -> Replies]
    BY <1>6 DEF AskFails, AnswerArmed, TypeOK, Replies
  <2> QED BY <1>6, <2>1, <2>2, <2>3 DEF AskFails, TypeOK, prepareVars, uploadVars, cancelVars, eventVars, AnswerArmed
<1>7. ASSUME NEW r \in Request, CancelledBySender(r) PROVE TypeOK'
  <2>1. ppc' \in [Request -> PrepareStates]
    BY <1>7 DEF CancelledBySender, AnswerArmed, TypeOK, PrepareStates
  <2>2. reply' \in [Request \cup Upload -> Replies]
    BY <1>7 DEF CancelledBySender, AnswerArmed, TypeOK, Replies
  <2> QED BY <1>7, <2>1, <2>2 DEF CancelledBySender, TypeOK, prepareVars, uploadVars, cancelVars, eventVars, AnswerArmed
<1>8. ASSUME NEW r \in Request, Decided(r) PROVE TypeOK'
  <2>1. ppc' \in [Request -> PrepareStates]
    BY <1>8, ZenonT(60) DEF Decided, TypeOK, PrepareStates
  <2> QED BY <1>8, <2>1 DEF Decided, TypeOK, prepareVars, uploadVars, cancelVars, eventVars
<1>9. ASSUME NEW r \in Request, Clear(r) PROVE TypeOK'
  <2>1. slot' \in {Free} \cup PendingSession \cup AcceptedSession
    BY <1>9, SlotType DEF Clear, AnswerPrepare, ClearPendingSession, TypeOK
  <2>2. ppc' \in [Request -> PrepareStates]
    BY <1>9 DEF Clear, AnswerPrepare, TypeOK, PrepareStates
  <2>3. reply' \in [Request \cup Upload -> Replies]
    BY <1>9 DEF Clear, AnswerPrepare, TypeOK, Replies
  <2> QED BY <1>9, <2>1, <2>2, <2>3, SlotType DEF Clear, TypeOK, prepareVars, uploadVars, cancelVars, eventVars, AnswerPrepare
<1>10. ASSUME NEW r \in Request, Activate(r) PROVE TypeOK'
  <2>1. slot' \in {Free} \cup PendingSession \cup AcceptedSession
    <3> DEFINE files == [f \in AcceptedFiles(r) |-> [status |-> "Pending", attempts |-> 0]]
    <3>1. AcceptedFiles(r) \in SUBSET File
      BY DEF AcceptedFiles, TypeOK, Decisions
    <3>2. files \in [AcceptedFiles(r) -> SessionFile]
      BY DEF SessionFile, FileStatus
    <3>3. req[r].ip \in Peer
      BY DEF TypeOK
    <3>4. slot' = [state |-> "Active", id |-> r, ip |-> req[r].ip, files |-> files]
      BY <1>10 DEF Activate
    <3>5. files \in UNION {[D -> SessionFile] : D \in SUBSET File}
      BY <3>1, <3>2
    <3> HIDE DEF files
    <3> QED BY <3>3, <3>4, <3>5 DEF AcceptedSession
  <2>2. ppc' \in [Request -> PrepareStates]
    BY <1>10 DEF Activate, AnswerPrepare, TypeOK, PrepareStates
  <2>3. reply' \in [Request \cup Upload -> Replies]
    BY <1>10 DEF Activate, AnswerPrepare, TypeOK, Replies
  <2> QED BY <1>10, <2>1, <2>2, <2>3, SlotType DEF Activate, TypeOK, prepareVars, uploadVars, cancelVars, eventVars, AnswerPrepare
<1>11. ASSUME NEW r \in Request, DropPrepare(r) PROVE TypeOK'
  <2>1. ppc' \in [Request -> PrepareStates]
    BY <1>11 DEF DropPrepare, TypeOK, PrepareStates
  <2> QED BY <1>11, <2>1 DEF DropPrepare, TypeOK, prepareVars, uploadVars, cancelVars, eventVars
<1>12. ASSUME NEW r \in Request, CleanUp(r) PROVE TypeOK'
  <2>1. slot' \in {Free} \cup PendingSession \cup AcceptedSession
    BY <1>12, SlotType DEF CleanUp, ClearPendingSession, TypeOK
  <2>2. ppc' \in [Request -> PrepareStates]
    BY <1>12 DEF CleanUp, TypeOK, PrepareStates
  <2> QED BY <1>12, <2>1, <2>2, SlotType DEF CleanUp, TypeOK, prepareVars, uploadVars, cancelVars, eventVars
<1>13. ASSUME NEW r \in Request, TellAborted(r) PROVE TypeOK'
  <2>1. queue' \in Seq(Events) /\ open' \in BOOLEAN /\ told' \in [Request -> SUBSET EventKinds]
    BY <1>13, SendType DEF TellAborted, Events
  <2>2. ppc' \in [Request -> PrepareStates]
    BY <1>13 DEF TellAborted, TypeOK, PrepareStates
  <2> QED BY <1>13, <2>1, <2>2 DEF TellAborted, TypeOK, prepareVars, uploadVars, cancelVars, eventVars
<1>14. ASSUME NEW u \in Upload, UploadRefused(u) PROVE TypeOK'
  <2>1. upc' \in [Upload -> UploadStates]
    BY <1>14 DEF UploadRefused, TypeOK, UploadStates
  <2>2. reply' \in [Request \cup Upload -> Replies]
    <3>1. \/ reply' = [reply EXCEPT ![u] = 400]
          \/ reply' = [reply EXCEPT ![u] = 403]
      BY <1>14, SMT DEF UploadRefused
    <3>2. reply \in [Request \cup Upload -> Replies] /\ 400 \in Replies /\ 403 \in Replies
      BY DEF TypeOK, Replies
    <3> QED BY <3>1, <3>2
  <2> QED BY <1>14, <2>1, <2>2 DEF UploadRefused, TypeOK, prepareVars, uploadVars, cancelVars, eventVars
<1>15. ASSUME NEW u \in Upload, UploadAdmitted(u) PROVE TypeOK'
  <2>1. slot' \in {Free} \cup PendingSession \cup AcceptedSession
    <3>1. PICK a \in Asks : Admissible(a) /\
            slot' = [slot EXCEPT !.files[a.file] = [status |-> "InProgress", attempts |-> @.attempts + 1]]
      BY <1>15 DEF UploadAdmitted
    <3> DEFINE files == [slot.files EXCEPT ![a.file] = [status |-> "InProgress", attempts |-> @.attempts + 1]]
    <3>2. slot \in AcceptedSession
      BY <3>1, SlotType DEF TypeOK, Admissible, IsActive, Free, PendingSession
    <3>3. PICK D \in SUBSET File : slot.files \in [D -> SessionFile]
      BY <3>2 DEF AcceptedSession
    <3>4. files \in [D -> SessionFile]
      BY <3>1, <3>3 DEF Admissible, SessionFile, FileStatus
    <3>5. slot' = [slot EXCEPT !.files = files]
      BY <3>1, <3>2 DEF AcceptedSession
    <3> HIDE DEF files
    <3>6. slot' \in AcceptedSession
      BY <3>2, <3>4, <3>5 DEF AcceptedSession
    <3> QED BY <3>6
  <2>2. upc' \in [Upload -> UploadStates]
    BY <1>15 DEF UploadAdmitted, TypeOK, UploadStates
  <2>3. guard' \in [Upload -> Guards \cup {NoGuard}]
    BY <1>15 DEF UploadAdmitted, Asks, Guards, TypeOK
  <2> QED BY <1>15, <2>1, <2>2, <2>3, SlotType DEF UploadAdmitted, TypeOK, prepareVars, uploadVars, cancelVars, eventVars
<1>16. ASSUME NEW u \in Upload, Announce(u) PROVE TypeOK'
  <2>1. queue' \in Seq(Events) /\ open' \in BOOLEAN /\ told' \in [Request -> SUBSET EventKinds]
    BY <1>16, SendType DEF Announce, SendOrIgnore, Events, Carried, Guards
  <2>2. upc' \in [Upload -> UploadStates]
    BY <1>16 DEF Announce, TypeOK, UploadStates
  <2> QED BY <1>16, <2>1, <2>2 DEF Announce, TypeOK, prepareVars, uploadVars, cancelVars, eventVars
<1>17. ASSUME NEW u \in Upload, NoTarget(u) PROVE TypeOK'
  <2>1. queue' \in Seq(Events) /\ open' \in BOOLEAN /\ told' \in [Request -> SUBSET EventKinds]
    BY <1>17 DEF NoTarget, SendFails, eventVars, TypeOK
  <2>2. upc' \in [Upload -> UploadStates]
    BY <1>17 DEF NoTarget, TypeOK, UploadStates
  <2>3. result' \in [Upload -> SaveResults]
    BY <1>17 DEF NoTarget, TypeOK, SaveResults
  <2> QED BY <1>17, <2>1, <2>2, <2>3 DEF NoTarget, TypeOK, prepareVars, uploadVars, cancelVars, eventVars
<1>18. ASSUME NEW u \in Upload, StartSaving(u) \/ WriterStops(u) \/ Saved(u) PROVE TypeOK'
  <2>1. upc' \in [Upload -> UploadStates]
    BY <1>18 DEF StartSaving, WriterStops, Saved, TypeOK, UploadStates
  <2>2. result' \in [Upload -> SaveResults]
    BY <1>18 DEF StartSaving, WriterStops, Saved, TypeOK, SaveResults
  <2> QED BY <1>18, <2>1, <2>2 DEF StartSaving, WriterStops, Saved, TypeOK, prepareVars, uploadVars, cancelVars, eventVars
<1>19. ASSUME NEW u \in Upload, Finish(u) PROVE TypeOK'
  <2>1. slot' \in {Free} \cup PendingSession \cup AcceptedSession
    BY <1>19, FinalizeType DEF Finish, TypeOK
  <2>2. upc' \in [Upload -> UploadStates]
    BY <1>19 DEF Finish, TypeOK, UploadStates
  <2>3. reply' \in [Request \cup Upload -> Replies]
    BY <1>19 DEF Finish, ReplyFor, TypeOK, Replies
  <2> QED BY <1>19, <2>1, <2>2, <2>3, SlotType DEF Finish, TypeOK, prepareVars, uploadVars, cancelVars, eventVars
<1>20. ASSUME NEW u \in Upload, TellFinished(u) PROVE TypeOK'
  <2>1. queue' \in Seq(Events) /\ open' \in BOOLEAN /\ told' \in [Request -> SUBSET EventKinds]
    BY <1>20, SendType DEF TellFinished, Ended, Events, Carried, Guards
  <2>2. upc' \in [Upload -> UploadStates]
    BY <1>20 DEF TellFinished, TypeOK, UploadStates
  <2>3. reply' \in [Request \cup Upload -> Replies]
    BY <1>20 DEF TellFinished, ReplyFor, TypeOK, Replies
  <2> QED BY <1>20, <2>1, <2>2, <2>3 DEF TellFinished, TypeOK, prepareVars, uploadVars, cancelVars, eventVars
<1>21. ASSUME NEW u \in Upload, DropUpload(u) PROVE TypeOK'
  <2>1. upc' \in [Upload -> UploadStates]
    BY <1>21 DEF DropUpload, TypeOK, UploadStates
  <2> QED BY <1>21, <2>1 DEF DropUpload, TypeOK, prepareVars, uploadVars, cancelVars, eventVars
<1>22. ASSUME NEW u \in Upload, FailDropped(u) PROVE TypeOK'
  <2>1. slot' \in {Free} \cup PendingSession \cup AcceptedSession
    BY <1>22, FinalizeType DEF FailDropped, AfterDrop, TypeOK, SaveResults
  <2>2. upc' \in [Upload -> UploadStates]
    BY <1>22 DEF FailDropped, TypeOK, UploadStates
  <2> QED BY <1>22, <2>1, <2>2, SlotType DEF FailDropped, TypeOK, prepareVars, uploadVars, cancelVars, eventVars
<1>23. ASSUME NEW u \in Upload, TellFailed(u) PROVE TypeOK'
  <2>1. queue' \in Seq(Events) /\ open' \in BOOLEAN /\ told' \in [Request -> SUBSET EventKinds]
    BY <1>23, SendType DEF TellFailed, Ended, Events, Carried, Guards
  <2>2. upc' \in [Upload -> UploadStates]
    BY <1>23 DEF TellFailed, TypeOK, UploadStates
  <2> QED BY <1>23, <2>1, <2>2 DEF TellFailed, TypeOK, prepareVars, uploadVars, cancelVars, eventVars
<1>24. ASSUME NEW c \in Cancel, CancelPending(c) PROVE TypeOK'
  <2>1. cpc' \in [Cancel -> CancelStates]
    BY <1>24 DEF CancelPending, TypeOK, CancelStates
  <2>2. cancelled' \in [Request -> BOOLEAN]
    BY <1>24 DEF CancelPending, TypeOK
  <2> QED BY <1>24, <2>1, <2>2 DEF CancelPending, TypeOK, prepareVars, uploadVars, cancelVars, eventVars
<1>25. ASSUME NEW c \in Cancel, CancelOther(c) PROVE TypeOK'
  <2>1. cpc' \in [Cancel -> CancelStates]
    <3>1. cpc' = [cpc EXCEPT ![c] = "done"] \/ cpc' = [cpc EXCEPT ![c] = "second"]
      BY <1>25, Zenon DEF CancelOther
    <3> QED BY <3>1 DEF TypeOK, CancelStates
  <2>2. cancelling' \in [Cancel -> Cancels \cup {NoCancel}]
    <3>1. PICK p \in Peer, s \in Request \cup {NoSession, Foreign} :
              \/ cancelling' = cancelling
              \/ s # NoSession /\ cancelling' = [cancelling EXCEPT ![c] = [ip |-> p, session |-> s]]
      BY <1>25, SMT DEF CancelOther
    <3>2. s # NoSession => [ip |-> p, session |-> s] \in Cancels
      BY DEF Cancels
    <3>3. cancelling \in [Cancel -> Cancels \cup {NoCancel}]
      BY DEF TypeOK
    <3>4. CASE cancelling' = cancelling
      BY <3>3, <3>4
    <3>5. ASSUME NEW v \in Cancels, cancelling' = [cancelling EXCEPT ![c] = v]
          PROVE  cancelling' \in [Cancel -> Cancels \cup {NoCancel}]
      BY <3>3, <3>5
    <3> QED BY <3>1, <3>2, <3>4, <3>5, Zenon
  <2> QED BY <1>25, <2>1, <2>2 DEF CancelOther, TypeOK, prepareVars, uploadVars, cancelVars, eventVars
<1>26. ASSUME NEW c \in Cancel, CancelActive(c) PROVE TypeOK'
  <2>1. slot' \in {Free} \cup PendingSession \cup AcceptedSession
    BY <1>26, SlotType DEF CancelActive, TypeOK
  <2>2. cpc' \in [Cancel -> CancelStates]
    BY <1>26, ZenonT(60) DEF CancelActive, TypeOK, CancelStates
  <2> QED BY <1>26, <2>1, <2>2 DEF CancelActive, TypeOK, prepareVars, uploadVars, cancelVars, eventVars
<1>27. ASSUME NEW c \in Cancel, TellCancelled(c) PROVE TypeOK'
  <2>1. queue' \in Seq(Events) /\ open' \in BOOLEAN /\ told' \in [Request -> SUBSET EventKinds]
    BY <1>27, SendType DEF TellCancelled, Ended, Events, Carried, Cancels
  <2>2. cpc' \in [Cancel -> CancelStates]
    BY <1>27 DEF TellCancelled, TypeOK, CancelStates
  <2> QED BY <1>27, <2>1, <2>2 DEF TellCancelled, TypeOK, prepareVars, uploadVars, cancelVars, eventVars
<1>28. ASSUME NEW c \in Cancel, DropCancel(c) PROVE TypeOK'
  <2>1. cpc' \in [Cancel -> CancelStates]
    BY <1>28 DEF DropCancel, TypeOK, CancelStates
  <2> QED BY <1>28, <2>1 DEF DropCancel, TypeOK, prepareVars, uploadVars, cancelVars, eventVars
<1>29. ASSUME AppTake PROVE TypeOK'
  <2>1. queue' \in Seq(Events)
    BY <1>29 DEF AppTake, TypeOK
  <2>2. decision' \in [Request -> Decisions]
    <3>1. Head(queue) \in Events
      BY <1>29, HeadTailProperties DEF AppTake, TypeOK
    <3>2. CASE Head(queue).kind = "PrepareUpload"
      <4>1. Head(queue).id \in Request
        BY <3>1, <3>2 DEF Events
      <4>2. decision' = [decision EXCEPT ![Head(queue).id].kind = "Asked"]
        BY <1>29, <3>2 DEF AppTake
      <4>3. [decision[Head(queue).id] EXCEPT !.kind = "Asked"] \in Decisions
        <5>1. decision[Head(queue).id] \in Decisions
          BY <4>1 DEF TypeOK
        <5> QED BY <5>1 DEF Decisions
      <4>4. decision \in [Request -> Decisions]
        BY DEF TypeOK
      <4> QED BY <4>1, <4>2, <4>3, <4>4
    <3>3. CASE Head(queue).kind # "PrepareUpload"
      BY <1>29, <3>3 DEF AppTake, TypeOK
    <3> QED BY <3>2, <3>3
  <2>3. target' \in [Upload -> {"Unsent", "Asked", "Given", "Dropped"}]
    BY <1>29 DEF AppTake, TypeOK
  <2> QED BY <1>29, <2>1, <2>2, <2>3 DEF AppTake, TypeOK, prepareVars, uploadVars, cancelVars, eventVars
<1>30. ASSUME NEW r \in Request, AppDecide(r) PROVE TypeOK'
  <2>1. decision' \in [Request -> Decisions]
    <3>1. PICK k \in {"Accept", "Decline", "Dropped"}, ids \in SUBSET File :
            decision' = [decision EXCEPT ![r] = [kind |-> k, ids |-> ids]]
      BY <1>30 DEF AppDecide
    <3>2. [kind |-> k, ids |-> ids] \in Decisions
      BY DEF Decisions
    <3> QED BY <3>1, <3>2 DEF TypeOK
  <2> QED BY <1>30, <2>1 DEF AppDecide, TypeOK, prepareVars, uploadVars, cancelVars, eventVars
<1>31. ASSUME NEW u \in Upload, AppTarget(u) PROVE TypeOK'
  <2>1. target' \in [Upload -> {"Unsent", "Asked", "Given", "Dropped"}]
    BY <1>31 DEF AppTarget, TypeOK
  <2> QED BY <1>31, <2>1 DEF AppTarget, TypeOK, prepareVars, uploadVars, cancelVars, eventVars
<1>32. ASSUME AppCancel PROVE TypeOK'
  <2>1. slot' \in {Free} \cup PendingSession \cup AcceptedSession
    BY <1>32 DEF AppCancel, TypeOK
  <2> QED BY <1>32, <2>1 DEF AppCancel, TypeOK, prepareVars, uploadVars, cancelVars, eventVars
<1>33. ASSUME AppClose PROVE TypeOK'
  <2>1. queue' \in Seq(Events)
    BY <1>33 DEF AppClose, TypeOK
  <2>2. open' \in BOOLEAN
    BY <1>33 DEF AppClose, TypeOK
  <2>3. decision' \in [Request -> Decisions]
    BY <1>33 DEF AppClose, TypeOK, Decisions
  <2>4. target' \in [Upload -> {"Unsent", "Asked", "Given", "Dropped"}]
    BY <1>33 DEF AppClose, TypeOK
  <2> QED BY <1>33, <2>1, <2>2, <2>3, <2>4 DEF AppClose, TypeOK, prepareVars, uploadVars, cancelVars, eventVars
<1>34. CASE UNCHANGED vars
  BY <1>34 DEF TypeOK, vars, prepareVars, uploadVars, cancelVars, eventVars
<1> QED
  BY <1>1, <1>2, <1>3, <1>4, <1>5, <1>6, <1>7, <1>8, <1>9, <1>10, <1>11, <1>12,
     <1>13, <1>14, <1>15, <1>16, <1>17, <1>18, <1>19, <1>20, <1>21, <1>22,
     <1>23, <1>24, <1>25, <1>26, <1>27, <1>28, <1>29, <1>30, <1>31, <1>32,
     <1>33, <1>34
  DEF Next, PrepareStep, UploadStep, Transfer, CancelStep, PrepareClient, UploadClient,
      CancelClient, App

LEMMA CarriedStep == TypeOK /\ Carried /\ [Next]_vars => Carried'
<1> SUFFICES ASSUME TypeOK, Carried, [Next]_vars PROVE Carried'
  OBVIOUS
<1>1. CASE \E u \in Upload : UploadStep(u) \/ Transfer(u) \/ UploadClient(u)
  <2>1. UNCHANGED cancelVars
    BY <1>1 DEF UploadStep, Transfer, UploadClient, Announce, NoTarget, StartSaving, WriterStops, Saved, Finish,
       TellFinished, FailDropped, TellFailed, UploadRefused, UploadAdmitted,
       DropUpload
  <2>2. ASSUME NEW v \in Upload, upc'[v] \notin {"idle", "done"} PROVE guard'[v] \in Guards
    <3>1. PICK u \in Upload : UploadStep(u) \/ Transfer(u) \/ UploadClient(u)
      BY <1>1
    <3>2. CASE UploadAdmitted(u)
      BY <2>2, <3>2 DEF UploadAdmitted, Asks, Guards, TypeOK, Carried
    <3>3. CASE ~UploadAdmitted(u)
      <4>1. guard' = guard
        BY <3>1, <3>3 DEF UploadStep, Transfer, UploadClient, Announce, NoTarget, StartSaving, WriterStops, Saved, Finish,
           TellFinished, FailDropped, TellFailed, UploadRefused, DropUpload
      <4>2. upc[v] \notin {"idle", "done"}
        BY <2>2, <3>1, <3>3 DEF UploadStep, Transfer, UploadClient, Announce, NoTarget, StartSaving, WriterStops, Saved, Finish,
           TellFinished, FailDropped, TellFailed, UploadRefused, DropUpload, TypeOK
      <4> QED BY <4>1, <4>2 DEF Carried
    <3> QED BY <3>2, <3>3
  <2> QED BY <2>1, <2>2 DEF Carried, cancelVars
<1>2. CASE \E c \in Cancel : CancelStep(c) \/ CancelClient(c)
  <2>1. UNCHANGED uploadVars
    BY <1>2 DEF CancelStep, CancelClient, CancelActive, TellCancelled,
       CancelPending, CancelOther, DropCancel
  <2>2. PICK c \in Cancel : CancelStep(c) \/ CancelClient(c)
    BY <1>2
  <2>3. ASSUME NEW d \in Cancel, cpc'[d] \in {"second", "relaying", "ending"}
        PROVE  /\ cancelling'[d] \in Cancels
               /\ cpc'[d] = "ending" => cancelling'[d].session \in Request
    <3>1. CASE CancelOther(c)
      <4>1. PICK p \in Peer, s \in Request \cup {NoSession, Foreign} :
                IF s = NoSession
                  THEN cpc' = [cpc EXCEPT ![c] = "done"] /\ UNCHANGED cancelling
                  ELSE /\ cpc' = [cpc EXCEPT ![c] = "second"]
                       /\ cancelling' = [cancelling EXCEPT ![c] = [ip |-> p, session |-> s]]
        BY <3>1 DEF CancelOther
      <4> QED BY <2>3, <4>1 DEF Carried, Cancels, TypeOK
    <3>2. CASE CancelActive(c)
      <4>1. cancelling' = cancelling /\ cpc[c] = "second"
        BY <3>2 DEF CancelActive
      <4>2. cpc' = [cpc EXCEPT ![c] = "ending"] => cancelling[c].session \in Request
        <5>1. CASE IsActive /\ slot.id = cancelling[c].session
          BY <5>1, SlotType DEF TypeOK, IsActive, Free, PendingSession, AcceptedSession
        <5>2. CASE ~(IsActive /\ slot.id = cancelling[c].session)
          BY <3>2, <5>2, "ending" # "relaying" DEF CancelActive, TypeOK
        <5> QED BY <5>1, <5>2
      <4>3. cpc' = [cpc EXCEPT ![c] = "ending"] \/ cpc' = [cpc EXCEPT ![c] = "relaying"]
        BY <3>2 DEF CancelActive
      <4> QED BY <2>3, <4>1, <4>2, <4>3 DEF Carried, TypeOK
    <3>3. CASE CancelPending(c) \/ TellCancelled(c) \/ DropCancel(c)
      <4>1. cancelling' = cancelling /\ cpc' = [cpc EXCEPT ![c] = "done"]
        BY <3>3 DEF CancelPending, TellCancelled, DropCancel
      <4> QED BY <2>3, <4>1 DEF Carried, TypeOK
    <3> QED BY <2>2, <3>1, <3>2, <3>3 DEF CancelStep, CancelClient
  <2> QED BY <2>1, <2>3 DEF Carried, uploadVars
<1>3. CASE UNCHANGED <<upc, guard, cpc, cancelling>>
  BY <1>3 DEF Carried
<1>4. (\E r \in Request : PrepareStep(r) \/ PrepareClient(r)) \/ App
         => UNCHANGED <<upc, guard, cpc, cancelling>>
  BY DEF PrepareStep, PrepareClient, App, PinAccepted, PinRefused, ClaimRefused, Claim, Ask,
     AskFails, CancelledBySender, Decided, Clear, Activate, DropPrepare, CleanUp, TellAborted,
     AppTake, AppDecide, AppTarget, AppCancel, AppClose, uploadVars, cancelVars
<1>5. UNCHANGED vars => UNCHANGED <<upc, guard, cpc, cancelling>>
  BY DEF vars, uploadVars, cancelVars
<1> QED
  BY <1>1, <1>2, <1>3, <1>4, <1>5 DEF Next

LEMMA InitTyped == Init => TypeOK /\ Carried
<1> SUFFICES ASSUME Init PROVE TypeOK /\ Carried
  OBVIOUS
<1>1. TypeOK
  BY ConstantsAssumption DEF Init, TypeOK, Undecided, Decisions, NoReply, Replies,
     SaveResults, PrepareStates, UploadStates, CancelStates
<1>2. Carried
  BY DEF Init, Carried
<1> QED BY <1>1, <1>2

\* Every reachable state is well typed; in particular no address ever has
\* more than MAX_PIN_ATTEMPTS wrong PINs on record.
THEOREM Typed == Spec => []TypeOK
<1>1. TypeOK /\ Carried /\ [Next]_vars => TypeOK' /\ Carried'
  BY TypeStep, CarriedStep
<1> QED BY <1>1, InitTyped, PTL DEF Spec
-----------------------------------------------------------------------------
(* The slot has one owner.                                                 *)

\* Steps that leave the slot alone and make nobody owe it.
LEMMA NoNewOwner ==
    ASSUME SlotOwned, slot' = slot, \A q \in Request : Owes(q)' => Owes(q)
    PROVE  SlotOwned'
BY DEF SlotOwned, Holds, IsPending

\* While a session is active nobody owes the slot.
LEMMA ActiveUnowed == ASSUME SlotOwned, IsActive PROVE \A q \in Request : ~Owes(q)
BY DEF SlotOwned, Holds, IsPending, IsActive

\* Whoever owes the slot is the only one.
LEMMA OneOwner ==
    ASSUME SlotOwned, NEW r \in Request, NEW q \in Request, Owes(r), Owes(q)
    PROVE  q = r
BY DEF SlotOwned, Holds

\* Uploads, cancels and the application touch the slot only while a session
\* is active, and never a prepare-upload handler.
LEMMA OthersTouchActive ==
    ASSUME (\E u \in Upload : UploadStep(u) \/ Transfer(u) \/ UploadClient(u))
           \/ (\E c \in Cancel : CancelStep(c) \/ CancelClient(c)) \/ App
    PROVE  ppc' = ppc /\ (slot' = slot \/ IsActive)
<1>1. ASSUME NEW u \in Upload, UploadStep(u) \/ Transfer(u) \/ UploadClient(u)
      PROVE  ppc' = ppc /\ (slot' = slot \/ IsActive)
  BY <1>1 DEF UploadStep, Transfer, UploadClient, Announce, NoTarget, StartSaving, WriterStops, Saved, Finish, TellFinished,
     FailDropped, TellFailed, UploadRefused, UploadAdmitted, DropUpload, FinalizeFile,
     Admissible, prepareVars
<1>2. ASSUME NEW c \in Cancel, CancelStep(c) \/ CancelClient(c)
      PROVE  ppc' = ppc /\ (slot' = slot \/ IsActive)
  BY <1>2 DEF CancelStep, CancelClient, CancelActive, TellCancelled, CancelPending,
     CancelOther, DropCancel, prepareVars
<1>3. ASSUME App PROVE ppc' = ppc /\ (slot' = slot \/ IsActive)
  BY <1>3 DEF App, AppTake, AppDecide, AppTarget, AppCancel, AppClose, prepareVars
<1> QED BY <1>1, <1>2, <1>3

LEMMA OwnedStep == TypeOK /\ SlotOwned /\ [Next]_vars => SlotOwned'
<1> SUFFICES ASSUME TypeOK, SlotOwned, [Next]_vars PROVE SlotOwned'
  OBVIOUS
<1>1. ASSUME NEW r \in Request, Claim(r) PROVE SlotOwned'
  <2>1. \A q \in Request : ~Owes(q)
    BY <1>1 DEF Claim, SlotVacant, SlotOwned, Holds, IsPending, Free
  <2>2. \A q \in Request : Owes(q)' => q = r
    BY <1>1, <2>1 DEF Claim, Owes, TypeOK
  <2>3. Holds(r)'
    BY <1>1 DEF Claim, Holds, IsPending
  <2> QED BY <2>2, <2>3 DEF SlotOwned
<1>2. ASSUME NEW r \in Request, Clear(r) \/ CleanUp(r) \/ Activate(r) PROVE SlotOwned'
  <2>1. Owes(r)
    BY <1>2 DEF Clear, CleanUp, Activate, Owes
  <2>2. \A q \in Request : ~Owes(q)'
    <3>1. ppc'[r] \in {"done", "aborting"} /\ \A q \in Request \ {r} : ppc'[q] = ppc[q]
      BY <1>2 DEF Clear, CleanUp, Activate, AnswerPrepare, TypeOK
    <3>2. ~Owes(r)'
      BY <3>1 DEF Owes
    <3>3. ASSUME NEW q \in Request \ {r} PROVE ~Owes(q)'
      <4>1. ~Owes(q)
        BY <2>1, OneOwner
      <4> QED BY <3>1, <4>1 DEF Owes
    <3> QED BY <3>2, <3>3
  <2> QED BY <2>2 DEF SlotOwned
<1>3. ASSUME NEW r \in Request, PinAccepted(r) \/ PinRefused(r) \/ ClaimRefused(r)
                                \/ TellAborted(r)
      PROVE SlotOwned'
  <2>1. slot' = slot /\ (ppc' = [ppc EXCEPT ![r] = "claim"] \/ ppc' = [ppc EXCEPT ![r] = "done"])
    BY <1>3, Zenon DEF PinAccepted, PinRefused, ClaimRefused, TellAborted, AnswerPrepare
  <2>2. \A q \in Request : Owes(q)' => Owes(q)
    BY <2>1 DEF Owes, TypeOK
  <2> QED BY <2>1, <2>2, NoNewOwner
<1>4. ASSUME NEW r \in Request, Ask(r) \/ AskFails(r) \/ CancelledBySender(r) \/ Decided(r)
                                \/ DropPrepare(r)
      PROVE SlotOwned'
  <2>1. slot' = slot
    BY <1>4 DEF Ask, AskFails, CancelledBySender, Decided, DropPrepare
  <2>2. \A q \in Request : Owes(q)' => Owes(q)
    <3>1. \A q \in Request \ {r} : ppc'[q] = ppc[q]
      BY <1>4 DEF Ask, AskFails, CancelledBySender, Decided, DropPrepare, AnswerArmed, TypeOK
    <3>2. Owes(r) \/ ppc'[r] = "done"
      BY <1>4 DEF Ask, AskFails, CancelledBySender, Decided, DropPrepare, AnswerArmed, TypeOK, Owes
    <3> QED BY <3>1, <3>2 DEF Owes
  <2> QED BY <2>1, <2>2, NoNewOwner
<1>5. CASE \/ \E u \in Upload : UploadStep(u) \/ Transfer(u) \/ UploadClient(u)
           \/ \E c \in Cancel : CancelStep(c) \/ CancelClient(c)
           \/ App
  <2>1. ppc' = ppc /\ (slot' = slot \/ IsActive)
    BY <1>5, OthersTouchActive
  <2>2. CASE slot' = slot
    BY <2>1, <2>2, NoNewOwner DEF Owes
  <2>3. CASE IsActive
    BY <2>1, <2>3, ActiveUnowed DEF SlotOwned, Owes
  <2> QED BY <2>1, <2>2, <2>3
<1>6. CASE UNCHANGED vars
  BY <1>6, NoNewOwner DEF vars, prepareVars, Owes
<1> QED
  BY <1>1, <1>2, <1>3, <1>4, <1>5, <1>6 DEF Next, PrepareStep, PrepareClient

\* A prepare-upload that claimed the slot finds it pending for itself until
\* it gives it back, so the unconditional writes of clear_pending_session and
\* of the active session never hit another session.
THEOREM SlotOwnership == Spec => []SlotOwned
<1>1. Init => SlotOwned
  BY DEF Init, SlotOwned, Owes
<1>2. TypeOK /\ SlotOwned /\ [Next]_vars => SlotOwned'
  BY OwnedStep
<1> QED BY <1>1, <1>2, Typed, PTL DEF Spec
-----------------------------------------------------------------------------
(* Sessions do not come back, and files have one writer.                   *)

\* A session is active, or has uploads, only after its handler is done.
SessionsOver ==
    /\ IsActive => ppc[slot.id] = "done"
    /\ \A u \in Upload : guard[u] \in Guards => ppc[guard[u].session] = "done"

LEMMA ActiveType == TypeOK /\ IsActive => slot \in AcceptedSession /\ slot.id \in Request
BY SlotType DEF TypeOK, IsActive, Free, PendingSession, AcceptedSession

\* A handler that is done does nothing any more.
LEMMA DoneStays ==
    ASSUME TypeOK, [Next]_vars, NEW q \in Request, ppc[q] = "done"
    PROVE  ppc'[q] = "done"
<1>1. ASSUME NEW r \in Request, PrepareStep(r) \/ PrepareClient(r) PROVE ppc'[q] = "done"
  <2>1. ppc[r] # "done"
    BY <1>1 DEF PrepareStep, PrepareClient, PinAccepted, PinRefused, ClaimRefused, Claim,
       Ask, AskFails, CancelledBySender, Decided, Clear, Activate, DropPrepare, CleanUp,
       TellAborted
  <2>2. \A p \in Request \ {r} : ppc'[p] = ppc[p]
    BY <1>1 DEF PrepareStep, PrepareClient, PinAccepted, PinRefused, ClaimRefused, Claim,
       Ask, AskFails, CancelledBySender, Decided, Clear, Activate, DropPrepare, CleanUp,
       TellAborted, AnswerPrepare, AnswerArmed, TypeOK
  <2> QED BY <2>1, <2>2
<1>2. CASE UNCHANGED vars
  BY <1>2 DEF vars, prepareVars
<1> QED BY <1>1, <1>2, OthersTouchActive DEF Next

\* What an admitted upload changes.
Admits(u, a) ==
    /\ upc[u] = "idle"
    /\ Admissible(a)
    /\ slot' = [slot EXCEPT !.files[a.file] =
                  [status |-> "InProgress", attempts |-> @.attempts + 1]]
    /\ guard' = [guard EXCEPT ![u] = [session |-> a.session, file |-> a.file]]
    /\ upc' = [upc EXCEPT ![u] = "announcing"]
    /\ UNCHANGED <<ppc, told>>

\* What the report on an upload changes when its session is the active one.
Settles(u, res) ==
    /\ Armed(u)
    /\ IsActive
    /\ slot.id = guard[u].session
    /\ UNCHANGED <<guard, ppc, told>>
    /\ IF IsComplete(Settled(slot.files, guard[u].file, res))
         THEN slot' = Free /\ upc' \in {[upc EXCEPT ![u] = "ending"], [upc EXCEPT ![u] = "telling"]}
         ELSE /\ slot' = [slot EXCEPT !.files = Settled(slot.files, guard[u].file, res)]
              /\ upc' = [upc EXCEPT ![u] = "done"]

\* Any other step: no file changes, no upload starts.
Leaves ==
    /\ slot' = slot \/ slot' = Free \/ \E r \in Request : Claim(r) \/ Activate(r)
    /\ guard' = guard
    /\ \A v \in Upload : Armed(v)' => Armed(v)

LEMMA SettlesOrLeaves ==
    ASSUME TypeOK, NEW u \in Upload, Finish(u) \/ FailDropped(u)
    PROVE  \/ Leaves /\ slot' = slot /\ ppc' = ppc
           \/ \E res \in SaveResults : Settles(u, res)
<1>1. PICK res \in SaveResults, ends \in BOOLEAN :
         /\ FinalizeFile(guard[u], res, ends)
         /\ upc' \in {[upc EXCEPT ![u] = IF ends THEN "ending" ELSE "done"],
                      [upc EXCEPT ![u] = IF ends THEN "telling" ELSE "done"]}
  <2>1. CASE Finish(u)
    <3>1. result[u] \in SaveResults
      BY DEF TypeOK
    <3> QED BY <2>1, <3>1 DEF Finish
  <2>2. CASE FailDropped(u)
    BY <2>2 DEF FailDropped, AfterDrop, SaveResults
  <2> QED BY <2>1, <2>2
<1>2. Armed(u) /\ UNCHANGED <<guard, ppc, told>>
  BY DEF Finish, FailDropped, Armed, prepareVars, eventVars
<1>3. CASE IsActive /\ slot.id = guard[u].session
  <2>1. ends = IsComplete(Settled(slot.files, guard[u].file, res))
    BY <1>1, <1>3 DEF FinalizeFile
  <2>2. CASE ends
    BY <1>1, <1>2, <1>3, <2>1, <2>2 DEF FinalizeFile, Settles
  <2>3. CASE ~ends
    BY <1>1, <1>2, <1>3, <2>1, <2>3 DEF FinalizeFile, Settles
  <2> QED BY <2>2, <2>3
<1>4. CASE ~(IsActive /\ slot.id = guard[u].session)
  <2>1. slot' = slot /\ ~ends
    BY <1>1, <1>4 DEF FinalizeFile
  <2>2. \A v \in Upload : Armed(v)' => Armed(v)
    BY <1>1, <2>1 DEF Armed, TypeOK
  <2> QED BY <1>2, <2>1, <2>2 DEF Leaves
<1> QED BY <1>3, <1>4

\* Every step admits an upload, settles one, or leaves the files alone.
LEMMA StepKinds ==
    ASSUME TypeOK, [Next]_vars
    PROVE  \/ Leaves
           \/ \E u \in Upload, a \in Asks : Admits(u, a)
           \/ \E u \in Upload, res \in SaveResults : Settles(u, res)
<1>1. ASSUME NEW r \in Request, PrepareStep(r) \/ PrepareClient(r) PROVE Leaves
  <2>1. UNCHANGED <<upc, guard>>
    BY <1>1 DEF PrepareStep, PrepareClient, PinAccepted, PinRefused, ClaimRefused, Claim,
       Ask, AskFails, CancelledBySender, Decided, Clear, Activate, DropPrepare, CleanUp,
       TellAborted, uploadVars
  <2>2. slot' = slot \/ slot' = Free \/ \E q \in Request : Claim(q) \/ Activate(q)
    BY <1>1 DEF PrepareStep, PrepareClient, PinAccepted, PinRefused, ClaimRefused,
       Ask, AskFails, CancelledBySender, Decided, Clear, DropPrepare, CleanUp,
       TellAborted, ClearPendingSession
  <2> QED BY <2>1, <2>2 DEF Leaves, Armed
<1>2. ASSUME NEW u \in Upload, UploadStep(u) \/ Transfer(u) \/ UploadClient(u)
      PROVE  \/ Leaves
             \/ \E a \in Asks : Admits(u, a)
             \/ \E res \in SaveResults : Settles(u, res)
  <2>1. CASE UploadAdmitted(u)
    <3>1. PICK a \in Asks : Admits(u, a)
      BY <2>1 DEF UploadAdmitted, Admits, prepareVars, eventVars
    <3> QED BY <3>1
  <2>2. CASE Finish(u) \/ FailDropped(u)
    BY <2>2, SettlesOrLeaves
  <2>3. CASE Announce(u) \/ NoTarget(u) \/ StartSaving(u) \/ WriterStops(u) \/ Saved(u) \/ TellFinished(u) \/ TellFailed(u)
             \/ UploadRefused(u) \/ DropUpload(u)
    <3>1. slot' = slot /\ guard' = guard
      BY <2>3 DEF Announce, NoTarget, StartSaving, WriterStops, Saved, TellFinished, TellFailed, UploadRefused, DropUpload
    <3>2. \A v \in Upload : Armed(v)' => Armed(v)
      <4>1. \A v \in Upload \ {u} : upc'[v] = upc[v]
        BY <2>3 DEF Announce, NoTarget, StartSaving, WriterStops, Saved, TellFinished, TellFailed, UploadRefused,
           DropUpload, TypeOK
      <4>2. Armed(u)' => Armed(u)
        BY <2>3 DEF Announce, NoTarget, StartSaving, WriterStops, Saved, TellFinished, TellFailed, UploadRefused,
           DropUpload, TypeOK, Armed
      <4> QED BY <4>1, <4>2 DEF Armed
    <3> QED BY <3>1, <3>2 DEF Leaves
  <2> QED BY <1>2, <2>1, <2>2, <2>3 DEF UploadStep, Transfer, UploadClient
<1>3. ASSUME NEW c \in Cancel, CancelStep(c) \/ CancelClient(c) PROVE Leaves
  <2>1. UNCHANGED <<upc, guard>> /\ (slot' = slot \/ slot' = Free)
    BY <1>3 DEF CancelStep, CancelClient, CancelActive, TellCancelled, CancelPending,
       CancelOther, DropCancel, uploadVars
  <2> QED BY <2>1 DEF Leaves, Armed
<1>4. CASE App
  <2>1. UNCHANGED <<upc, guard>> /\ (slot' = slot \/ slot' = Free)
    BY <1>4 DEF App, AppTake, AppDecide, AppTarget, AppCancel, AppClose, uploadVars
  <2> QED BY <2>1 DEF Leaves, Armed
<1>5. CASE UNCHANGED vars
  BY <1>5 DEF vars, uploadVars, Leaves, Armed
<1> QED BY <1>1, <1>2, <1>3, <1>4, <1>5 DEF Next

LEMMA OverStep == TypeOK /\ SessionsOver /\ [Next]_vars => SessionsOver'
<1> SUFFICES ASSUME TypeOK, SessionsOver, [Next]_vars PROVE SessionsOver'
  OBVIOUS
<1>1. \A q \in Request : ppc[q] = "done" => ppc'[q] = "done"
  BY DoneStays
<1>2. ASSUME NEW u \in Upload, NEW a \in Asks, Admits(u, a) PROVE SessionsOver'
  <2>1. slot \in AcceptedSession /\ slot.id \in Request /\ slot'.id = slot.id /\ slot.id = a.session
    BY <1>2, ActiveType DEF Admits, Admissible, AcceptedSession
  <2>2. \A v \in Upload : guard'[v] = guard[v] \/ guard'[v].session = slot.id
    BY <1>2, <2>1 DEF Admits, TypeOK
  <2> QED BY <1>1, <1>2, <2>1, <2>2 DEF SessionsOver, Admits, Admissible, Guards
<1>3. ASSUME NEW u \in Upload, NEW res \in SaveResults, Settles(u, res) PROVE SessionsOver'
  <2>1. slot' = Free \/ (slot'.id = slot.id /\ slot.id \in Request)
    BY <1>3, ActiveType DEF Settles, AcceptedSession
  <2> QED BY <1>1, <1>3, <2>1 DEF SessionsOver, Settles, Guards, IsActive, Free
<1>4. CASE Leaves
  <2>1. \A v \in Upload : guard[v] \in Guards => ppc'[guard[v].session] = "done"
    BY <1>1 DEF SessionsOver, Guards
  <2>2. IsActive' => ppc'[slot'.id] = "done"
    <3>1. CASE slot' = slot
      BY <1>1, <3>1, ActiveType DEF SessionsOver, IsActive
    <3>2. CASE slot' = Free
      BY <3>2 DEF IsActive, Free
    <3>3. ASSUME NEW r \in Request, Claim(r) PROVE ~IsActive'
      BY <3>3 DEF Claim, IsActive
    <3>4. ASSUME NEW r \in Request, Activate(r) PROVE ppc'[slot'.id] = "done"
      BY <3>4 DEF Activate, AnswerPrepare, TypeOK
    <3> QED BY <1>4, <3>1, <3>2, <3>3, <3>4 DEF Leaves
  <2> QED BY <1>4, <2>1, <2>2 DEF SessionsOver, Leaves
<1> QED BY <1>2, <1>3, <1>4, StepKinds
LEMMA ArmedGuard == ASSUME Carried, NEW u \in Upload, Armed(u) PROVE guard[u] \in Guards
BY DEF Carried, Armed

LEMMA GuardsEqual ==
    ASSUME NEW g \in Guards, NEW h \in Guards, g.session = h.session, g.file = h.file
    PROVE  g = h
BY DEF Guards

\* What Settles does to the files of the active session.
LEMMA SettledFiles ==
    ASSUME TypeOK, Carried, FileOwned, NEW u \in Upload, NEW res \in SaveResults, Settles(u, res)
    PROVE  /\ guard[u].file \in DOMAIN slot.files
           /\ slot.files[guard[u].file].status = "InProgress"
           /\ Settled(slot.files, guard[u].file, res) =
                [slot.files EXCEPT ![guard[u].file].status =
                     FinalStatus(slot.files[guard[u].file], res)]
BY DEF Settles, FileOwned, Settled

LEMMA FileOwnedStep ==
    TypeOK /\ Carried /\ SessionsOver /\ FileOwned /\ [Next]_vars => FileOwned'
<1> SUFFICES ASSUME TypeOK, Carried, SessionsOver, FileOwned, [Next]_vars PROVE FileOwned'
  OBVIOUS
<1>1. CASE Leaves
  <2>1. CASE slot' = slot
    BY <1>1, <2>1 DEF Leaves, FileOwned, IsActive
  <2>2. CASE slot' = Free
    BY <2>2 DEF FileOwned, IsActive, Free
  <2>3. ASSUME NEW r \in Request, Claim(r) PROVE FileOwned'
    BY <2>3 DEF Claim, FileOwned, IsActive
  <2>4. ASSUME NEW r \in Request, Activate(r) PROVE FileOwned'
    <3>1. slot'.id = r /\ ppc[r] # "done"
      BY <2>4 DEF Activate
    <3>2. \A u \in Upload : Armed(u)' => guard'[u].session # r
      BY <1>1, <3>1, ArmedGuard DEF Leaves, SessionsOver
    <3> QED BY <3>1, <3>2 DEF FileOwned
  <2> QED BY <1>1, <2>1, <2>2, <2>3, <2>4 DEF Leaves
<1>2. ASSUME NEW u \in Upload, NEW a \in Asks, Admits(u, a) PROVE FileOwned'
  <2>1. slot \in AcceptedSession /\ slot.id = a.session /\ IsActive
    BY <1>2, ActiveType DEF Admits, Admissible
  <2>2. PICK D \in SUBSET File : slot.files \in [D -> SessionFile]
    BY <2>1 DEF AcceptedSession
  <2> DEFINE files == [slot.files EXCEPT ![a.file] = [status |-> "InProgress", attempts |-> @.attempts + 1]]
  <2>3. slot' = [slot EXCEPT !.files = files] /\ a.file \in D
    BY <1>2, <2>1, <2>2 DEF Admits, Admissible, AcceptedSession
  <2>4. slot'.id = slot.id /\ slot'.files = files
    BY <2>1, <2>3 DEF AcceptedSession
  <2>5. \A f \in D : slot.files[f].status = "InProgress" => files[f].status = "InProgress"
    BY <2>2
  <2>6. files[a.file].status = "InProgress" /\ DOMAIN files = D
    BY <2>2, <2>3
  <2> HIDE DEF files
  <2>7. /\ guard'[u] = [session |-> a.session, file |-> a.file]
        /\ \A v \in Upload \ {u} : guard'[v] = guard[v] /\ (Armed(v)' <=> Armed(v))
    BY <1>2 DEF Admits, TypeOK, Armed
  <2>8. ASSUME NEW v \in Upload \ {u}, Armed(v) PROVE guard'[v] # guard'[u]
    <3> SUFFICES ASSUME guard[v] = [session |-> a.session, file |-> a.file] PROVE FALSE
      BY <2>7
    <3>1. slot.files[a.file].status = "InProgress"
      BY <2>1, <2>8 DEF FileOwned
    <3> QED BY <1>2, <3>1 DEF Admits, Admissible
  <2>9. ASSUME NEW v \in Upload, Armed(v)', slot'.id = guard'[v].session
        PROVE  /\ guard'[v].file \in D
               /\ files[guard'[v].file].status = "InProgress"
               /\ \A w \in Upload \ {v} : Armed(w)' => guard'[w] # guard'[v]
    <3>1. CASE v = u
      BY <2>3, <2>6, <2>7, <2>8, <3>1
    <3>2. CASE v # u
      <4>1. Armed(v) /\ guard'[v] = guard[v] /\ slot.id = guard[v].session
        BY <2>4, <2>7, <2>9, <3>2
      <4>2. guard[v].file \in D /\ slot.files[guard[v].file].status = "InProgress"
        BY <2>1, <2>2, <4>1 DEF FileOwned
      <4>3. \A w \in Upload \ {v} : Armed(w)' => guard'[w] # guard'[v]
        BY <2>1, <2>7, <2>8, <4>1, <3>2 DEF FileOwned
      <4> QED BY <2>5, <4>1, <4>2, <4>3
    <3> QED BY <3>1, <3>2
  <2> QED BY <2>4, <2>6, <2>9 DEF FileOwned
<1>3. ASSUME NEW u \in Upload, NEW res \in SaveResults, Settles(u, res) PROVE FileOwned'
  <2>1. CASE slot' = Free
    BY <2>1 DEF FileOwned, IsActive, Free
  <2>2. CASE slot' # Free
    <3> DEFINE g == guard[u]
               files == Settled(slot.files, g.file, res)
    <3>1. slot \in AcceptedSession /\ IsActive /\ slot.id = g.session /\ Armed(u)
      BY <1>3, ActiveType DEF Settles
    <3>2. PICK D \in SUBSET File : slot.files \in [D -> SessionFile]
      BY <3>1 DEF AcceptedSession
    <3>3. slot' = [slot EXCEPT !.files = files]
      BY <1>3, <2>2 DEF Settles
    <3>4. slot'.id = slot.id /\ slot'.files = files
      BY <3>1, <3>3 DEF AcceptedSession
    <3>5. DOMAIN files = D /\ \A f \in D \ {g.file} : files[f] = slot.files[f]
      <4>1. files = [slot.files EXCEPT ![g.file].status = FinalStatus(slot.files[g.file], res)]
        BY <1>3, SettledFiles
      <4> HIDE DEF files
      <4> QED BY <3>2, <4>1
    <3>6. guard' = guard /\ upc' = [upc EXCEPT ![u] = "done"]
      BY <1>3, <2>2 DEF Settles
    <3>7. \A v \in Upload : Armed(v)' => Armed(v) /\ v # u
      BY <3>6 DEF Armed, TypeOK
    <3> HIDE DEF files
    <3>8. ASSUME NEW v \in Upload, Armed(v)', slot'.id = guard'[v].session
          PROVE  /\ guard'[v].file \in D
                 /\ files[guard'[v].file].status = "InProgress"
                 /\ \A w \in Upload \ {v} : Armed(w)' => guard'[w] # guard'[v]
      <4>1. Armed(v) /\ v # u /\ guard'[v] = guard[v] /\ slot.id = guard[v].session
        BY <3>4, <3>6, <3>7, <3>8
      <4>2. guard[v].file \in D /\ slot.files[guard[v].file].status = "InProgress"
        BY <3>1, <3>2, <4>1 DEF FileOwned
      <4>3. guard[v] # guard[u]
        BY <3>1, <4>1 DEF FileOwned
      <4>4. guard[v].file # g.file
        BY <3>1, <4>1, <4>3, ArmedGuard, GuardsEqual
      <4>5. \A w \in Upload \ {v} : Armed(w)' => guard'[w] # guard'[v]
        BY <3>1, <3>6, <3>7, <4>1 DEF FileOwned
      <4> QED BY <3>5, <4>1, <4>2, <4>4, <4>5
    <3> QED BY <3>4, <3>5, <3>8 DEF FileOwned
  <2> QED BY <2>1, <2>2
<1> QED BY <1>1, <1>2, <1>3, StepKinds

FilesInv == TypeOK /\ Carried /\ SessionsOver /\ FileOwned

LEMMA FilesInvariant == Spec => []FilesInv
<1>1. Init => FilesInv
  <2>1. Init => SessionsOver
    BY ConstantsAssumption DEF Init, SessionsOver, IsActive, Free, NoGuard, Guards
  <2>2. Init => FileOwned
    BY DEF Init, FileOwned, Armed
  <2> QED BY <2>1, <2>2, InitTyped DEF FilesInv
<1>2. FilesInv /\ [Next]_vars => FilesInv'
  BY TypeStep, CarriedStep, OverStep, FileOwnedStep DEF FilesInv
<1> QED BY <1>1, <1>2, PTL DEF Spec

\* No two uploads write the same file of a session, and an upload that
\* outlives its session never settles a file of a later one.
THEOREM FileOwnership == Spec => []FileOwned
<1>1. FilesInv => FileOwned
  BY DEF FilesInv
<1> QED BY <1>1, FilesInvariant, PTL
-----------------------------------------------------------------------------
(* Attempts, and the end of a session.                                     *)

\* A pending file has an attempt left.
AttemptsLeft ==
    IsActive => \A f \in DOMAIN slot.files :
        /\ slot.files[f].attempts <= MaxUploadAttempts
        /\ slot.files[f].status = "Pending" => slot.files[f].attempts < MaxUploadAttempts

LEMMA AttemptsStep == FilesInv /\ AttemptsLeft /\ [Next]_vars => AttemptsLeft'
<1> SUFFICES ASSUME FilesInv, AttemptsLeft, [Next]_vars PROVE AttemptsLeft'
  OBVIOUS
<1> USE DEF FilesInv
<1>1. CASE Leaves
  <2>1. CASE slot' = slot
    BY <2>1 DEF AttemptsLeft, IsActive
  <2>2. CASE slot' = Free
    BY <2>2 DEF AttemptsLeft, IsActive, Free
  <2>3. ASSUME NEW r \in Request, Claim(r) PROVE AttemptsLeft'
    BY <2>3 DEF Claim, AttemptsLeft, IsActive
  <2>4. ASSUME NEW r \in Request, Activate(r) PROVE AttemptsLeft'
    BY <2>4, ConstantsAssumption DEF Activate, AttemptsLeft
  <2> QED BY <1>1, <2>1, <2>2, <2>3, <2>4 DEF Leaves
<1>2. ASSUME NEW u \in Upload, NEW a \in Asks, Admits(u, a) PROVE AttemptsLeft'
  <2>1. slot \in AcceptedSession /\ IsActive
    BY <1>2, ActiveType DEF Admits, Admissible
  <2>2. PICK D \in SUBSET File : slot.files \in [D -> SessionFile]
    BY <2>1 DEF AcceptedSession
  <2> DEFINE files == [slot.files EXCEPT ![a.file] = [status |-> "InProgress", attempts |-> @.attempts + 1]]
  <2>3. slot'.files = files /\ a.file \in D
    BY <1>2, <2>1, <2>2 DEF Admits, Admissible, AcceptedSession
  <2>4. \A f \in D \ {a.file} : files[f] = slot.files[f]
    BY <2>2
  <2>5. DOMAIN files = D /\ files[a.file] = [status |-> "InProgress", attempts |-> slot.files[a.file].attempts + 1]
    BY <2>2, <2>3
  <2>6. slot.files[a.file].attempts \in Nat /\ slot.files[a.file].attempts < MaxUploadAttempts
    BY <1>2, <2>1, <2>2, <2>3 DEF Admits, Admissible, AttemptsLeft, SessionFile
  <2> HIDE DEF files
  <2> QED BY <2>1, <2>2, <2>3, <2>4, <2>5, <2>6, ConstantsAssumption DEF AttemptsLeft
<1>3. ASSUME NEW u \in Upload, NEW res \in SaveResults, Settles(u, res) PROVE AttemptsLeft'
  <2>1. CASE slot' = Free
    BY <2>1 DEF AttemptsLeft, IsActive, Free
  <2>2. CASE slot' # Free
    <3> DEFINE g == guard[u]
               files == Settled(slot.files, g.file, res)
    <3>1. slot \in AcceptedSession /\ IsActive
      BY <1>3, ActiveType DEF Settles
    <3>2. PICK D \in SUBSET File : slot.files \in [D -> SessionFile]
      BY <3>1 DEF AcceptedSession
    <3>3. slot'.files = files
      BY <1>3, <2>2, <3>1 DEF Settles, AcceptedSession
    <3>4. g.file \in D /\ files = [slot.files EXCEPT ![g.file].status = FinalStatus(slot.files[g.file], res)]
      BY <1>3, <3>2, SettledFiles
    <3>5. FinalStatus(slot.files[g.file], res) = "Pending" => slot.files[g.file].attempts < MaxUploadAttempts
      BY DEF FinalStatus
    <3> HIDE DEF files
    <3>6. DOMAIN files = D
      BY <3>2, <3>4
    <3>7. \A f \in D : files[f].attempts = slot.files[f].attempts
      BY <3>2, <3>4 DEF SessionFile
    <3>8. \A f \in D : files[f].status = "Pending" => slot.files[f].attempts < MaxUploadAttempts
      <4>1. ASSUME NEW f \in D, files[f].status = "Pending" PROVE slot.files[f].attempts < MaxUploadAttempts
        <5>1. CASE f = g.file
          BY <3>2, <3>4, <3>5, <4>1, <5>1 DEF SessionFile
        <5>2. CASE f # g.file
          BY <3>1, <3>2, <3>4, <4>1, <5>2 DEF AttemptsLeft
        <5> QED BY <5>1, <5>2
      <4> QED BY <4>1
    <3> QED BY <3>1, <3>2, <3>3, <3>6, <3>7, <3>8 DEF AttemptsLeft
  <2> QED BY <2>1, <2>2
<1> QED BY <1>1, <1>2, <1>3, StepKinds

\* A file is uploaded at most MAX_UPLOAD_ATTEMPTS times in its session.
THEOREM BoundedAttempts == Spec => []AttemptsBounded
<1>1. Init => AttemptsLeft
  BY DEF Init, AttemptsLeft, IsActive, Free
<1>2. FilesInv /\ AttemptsLeft /\ [Next]_vars => AttemptsLeft'
  BY AttemptsStep
<1>3. AttemptsLeft => AttemptsBounded
  BY DEF AttemptsLeft, AttemptsBounded
<1> QED BY <1>1, <1>2, <1>3, FilesInvariant, PTL DEF Spec

-----------------------------------------------------------------------------
(* A target has one writer.                                                *)

\* Where the handler of a target that is written may be: it waits for the
\* writer, or was dropped. Until a handler is through, its sender has no answer.
Unanswered ==
    /\ \A u \in writing : upc[u] \in {"saving", "cleanup", "telling", "done"}
    /\ \A u \in Upload : upc[u] # "done" \/ u \in writing => reply[u] = NoReply

\* Whoever has a file of a session: its upload, or what that has left behind.
Busy(u) == Armed(u) \/ u \in writing

\* They never have the same one, and one that is written is not pending.
WritersInv ==
    /\ \A u \in writing : guard[u] \in Guards
    /\ \A u, v \in Upload : Busy(u) /\ Busy(v) /\ guard[u] = guard[v] => u = v
    /\ \A u \in writing : IsActive /\ slot.id = guard[u].session =>
            /\ guard[u].file \in DOMAIN slot.files
            /\ slot.files[guard[u].file].status \in {"InProgress", "Failed"}

\* Only the uploads' own steps touch these.
LEMMA OthersSilent ==
    ASSUME TypeOK,
           \/ \E r \in Request : PrepareStep(r) \/ PrepareClient(r)
           \/ \E c \in Cancel : CancelStep(c) \/ CancelClient(c)
           \/ App \/ UNCHANGED vars
    PROVE  UNCHANGED <<upc, writing>> /\ \A u \in Upload : reply'[u] = reply[u]
<1>1. ASSUME NEW r \in Request, PrepareStep(r) \/ PrepareClient(r)
      PROVE  UNCHANGED <<upc, writing>> /\ \A u \in Upload : reply'[u] = reply[u]
  <2>1. UNCHANGED <<upc, writing>>
    BY <1>1 DEF PrepareStep, PrepareClient, PinAccepted, PinRefused, ClaimRefused, Claim,
       Ask, AskFails, CancelledBySender, Decided, Clear, Activate, DropPrepare, CleanUp,
       TellAborted, uploadVars
  <2>2. reply' = reply \/ \E code \in Replies : reply' = [reply EXCEPT ![r] = code]
    <3>1. CASE PinRefused(r) \/ ClaimRefused(r) \/ Clear(r) \/ Activate(r)
      <4>1. PICK code \in {401, 429, 400, 409, 403, 204, 200} : AnswerPrepare(r, code)
        <5>1. CASE PinRefused(r)
          BY <5>1, SMTT(30) DEF PinRefused
        <5>2. CASE ClaimRefused(r)
          BY <5>2, SMTT(30) DEF ClaimRefused
        <5>3. CASE Clear(r)
          BY <5>3, SMTT(30) DEF Clear
        <5>4. CASE Activate(r)
          BY <5>4 DEF Activate
        <5> QED BY <3>1, <5>1, <5>2, <5>3, <5>4
      <4>2. code \in Replies /\ reply' = [reply EXCEPT ![r] = code]
        BY <4>1 DEF AnswerPrepare, Replies
      <4> QED BY <4>2
    <3>2. CASE AskFails(r) \/ CancelledBySender(r)
      BY <3>2 DEF AskFails, CancelledBySender, AnswerArmed, Replies
    <3>3. CASE PinAccepted(r) \/ Claim(r) \/ Ask(r) \/ Decided(r) \/ DropPrepare(r) \/ CleanUp(r)
               \/ TellAborted(r)
      BY <3>3 DEF PinAccepted, Claim, Ask, Decided, DropPrepare, CleanUp, TellAborted
    <3> QED BY <1>1, <3>1, <3>2, <3>3 DEF PrepareStep, PrepareClient
  <2>3. r \notin Upload
    BY ConstantsAssumption
  <2> QED BY <2>1, <2>2, <2>3 DEF TypeOK
<1>2. CASE (\E c \in Cancel : CancelStep(c) \/ CancelClient(c)) \/ App \/ UNCHANGED vars
  BY <1>2 DEF CancelStep, CancelClient, CancelActive, TellCancelled, CancelPending, CancelOther,
     DropCancel, App, AppTake, AppDecide, AppTarget, AppCancel, AppClose, uploadVars, vars
<1> QED BY <1>1, <1>2

LEMMA UnansweredStep == TypeOK /\ Unanswered /\ [Next]_vars => Unanswered'
<1> SUFFICES ASSUME TypeOK, Unanswered, [Next]_vars PROVE Unanswered'
  OBVIOUS
<1>1. ASSUME NEW u \in Upload, UploadStep(u) \/ Transfer(u) \/ UploadClient(u) PROVE Unanswered'
  <2>1. ASSUME NEW v \in Upload \ {u}
        PROVE  upc'[v] = upc[v] /\ reply'[v] = reply[v] /\ (v \in writing' <=> v \in writing)
    BY <1>1 DEF UploadStep, Transfer, UploadClient, Announce, NoTarget, StartSaving, WriterStops, Saved,
       Finish, TellFinished, FailDropped, TellFailed, UploadRefused, UploadAdmitted, DropUpload, TypeOK
  <2>t. writing' \subseteq Upload
    BY <1>1 DEF UploadStep, Transfer, UploadClient, Announce, NoTarget, StartSaving, WriterStops, Saved,
       Finish, TellFinished, FailDropped, TellFailed, UploadRefused, UploadAdmitted, DropUpload, TypeOK
  <2>2. CASE \/ UploadRefused(u) \/ UploadAdmitted(u) \/ Announce(u) \/ NoTarget(u) \/ StartSaving(u)
             \/ Saved(u) \/ DropUpload(u) \/ WriterStops(u) \/ FailDropped(u) \/ TellFailed(u)
    <3>1. u \in writing' => upc'[u] \in {"saving", "cleanup", "telling", "done"}
      BY <2>2 DEF UploadRefused, UploadAdmitted, Announce, NoTarget, StartSaving, WriterStops, Saved,
         FailDropped, TellFailed, DropUpload, TypeOK, Unanswered
    <3>2. upc'[u] # "done" \/ u \in writing' => reply'[u] = NoReply
      BY <2>2 DEF UploadRefused, UploadAdmitted, Announce, NoTarget, StartSaving, WriterStops, Saved,
         FailDropped, TellFailed, DropUpload, TypeOK, Unanswered
    <3> QED BY <2>1, <2>t, <3>1, <3>2 DEF Unanswered
  <2>3. CASE Finish(u) \/ TellFinished(u)
    <3>1. u \notin writing' /\ (upc'[u] # "done" => reply'[u] = NoReply)
      BY <2>3 DEF Finish, TellFinished, TypeOK, Unanswered
    <3> QED BY <2>1, <2>t, <3>1 DEF Unanswered
  <2> QED BY <1>1, <2>2, <2>3 DEF UploadStep, Transfer, UploadClient
<1>2. CASE UNCHANGED <<upc, writing>> /\ \A u \in Upload : reply'[u] = reply[u]
  BY <1>2 DEF Unanswered
<1> QED BY <1>1, <1>2, OthersSilent DEF Next

\* A writer starts for an upload that has its file already.
LEMMA NewWriter ==
    ASSUME TypeOK, [Next]_vars, NEW u \in writing', u \notin writing
    PROVE  u \in Upload /\ Armed(u) /\ UNCHANGED <<slot, guard>>
<1>1. writing' # writing
  OBVIOUS
<1>2. PICK v \in Upload : UploadStep(v) \/ Transfer(v) \/ UploadClient(v)
  BY <1>1, OthersSilent DEF Next
<1>3. StartSaving(v)
  BY <1>2 DEF UploadStep, Transfer, UploadClient, Announce, NoTarget, WriterStops, Saved, Finish,
     TellFinished, FailDropped, TellFailed, UploadRefused, UploadAdmitted, DropUpload
<1> QED BY <1>3 DEF StartSaving, Armed

\* While its target is written, an upload leaves its file only by a drop.
LEMMA LeftBehind ==
    ASSUME TypeOK, Unanswered, [Next]_vars, NEW u \in Upload, u \in writing', Armed(u), ~Armed(u)'
    PROVE  FailDropped(u)
<1>1. upc' # upc
  BY DEF Armed
<1>2. PICK v \in Upload : UploadStep(v) \/ Transfer(v) \/ UploadClient(v)
  BY <1>1, OthersSilent DEF Next
<1>3. v = u
  BY <1>2 DEF UploadStep, Transfer, UploadClient, Announce, NoTarget, StartSaving, WriterStops, Saved, Finish,
     TellFinished, FailDropped, TellFailed, UploadRefused, UploadAdmitted, DropUpload, Armed, TypeOK
<1>4. Finish(u) \/ FailDropped(u) \/ (DropUpload(u) /\ upc[u] = "finishing")
  BY <1>2, <1>3 DEF UploadStep, Transfer, UploadClient, Announce, NoTarget, StartSaving, WriterStops, Saved,
     TellFinished, TellFailed, UploadRefused, UploadAdmitted, DropUpload, Armed, TypeOK
<1>5. Finish(u) \/ DropUpload(u) => u \in writing
  BY DEF Finish, DropUpload
<1> QED BY <1>4, <1>5 DEF Finish, Unanswered


LEMMA WritersStep == FilesInv /\ Unanswered /\ WritersInv /\ [Next]_vars => WritersInv'
<1> SUFFICES ASSUME FilesInv, Unanswered, WritersInv, [Next]_vars PROVE WritersInv'
  OBVIOUS
<1> USE DEF FilesInv
<1>t. writing \subseteq Upload /\ writing' \subseteq Upload
  BY TypeStep DEF TypeOK
<1>b. \A u \in Upload : u \in writing' => Busy(u)
  BY NewWriter DEF Busy
<1>g. ASSUME NEW u \in Upload, Busy(u) PROVE guard[u] \in Guards
  BY <1>g, ArmedGuard DEF Busy, WritersInv
<1>1. CASE Leaves
  <2>1. guard' = guard /\ \A u \in Upload : Busy(u)' => Busy(u)
    BY <1>1, <1>b DEF Leaves, Busy
  <2>2. ASSUME NEW u \in writing', IsActive', slot'.id = guard'[u].session
        PROVE  /\ guard'[u].file \in DOMAIN slot'.files
               /\ slot'.files[guard'[u].file].status \in {"InProgress", "Failed"}
    <3>1. u \in Upload /\ Busy(u)
      BY <1>b, <1>t
    <3>2. slot' = slot
      <4>1. ASSUME NEW r \in Request, Claim(r) PROVE ~IsActive'
        BY <4>1 DEF Claim, IsActive
      <4>2. ASSUME NEW r \in Request, Activate(r) PROVE slot'.id # guard[u].session
        <5>1. slot'.id = r /\ ppc[r] # "done"
          BY <4>2 DEF Activate
        <5>2. ppc[guard[u].session] = "done"
          BY <1>g, <3>1 DEF SessionsOver
        <5> QED BY <5>1, <5>2
      <4> QED BY <1>1, <2>1, <2>2, <4>1, <4>2 DEF Leaves, IsActive, Free
    <3>3. IsActive /\ slot.id = guard[u].session
      BY <2>1, <2>2, <3>2 DEF IsActive
    <3> QED BY <2>1, <3>1, <3>2, <3>3 DEF Busy, WritersInv, FileOwned
  <2>3. \A u \in writing' : guard'[u] \in Guards
    BY <1>b, <1>g, <1>t, <2>1
  <2> QED BY <2>1, <2>2, <2>3 DEF WritersInv
<1>2. ASSUME NEW u \in Upload, NEW a \in Asks, Admits(u, a) PROVE WritersInv'
  <2>1. slot \in AcceptedSession /\ slot.id = a.session /\ IsActive /\ a.session \in Request /\ a.file \in File
    BY <1>2, ActiveType DEF Admits, Admissible, Asks
  <2>2. PICK D \in SUBSET File : slot.files \in [D -> SessionFile]
    BY <2>1 DEF AcceptedSession
  <2>3. /\ a.file \in D /\ slot.files[a.file].status = "Pending"
        /\ slot'.id = slot.id
        /\ slot'.files = [slot.files EXCEPT ![a.file] =
               [status |-> "InProgress", attempts |-> @.attempts + 1]]
    BY <1>2, <2>1, <2>2 DEF Admits, Admissible, AcceptedSession
  <2>4. /\ DOMAIN slot'.files = D
        /\ \A f \in D : slot.files[f].status \in {"InProgress", "Failed"}
                        => slot'.files[f].status \in {"InProgress", "Failed"}
    BY <2>2, <2>3 DEF SessionFile
  <2>5. /\ guard'[u] = [session |-> a.session, file |-> a.file]
        /\ \A v \in Upload \ {u} : guard'[v] = guard[v] /\ (Armed(v)' <=> Armed(v))
    BY <1>2 DEF Admits, TypeOK, Armed
  <2>6. u \notin writing'
    BY <1>2, NewWriter DEF Admits, Armed, Unanswered
  <2>7. ASSUME NEW v \in Upload \ {u}, Busy(v)' PROVE Busy(v) /\ guard'[v] = guard[v]
    BY <1>b, <2>5, <2>7 DEF Busy
  <2>8. ASSUME NEW v \in Upload \ {u}, Busy(v) PROVE guard[v] # guard'[u]
    <3> SUFFICES ASSUME guard[v] = [session |-> a.session, file |-> a.file] PROVE FALSE
      BY <2>5
    <3>1. slot.files[a.file].status \in {"InProgress", "Failed"}
      BY <2>1, <2>8 DEF Busy, FileOwned, WritersInv
    <3> QED BY <2>3, <3>1
  <2>9. \A v, w \in Upload : Busy(v)' /\ Busy(w)' /\ guard'[v] = guard'[w] => v = w
    BY <2>7, <2>8 DEF WritersInv
  <2>10. ASSUME NEW v \in writing'
         PROVE  /\ guard'[v] \in Guards
                /\ slot'.id = guard'[v].session =>
                       /\ guard'[v].file \in DOMAIN slot'.files
                       /\ slot'.files[guard'[v].file].status \in {"InProgress", "Failed"}
    <3>1. v \in Upload \ {u} /\ Busy(v)
      BY <1>b, <1>t, <2>6
    <3>2. guard'[v] = guard[v] /\ guard[v] \in Guards
      BY <1>g, <2>5, <3>1
    <3>3. slot.id = guard[v].session =>
              guard[v].file \in D /\ slot.files[guard[v].file].status \in {"InProgress", "Failed"}
      BY <2>1, <2>2, <3>1 DEF Busy, FileOwned, WritersInv
    <3> QED BY <2>3, <2>4, <3>2, <3>3
  <2> QED BY <2>9, <2>10 DEF WritersInv
<1>3. ASSUME NEW u \in Upload, NEW res \in SaveResults, Settles(u, res) PROVE WritersInv'
  <2>1. /\ guard' = guard /\ Armed(u) /\ ~Armed(u)'
        /\ \A v \in Upload : Armed(v)' => Armed(v)
    BY <1>3 DEF Settles, TypeOK, Armed
  <2>2. \A v \in Upload : Busy(v)' => Busy(v)
    BY <1>b, <2>1 DEF Busy
  <2>3. \A v \in writing' : guard'[v] \in Guards
    BY <1>b, <1>g, <1>t, <2>1
  <2>4. ASSUME NEW v \in writing', IsActive', slot'.id = guard'[v].session
        PROVE  /\ guard'[v].file \in DOMAIN slot'.files
               /\ slot'.files[guard'[v].file].status \in {"InProgress", "Failed"}
    <3> DEFINE g == guard[u]
    <3>1. slot \in AcceptedSession /\ IsActive /\ slot.id = g.session
      BY <1>3, ActiveType DEF Settles
    <3>2. PICK D \in SUBSET File : slot.files \in [D -> SessionFile]
      BY <3>1 DEF AcceptedSession
    <3>3. slot' = [slot EXCEPT !.files = Settled(slot.files, g.file, res)]
      BY <1>3, <2>4 DEF Settles, IsActive, Free
    <3>4. slot'.id = slot.id /\ slot'.files = Settled(slot.files, g.file, res)
      BY <3>1, <3>3 DEF AcceptedSession
    <3>5. /\ g.file \in D
          /\ slot'.files = [slot.files EXCEPT ![g.file].status = FinalStatus(slot.files[g.file], res)]
      BY <1>3, <3>2, <3>4, SettledFiles
    <3>6. /\ v \in Upload /\ Busy(v) /\ guard[v] \in Guards /\ slot.id = guard[v].session
      BY <1>b, <1>g, <1>t, <2>1, <2>4, <3>4
    <3>7. CASE v = u
      <4>1. PICK ends \in BOOLEAN : FinalizeFile(g, "Failed", ends)
        BY <2>1, <2>4, <3>7, LeftBehind DEF FailDropped, AfterDrop
      <4>2. slot' # Free
        BY <2>4 DEF IsActive, Free
      <4>3. slot' = [slot EXCEPT !.files = Settled(slot.files, g.file, "Failed")]
        BY <3>1, <4>1, <4>2 DEF FinalizeFile
      <4>4. slot'.files = Settled(slot.files, g.file, "Failed")
        BY <3>1, <4>3 DEF AcceptedSession
      <4>5. slot.files[g.file].status = "InProgress"
        BY <1>3, SettledFiles
      <4>6. slot'.files = [slot.files EXCEPT ![g.file].status = "Failed"]
        BY <3>2, <3>5, <4>4, <4>5 DEF Settled, FinalStatus
      <4> QED BY <2>1, <3>2, <3>5, <3>7, <4>6 DEF SessionFile
    <3>8. CASE v # u
      <4>1. guard[v] # g
        BY <2>1, <3>6, <3>8 DEF Busy, WritersInv
      <4>2. guard[v].file # g.file
        BY <2>1, <3>1, <3>6, <4>1, <1>g, GuardsEqual DEF Busy
      <4>3. guard[v].file \in D /\ slot.files[guard[v].file].status \in {"InProgress", "Failed"}
        BY <3>1, <3>2, <3>6 DEF Busy, FileOwned, WritersInv
      <4> QED BY <2>1, <3>2, <3>5, <4>2, <4>3
    <3> QED BY <3>7, <3>8
  <2> QED BY <2>1, <2>2, <2>3, <2>4 DEF WritersInv
<1> QED BY <1>1, <1>2, <1>3, StepKinds

LEMMA OneWriterEach == Spec => [](Unanswered /\ WritersInv)
<1>1. Init => Unanswered /\ WritersInv
  BY DEF Init, Unanswered, WritersInv, Busy, Armed
<1>2. FilesInv /\ Unanswered /\ WritersInv /\ [Next]_vars => (Unanswered /\ WritersInv)'
  BY UnansweredStep, WritersStep DEF FilesInv
<1> QED BY <1>1, <1>2, FilesInvariant, PTL DEF Spec

\* The three at once: uploads own their files, try them MAX_UPLOAD_ATTEMPTS
\* times at most, and no target is written by two, dropped uploads included.
THEOREM FilesKeepOrder == Spec => []FilesInOrder
<1>1. FileOwned /\ AttemptsBounded /\ TypeOK /\ WritersInv => FilesInOrder
  <2> SUFFICES ASSUME TypeOK, WritersInv PROVE OneWriter
    BY DEF FilesInOrder
  <2>1. writing \subseteq Upload
    BY DEF TypeOK
  <2> QED BY <2>1 DEF OneWriter, WritersInv, Busy
<1> QED BY <1>1, FileOwnership, BoundedAttempts, Typed, OneWriterEach, PTL
-----------------------------------------------------------------------------
(* A session announced as finished is quiet.                               *)

\* The session is over and none of its uploads has anything left to report.
Over(s) ==
    /\ ppc[s] = "done"
    /\ ~(IsActive /\ slot.id = s)
    /\ \A v \in Upload : Armed(v) => guard[v].session # s

Ending(u) == upc[u] \in {"ending", "telling"}

\* A session is over before its end is announced.
QuietInv ==
    /\ \A u \in Upload : Ending(u) => Over(guard[u].session)
    /\ \A s \in Request : "Finished" \in told[s] => Over(s)

LEMMA OverStays ==
    ASSUME FilesInv, [Next]_vars, NEW s \in Request, Over(s)
    PROVE  Over(s)'
<1> USE DEF FilesInv
<1>1. ppc'[s] = "done"
  BY DoneStays DEF Over
<1>2. CASE Leaves
  <2>1. ~(IsActive /\ slot.id = s)'
    <3>1. ASSUME NEW r \in Request, Activate(r) PROVE slot'.id # s
      BY <3>1 DEF Activate, Over
    <3>2. ASSUME NEW r \in Request, Claim(r) PROVE ~IsActive'
      BY <3>2 DEF Claim, IsActive
    <3> QED BY <1>2, <3>1, <3>2 DEF Leaves, Over, IsActive, Free
  <2> QED BY <1>1, <1>2, <2>1 DEF Leaves, Over
<1>3. ASSUME NEW u \in Upload, NEW a \in Asks, Admits(u, a) PROVE Over(s)'
  <2>1. slot \in AcceptedSession /\ slot.id = a.session /\ slot.id # s
    BY <1>3, ActiveType DEF Admits, Admissible, Over
  <2>2. slot'.id = slot.id
    BY <1>3, <2>1 DEF Admits, AcceptedSession
  <2>3. ASSUME NEW v \in Upload, Armed(v)' PROVE guard'[v].session # s
    BY <1>3, <2>1, <2>3 DEF Admits, TypeOK, Armed, Over
  <2> QED BY <1>1, <2>1, <2>2, <2>3 DEF Over
<1>4. ASSUME NEW u \in Upload, NEW res \in SaveResults, Settles(u, res) PROVE Over(s)'
  <2>1. slot \in AcceptedSession /\ slot.id # s
    BY <1>4, ActiveType DEF Settles, Over
  <2>2. slot' = Free \/ slot'.id = slot.id
    BY <1>4, <2>1 DEF Settles, AcceptedSession
  <2>3. \A v \in Upload : Armed(v)' => Armed(v)
    BY <1>4 DEF Settles, TypeOK, Armed
  <2> QED BY <1>1, <1>4, <2>1, <2>2, <2>3 DEF Over, Settles, IsActive, Free
<1> QED BY <1>2, <1>3, <1>4, StepKinds

\* When the report on a file ends the session, nobody else still writes one.
LEMMA EndIsQuiet ==
    ASSUME FilesInv, [Next]_vars, NEW u \in Upload, NEW res \in SaveResults, Settles(u, res),
           slot' = Free
    PROVE  Over(guard[u].session)'
<1> USE DEF FilesInv
<1> DEFINE files == Settled(slot.files, guard[u].file, res)
<1>1. slot \in AcceptedSession /\ IsActive /\ slot.id = guard[u].session /\ slot.id \in Request
  BY ActiveType DEF Settles
<1>2. PICK D \in SUBSET File : slot.files \in [D -> SessionFile]
  BY <1>1 DEF AcceptedSession
<1>3. IsComplete(files)
  BY <1>1 DEF Settles, Free, AcceptedSession
<1>4. /\ guard' = guard /\ ppc' = ppc
      /\ upc' = [upc EXCEPT ![u] = "ending"] \/ upc' = [upc EXCEPT ![u] = "telling"]
  BY <1>3 DEF Settles
<1>5. files = [slot.files EXCEPT ![guard[u].file].status = FinalStatus(slot.files[guard[u].file], res)]
  BY SettledFiles
<1>6. ASSUME NEW v \in Upload, Armed(v)', guard[v].session = guard[u].session PROVE FALSE
  <2>1. v # u /\ Armed(v) /\ Armed(u)
    BY <1>4, <1>6 DEF Armed, TypeOK, Settles
  <2>2. /\ guard[v].file \in DOMAIN slot.files
        /\ slot.files[guard[v].file].status = "InProgress"
        /\ guard[v] # guard[u]
    BY <1>1, <1>6, <2>1 DEF FileOwned
  <2>3. guard[v].file # guard[u].file
    BY <1>6, <2>1, <2>2, ArmedGuard, GuardsEqual
  <2>4. guard[v].file \in DOMAIN files /\ files[guard[v].file].status = "InProgress"
    <3> HIDE DEF files
    <3> QED BY <1>2, <1>5, <2>2, <2>3
  <2> QED BY <1>3, <2>4 DEF IsComplete, Final
<1>7. ppc[guard[u].session] = "done"
  BY <1>1 DEF SessionsOver
<1> QED BY <1>4, <1>6, <1>7 DEF Over, IsActive, Free

\* Whoever comes to announce the end has just settled the last file.
LEMMA NewEnding ==
    ASSUME FilesInv, [Next]_vars, NEW u \in Upload, Ending(u)'
    PROVE  \/ Ending(u) /\ guard'[u] = guard[u]
           \/ \E res \in SaveResults : Settles(u, res) /\ slot' = Free
<1> USE DEF FilesInv
<1>1. CASE UNCHANGED <<upc, guard>>
  BY <1>1 DEF Ending
<1>2. ASSUME NEW v \in Upload, UploadStep(v) \/ Transfer(v) \/ UploadClient(v), v # u
      PROVE  Ending(u) /\ guard'[u] = guard[u]
  BY <1>2 DEF UploadStep, Transfer, UploadClient, Announce, NoTarget, StartSaving, WriterStops, Saved, Finish, TellFinished,
     FailDropped, TellFailed, UploadRefused, UploadAdmitted, DropUpload, Ending, TypeOK
<1>3. CASE Finish(u) \/ FailDropped(u)
  <2>1. PICK res \in SaveResults, ends \in BOOLEAN :
         /\ FinalizeFile(guard[u], res, ends)
         /\ upc' \in {[upc EXCEPT ![u] = IF ends THEN "ending" ELSE "done"],
                      [upc EXCEPT ![u] = IF ends THEN "telling" ELSE "done"]}
    <3>1. CASE Finish(u)
      <4>1. result[u] \in SaveResults
        BY DEF TypeOK
      <4> QED BY <3>1, <4>1 DEF Finish
    <3>2. CASE FailDropped(u)
      BY <3>2 DEF FailDropped, AfterDrop, SaveResults
    <3> QED BY <1>3, <3>1, <3>2
  <2>2. ends
    BY <2>1 DEF Ending, TypeOK
  <2>3. IsActive /\ slot.id = guard[u].session
    BY <2>1, <2>2 DEF FinalizeFile
  <2>4. IsComplete(Settled(slot.files, guard[u].file, res)) /\ slot' = Free
    BY <2>1, <2>2, <2>3 DEF FinalizeFile
  <2>5. Armed(u) /\ UNCHANGED <<guard, ppc, told>>
    BY <1>3 DEF Finish, FailDropped, Armed, prepareVars, eventVars
  <2> QED BY <2>1, <2>2, <2>3, <2>4, <2>5 DEF Settles
<1>4. CASE Announce(u) \/ NoTarget(u) \/ StartSaving(u) \/ WriterStops(u) \/ Saved(u) \/ TellFinished(u) \/ TellFailed(u)
           \/ UploadRefused(u) \/ UploadAdmitted(u) \/ DropUpload(u)
  BY <1>4 DEF Announce, NoTarget, StartSaving, WriterStops, Saved, TellFinished, TellFailed, UploadRefused,
     UploadAdmitted, DropUpload, Ending, TypeOK
<1>5. (\E r \in Request : PrepareStep(r) \/ PrepareClient(r))
        \/ (\E c \in Cancel : CancelStep(c) \/ CancelClient(c)) \/ App \/ UNCHANGED vars
         => UNCHANGED <<upc, guard>>
  BY ZenonT(60) DEF PrepareStep, PrepareClient, App, PinAccepted, PinRefused, ClaimRefused, Claim, Ask,
     AskFails, CancelledBySender, Decided, Clear, Activate, DropPrepare, CleanUp, TellAborted,
     CancelStep, CancelClient, CancelActive, TellCancelled, CancelPending, CancelOther,
     DropCancel, AppTake, AppDecide, AppTarget, AppCancel, AppClose, uploadVars, vars
<1> QED
  BY <1>1, <1>2, <1>3, <1>4, <1>5 DEF Next, UploadStep, Transfer, UploadClient

\* Only a task that has just ended the session says that it finished.
LEMMA NewFinished ==
    ASSUME FilesInv, [Next]_vars, NEW s \in Request, "Finished" \in told'[s]
    PROVE  "Finished" \in told[s] \/ \E u \in Upload : Ending(u) /\ guard[u].session = s
<1> USE DEF FilesInv
<1>2. ASSUME NEW STATE e, e.kind # "Finished", Send(e) PROVE "Finished" \in told[s]
  BY <1>2 DEF Send, TypeOK
<1>3. ASSUME NEW u \in Upload, TellFinished(u) \/ TellFailed(u)
      PROVE  "Finished" \in told[s] \/ (Ending(u) /\ guard[u].session = s)
  <2>1. SendOrIgnore(Ended(guard[u].session, "Finished")) /\ Ending(u)
    BY <1>3 DEF TellFinished, TellFailed, Ending
  <2> QED BY <2>1 DEF SendOrIgnore, Send, SendFails, eventVars, Ended, TypeOK
<1>4. ASSUME NEW r \in Request, Ask(r) \/ AskFails(r) \/ TellAborted(r)
      PROVE  "Finished" \in told[s]
  <2>1. \/ Send([kind |-> "PrepareUpload", id |-> r])
        \/ Send([kind |-> "PrepareUploadAborted", id |-> r])
        \/ told' = told
    BY <1>4 DEF Ask, AskFails, TellAborted, SendOrIgnore, SendFails, eventVars
  <2> QED BY <2>1, <1>2
<1>5. ASSUME NEW u \in Upload, Announce(u) \/ NoTarget(u) PROVE "Finished" \in told[s]
  <2>1. \/ Send([kind |-> "FileUpload", id |-> guard[u].session, by |-> u])
        \/ told' = told
    BY <1>5 DEF Announce, NoTarget, SendFails, eventVars
  <2> QED BY <2>1, <1>2
<1>6. ASSUME NEW c \in Cancel, TellCancelled(c) PROVE "Finished" \in told[s]
  <2>1. \/ Send([kind |-> "Cancelled", id |-> cancelling[c].session])
        \/ Send([kind |-> "CancelReceived", id |-> cancelling[c].session])
        \/ told' = told
    BY <1>6 DEF TellCancelled, SendOrIgnore, SendFails, Ended, eventVars
  <2> QED BY <2>1, <1>2
<1>7. ASSUME NEW r \in Request, PrepareStep(r) \/ PrepareClient(r) PROVE "Finished" \in told[s]
  <2>1. CASE Ask(r) \/ AskFails(r) \/ TellAborted(r)
    BY <1>4, <2>1
  <2>2. CASE \/ PinAccepted(r) \/ PinRefused(r) \/ ClaimRefused(r) \/ Claim(r) \/ DropPrepare(r)
             \/ CancelledBySender(r) \/ Decided(r) \/ Clear(r) \/ Activate(r) \/ CleanUp(r)
    <3>1. told' = told
      BY <2>2 DEF PinAccepted, PinRefused, ClaimRefused, Claim, CancelledBySender, Decided,
         Clear, Activate, DropPrepare, CleanUp, eventVars
    <3> QED BY <3>1
  <2> QED BY <1>7, <2>1, <2>2, Zenon DEF PrepareStep, PrepareClient
<1>8. ASSUME NEW u \in Upload, UploadStep(u) \/ Transfer(u) \/ UploadClient(u)
      PROVE  "Finished" \in told[s] \/ (Ending(u) /\ guard[u].session = s)
  <2>1. CASE Announce(u) \/ NoTarget(u)
    BY <1>5, <2>1
  <2>2. CASE TellFinished(u) \/ TellFailed(u)
    BY <1>3, <2>2
  <2>3. CASE StartSaving(u) \/ WriterStops(u) \/ Saved(u) \/ Finish(u) \/ FailDropped(u) \/ UploadRefused(u)
             \/ UploadAdmitted(u) \/ DropUpload(u)
    <3>1. told' = told
      BY <2>3 DEF StartSaving, WriterStops, Saved, Finish, FailDropped, UploadRefused, UploadAdmitted, DropUpload, eventVars
    <3> QED BY <3>1
  <2> QED BY <1>8, <2>1, <2>2, <2>3, Zenon DEF UploadStep, Transfer, UploadClient
<1>9. ASSUME NEW c \in Cancel, CancelStep(c) \/ CancelClient(c) PROVE "Finished" \in told[s]
  <2>1. CASE TellCancelled(c)
    BY <1>6, <2>1
  <2>2. CASE CancelActive(c) \/ CancelPending(c) \/ CancelOther(c) \/ DropCancel(c)
    <3>1. told' = told
      BY <2>2 DEF CancelActive, CancelPending, CancelOther, DropCancel, eventVars
    <3> QED BY <3>1
  <2> QED BY <1>9, <2>1, <2>2, Zenon DEF CancelStep, CancelClient
<1>10. CASE App \/ UNCHANGED vars
  <2>1. told' = told
    BY <1>10 DEF App, AppTake, AppDecide, AppTarget, AppCancel, AppClose, eventVars, vars
  <2> QED BY <2>1
<1> QED
  BY <1>7, <1>8, <1>9, <1>10 DEF Next

LEMMA QuietStep == FilesInv /\ QuietInv /\ [Next]_vars => QuietInv'
<1> SUFFICES ASSUME FilesInv, QuietInv, [Next]_vars PROVE QuietInv'
  OBVIOUS
<1>1. ASSUME NEW u \in Upload, Ending(u)' PROVE Over(guard[u].session)'
  <2>1. CASE Ending(u) /\ guard'[u] = guard[u]
    <3>1. guard[u].session \in Request
      BY <2>1 DEF FilesInv, Carried, Ending, Guards
    <3>2. \A s \in Request : Over(s) => Over(s)'
      BY OverStays
    <3>3. Over(guard[u].session)
      BY <2>1 DEF QuietInv
    <3> QED BY <2>1, <3>1, <3>2, <3>3 DEF Over
  <2>2. ASSUME NEW res \in SaveResults, Settles(u, res), slot' = Free
        PROVE  Over(guard[u].session)'
    <3>1. Over(guard[u].session)'
      BY <2>2, EndIsQuiet
    <3> QED BY <3>1
  <2> QED BY <1>1, <2>1, <2>2, NewEnding
<1>2. ASSUME NEW s \in Request, "Finished" \in told'[s] PROVE Over(s)'
  <2>1. Over(s)
    BY <1>2, NewFinished DEF QuietInv
  <2> QED BY <2>1, OverStays
<1> QED BY <1>1, <1>2 DEF QuietInv, Ending

\* Once the application is told that a session finished, no handler and no
\* clean-up of its uploads has a file left to report on, and whoever was
\* answered has no writer left.
THEOREM QuietFinish == Spec => []FinishedIsQuiet
<1>1. Init => QuietInv
  BY DEF Init, QuietInv, Ending
<1>2. FilesInv /\ QuietInv /\ [Next]_vars => QuietInv'
  BY QuietStep
<1>3. FilesInv /\ QuietInv /\ Unanswered => FinishedIsQuiet
  <2> SUFFICES ASSUME FilesInv, QuietInv, NEW u \in Upload, Armed(u)
               PROVE  "Finished" \notin told[guard[u].session]
    BY DEF FinishedIsQuiet, Unanswered
  <2>1. guard[u].session \in Request
    BY ArmedGuard DEF FilesInv, Guards
  <2> QED BY <2>1 DEF QuietInv, Over
<1> QED BY <1>1, <1>2, <1>3, FilesInvariant, OneWriterEach, PTL DEF Spec
-----------------------------------------------------------------------------
(* The end of a session is announced once.                                 *)

\* The session's handler is done, and it is not the active session: nothing
\* makes it active again.
Gone(s) == ppc[s] = "done" /\ ~(IsActive /\ slot.id = s)
Untold(s) == told[s] \cap EndKinds = {}

\* An upload, a cancel that took the slot of s and is to announce its end.
UploadEnds(u, s) == Ending(u) /\ guard[u].session = s
CancelEnds(c, s) == cpc[c] = "ending" /\ cancelling[c].session = s

\* Whoever is to announce the end of a session is the only one, nobody did
\* so before, and the session is gone by then: the slot was taken under a lock.
OnceInv ==
    \A s \in Request :
        /\ ~Untold(s) => Gone(s)
        /\ \A u \in Upload : UploadEnds(u, s) => Gone(s) /\ Untold(s)
        /\ \A c \in Cancel : CancelEnds(c, s) => Gone(s) /\ Untold(s)
        /\ \A u, v \in Upload : UploadEnds(u, s) /\ UploadEnds(v, s) => u = v
        /\ \A c, d \in Cancel : CancelEnds(c, s) /\ CancelEnds(d, s) => c = d
        /\ \A u \in Upload, c \in Cancel : ~(UploadEnds(u, s) /\ CancelEnds(c, s))

\* The end of s is among what is told now and was not before, or is put into
\* the queue.
Announced(s, k) ==
    \/ k \in told'[s] \ told[s]
    \/ queue' = Append(queue, [kind |-> k, id |-> s])

\* Who announces the end of s: the clean-up task of its handler, an upload
\* or a cancel. Each does so once.
ByHandler(s) == ppc[s] = "aborting" /\ ppc' = [ppc EXCEPT ![s] = "done"] /\ slot' = slot
ByUpload(s) == \E u \in Upload : UploadEnds(u, s) /\ upc' = [upc EXCEPT ![u] = "done"]
ByCancel(s) == \E c \in Cancel : CancelEnds(c, s) /\ cpc' = [cpc EXCEPT ![c] = "done"]

LEMMA SentOnly ==
    ASSUME TypeOK, NEW e \in Events, Send(e), NEW s \in Request, NEW k, Announced(s, k)
    PROVE  e.id = s /\ e.kind = k
<1>1. CASE k \in told'[s] \ told[s]
  BY <1>1 DEF Send, TypeOK
<1>2. CASE queue' = Append(queue, [kind |-> k, id |-> s])
  <2> DEFINE f == [kind |-> k, id |-> s]
  <2>1. queue \in Seq(Events)
    BY DEF TypeOK
  <2>2. Append(queue, e)[Len(queue) + 1] = e
    BY <2>1
  <2>3. Append(queue, f)[Len(queue) + 1] = f
    BY <2>1
  <2>4. e = f
    BY <1>2, <2>2, <2>3 DEF Send
  <2> QED BY <2>4
<1> QED BY <1>1, <1>2 DEF Announced

LEMMA QuietSteps ==
    ASSUME TypeOK, told' = told, queue' = queue \/ AppTake \/ AppClose,
           NEW s \in Request, NEW k
    PROVE  ~Announced(s, k)
<1> DEFINE f == [kind |-> k, id |-> s]
<1>1. queue \in Seq(Events)
  BY DEF TypeOK
<1>2. Len(Append(queue, f)) = Len(queue) + 1 /\ Len(queue) \in Nat
  BY <1>1
<1>3. Len(queue') <= Len(queue)
  <2>1. CASE queue' = queue
    BY <1>2, <2>1
  <2>2. CASE AppTake
    <3>1. queue # <<>> /\ queue' = Tail(queue)
      BY <2>2 DEF AppTake
    <3>2. Len(Tail(queue)) = Len(queue) - 1
      BY <1>1, <3>1, HeadTailProperties
    <3>3. Len(Tail(queue)) <= Len(queue)
      BY <1>2, <3>2
    <3> QED BY <3>1, <3>3
  <2>3. CASE AppClose
    <3>1. Len(queue') = 0
      BY <2>3 DEF AppClose
    <3> QED BY <1>2, <3>1
  <2> QED BY <2>1, <2>2, <2>3
<1>4. queue' # Append(queue, f)
  BY <1>2, <1>3
<1> QED BY <1>4 DEF Announced

\* The only announcements are those.
LEMMA Announcers ==
    ASSUME TypeOK, Carried, [Next]_vars, NEW s \in Request, NEW k \in EndKinds, Announced(s, k)
    PROVE  ByHandler(s) \/ ByUpload(s) \/ ByCancel(s)
<1>1. ASSUME NEW r \in Request, PrepareStep(r) \/ PrepareClient(r) PROVE ByHandler(s)
  <2>1. CASE TellAborted(r)
    <3> DEFINE e == [kind |-> "PrepareUploadAborted", id |-> r]
    <3>1. e \in Events /\ e.id = r
      BY DEF Events
    <3>2. CASE Send(e)
      BY <2>1, <3>1, <3>2, SentOnly DEF ByHandler, TellAborted
    <3>3. CASE SendFails
      BY <3>3, QuietSteps DEF SendFails, eventVars
    <3> QED BY <2>1, <3>2, <3>3 DEF TellAborted, SendOrIgnore
  <2>2. CASE Ask(r)
    <3> DEFINE e == [kind |-> "PrepareUpload", id |-> r]
    <3>1. e \in Events /\ e.kind \notin EndKinds
      BY DEF Events, EndKinds
    <3> QED BY <2>2, <3>1, SentOnly DEF Ask
  <2>3. CASE \/ PinAccepted(r) \/ PinRefused(r) \/ ClaimRefused(r) \/ Claim(r) \/ DropPrepare(r)
             \/ CancelledBySender(r) \/ Decided(r) \/ Clear(r) \/ Activate(r) \/ CleanUp(r)
             \/ AskFails(r)
    <3>1. told' = told /\ queue' = queue
      BY <2>3 DEF PinAccepted, PinRefused, ClaimRefused, Claim, CancelledBySender, Decided,
         Clear, Activate, DropPrepare, CleanUp, AskFails, SendFails, eventVars
    <3> QED BY <3>1, QuietSteps
  <2> QED BY <1>1, <2>1, <2>2, <2>3, Zenon DEF PrepareStep, PrepareClient
<1>2. ASSUME NEW u \in Upload, UploadStep(u) \/ Transfer(u) \/ UploadClient(u) PROVE ByUpload(s)
  <2>1. CASE TellFinished(u) \/ TellFailed(u)
    <3> DEFINE e == Ended(guard[u].session, "Finished")
    <3>1. guard[u].session \in Request /\ Ending(u) /\ upc' = [upc EXCEPT ![u] = "done"]
      BY <2>1 DEF TellFinished, TellFailed, Ending, Carried, Guards
    <3>2. e \in Events /\ e.id = guard[u].session
      BY <3>1 DEF Events, Ended
    <3>3. CASE Send(e)
      <4>1. guard[u].session = s
        BY <3>2, <3>3, SentOnly
      <4> QED BY <3>1, <4>1 DEF ByUpload, UploadEnds
    <3>4. CASE SendFails
      BY <3>4, QuietSteps DEF SendFails, eventVars
    <3> QED BY <2>1, <3>3, <3>4 DEF TellFinished, TellFailed, SendOrIgnore
  <2>2. CASE Announce(u)
    <3> DEFINE e == [kind |-> "FileUpload", id |-> guard[u].session, by |-> u]
    <3>1. guard[u] \in Guards
      BY <2>2 DEF Announce, Carried
    <3>2. e \in Events /\ e.kind \notin EndKinds
      BY <3>1 DEF Events, EndKinds, Guards
    <3> QED BY <2>2, <3>2, SentOnly DEF Announce
  <2>3. CASE NoTarget(u) \/ StartSaving(u) \/ WriterStops(u) \/ Saved(u) \/ Finish(u) \/ FailDropped(u) \/ UploadRefused(u)
             \/ UploadAdmitted(u) \/ DropUpload(u)
    <3>1. told' = told /\ queue' = queue
      BY <2>3 DEF NoTarget, StartSaving, WriterStops, Saved, Finish, FailDropped, UploadRefused, UploadAdmitted,
         DropUpload, SendFails, eventVars
    <3> QED BY <3>1, QuietSteps
  <2> QED BY <1>2, <2>1, <2>2, <2>3, Zenon DEF UploadStep, Transfer, UploadClient
<1>3. ASSUME NEW c \in Cancel, CancelStep(c) \/ CancelClient(c) PROVE ByCancel(s)
  <2>1. CASE TellCancelled(c)
    <3> DEFINE e == Ended(cancelling[c].session, "Cancelled")
               d == [kind |-> "CancelReceived", id |-> cancelling[c].session]
    <3>1. CASE cpc[c] = "ending" /\ Send(e)
      <4>1. e \in Events /\ e.id = cancelling[c].session
        BY <3>1 DEF Events, Ended, Carried
      <4>2. cancelling[c].session = s
        BY <3>1, <4>1, SentOnly
      <4> QED BY <2>1, <3>1, <4>2 DEF ByCancel, CancelEnds, TellCancelled
    <3>2. CASE cpc[c] = "relaying" /\ Send(d)
      <4>1. d \in Events /\ d.kind \notin EndKinds
        BY <3>2 DEF Events, EndKinds, Carried, Cancels
      <4> QED BY <3>2, <4>1, SentOnly
    <3>3. CASE SendFails
      BY <3>3, QuietSteps DEF SendFails, eventVars
    <3> QED BY <2>1, <3>1, <3>2, <3>3 DEF TellCancelled, SendOrIgnore
  <2>2. CASE CancelActive(c) \/ CancelPending(c) \/ CancelOther(c) \/ DropCancel(c)
    <3>1. told' = told /\ queue' = queue
      BY <2>2 DEF CancelActive, CancelPending, CancelOther, DropCancel, eventVars
    <3> QED BY <3>1, QuietSteps
  <2> QED BY <1>3, <2>1, <2>2, Zenon DEF CancelStep, CancelClient
<1>4. CASE App \/ UNCHANGED vars
  <2>1. told' = told /\ (queue' = queue \/ AppTake \/ AppClose)
    BY <1>4 DEF App, AppDecide, AppTarget, AppCancel, AppTake, AppClose, eventVars, vars
  <2> QED BY <2>1, QuietSteps
<1> QED BY <1>1, <1>2, <1>3, <1>4 DEF Next

LEMMA GoneStays ==
    ASSUME FilesInv, [Next]_vars, NEW s \in Request, Gone(s)
    PROVE  Gone(s)'
<1> USE DEF FilesInv
<1>1. ppc'[s] = "done"
  BY DoneStays DEF Gone
<1>2. CASE Leaves
  <2>1. ~(IsActive /\ slot.id = s)'
    <3>1. ASSUME NEW r \in Request, Activate(r) PROVE slot'.id # s
      BY <3>1 DEF Activate, Gone
    <3>2. ASSUME NEW r \in Request, Claim(r) PROVE ~IsActive'
      BY <3>2 DEF Claim, IsActive
    <3> QED BY <1>2, <3>1, <3>2 DEF Leaves, Gone, IsActive, Free
  <2> QED BY <1>1, <2>1 DEF Gone
<1>3. ASSUME NEW u \in Upload, NEW a \in Asks, Admits(u, a) PROVE Gone(s)'
  <2>1. slot \in AcceptedSession /\ slot.id # s
    BY <1>3, ActiveType DEF Admits, Admissible, Gone
  <2>2. slot'.id = slot.id
    BY <1>3, <2>1 DEF Admits, AcceptedSession
  <2> QED BY <1>1, <2>1, <2>2 DEF Gone
<1>4. ASSUME NEW u \in Upload, NEW res \in SaveResults, Settles(u, res) PROVE Gone(s)'
  <2>1. slot \in AcceptedSession /\ slot.id # s
    BY <1>4, ActiveType DEF Settles, Gone
  <2>2. slot' = Free \/ slot'.id = slot.id
    BY <1>4, <2>1 DEF Settles, AcceptedSession
  <2> QED BY <1>1, <2>1, <2>2 DEF Gone, IsActive, Free
<1> QED BY <1>2, <1>3, <1>4, StepKinds

\* An end that is to be announced is an older one, or the session was active
\* until this step; its handler is done and nothing is announced meanwhile.
TakenNow(s) ==
    /\ IsActive /\ slot.id = s /\ slot' = Free
    /\ UNCHANGED <<ppc, told>>

LEMMA NewUploadEnds ==
    ASSUME FilesInv, [Next]_vars, NEW s \in Request, NEW u \in Upload, UploadEnds(u, s)'
    PROVE  \/ UploadEnds(u, s)
           \/ TakenNow(s) /\ UNCHANGED cpc
              /\ upc' \in {[upc EXCEPT ![u] = "ending"], [upc EXCEPT ![u] = "telling"]} /\ Armed(u)
<1>1. Ending(u)' /\ guard'[u].session = s
  BY DEF UploadEnds, Ending
<1>2. CASE Ending(u) /\ guard'[u] = guard[u]
  BY <1>1, <1>2 DEF UploadEnds
<1>3. ASSUME NEW res \in SaveResults, Settles(u, res), slot' = Free
      PROVE  TakenNow(s) /\ Armed(u)
             /\ upc' \in {[upc EXCEPT ![u] = "ending"], [upc EXCEPT ![u] = "telling"]}
  <2>1. guard' = guard /\ slot.id = guard[u].session /\ IsActive /\ UNCHANGED <<ppc, told>> /\ Armed(u)
    BY <1>3 DEF Settles
  <2>2. upc' \in {[upc EXCEPT ![u] = "ending"], [upc EXCEPT ![u] = "telling"]}
    <3>1. slot \in AcceptedSession
      BY <2>1, ActiveType DEF FilesInv
    <3>2. [slot EXCEPT !.files = Settled(slot.files, guard[u].file, res)] # Free
      BY <3>1 DEF AcceptedSession, Free
    <3> QED BY <1>3, <3>2 DEF Settles
  <2> QED BY <1>1, <1>3, <2>1, <2>2 DEF TakenNow
<1>4. upc' # upc => UNCHANGED cpc
  BY ZenonT(60) DEF Next, PrepareStep, PrepareClient, App, PinAccepted, PinRefused, ClaimRefused, Claim, Ask,
     AskFails, CancelledBySender, Decided, Clear, Activate, DropPrepare, CleanUp, TellAborted,
     CancelStep, CancelClient, CancelActive, TellCancelled, CancelPending, CancelOther,
     DropCancel, AppTake, AppDecide, AppTarget, AppCancel, AppClose, uploadVars, vars,
     UploadStep, Transfer, UploadClient, Announce, NoTarget, StartSaving, WriterStops, Saved, Finish, TellFinished,
     FailDropped, TellFailed, UploadRefused, UploadAdmitted, DropUpload, cancelVars
<1>5. ASSUME Armed(u), upc' \in {[upc EXCEPT ![u] = "ending"], [upc EXCEPT ![u] = "telling"]}
      PROVE  UNCHANGED cpc
  <2>1. upc'[u] # upc[u]
    BY <1>5 DEF Armed, FilesInv, TypeOK
  <2> QED BY <1>4, <2>1
<1> QED BY <1>1, <1>2, <1>3, <1>5, NewEnding

LEMMA NewCancelEnds ==
    ASSUME FilesInv, [Next]_vars, NEW s \in Request, NEW c \in Cancel, CancelEnds(c, s)'
    PROVE  \/ CancelEnds(c, s)
           \/ TakenNow(s) /\ UNCHANGED upc /\ cpc' = [cpc EXCEPT ![c] = "ending"] /\ cpc[c] = "second"
<1>1. cpc'[c] = "ending" /\ cancelling'[c].session = s
  BY DEF CancelEnds
<1>2. CASE UNCHANGED cancelVars
  BY <1>1, <1>2 DEF cancelVars, CancelEnds
<1>3. ASSUME NEW d \in Cancel, CancelStep(d) \/ CancelClient(d)
      PROVE  \/ CancelEnds(c, s)
             \/ TakenNow(s) /\ UNCHANGED upc /\ cpc' = [cpc EXCEPT ![c] = "ending"] /\ cpc[c] = "second"
  <2>1. CASE CancelActive(d)
    <3>1. cancelling' = cancelling /\ UNCHANGED <<upc, ppc, told>> /\ cpc[d] = "second"
      BY <2>1 DEF CancelActive, uploadVars, prepareVars, eventVars
    <3>2. CASE d = c
      <4>1. IsActive /\ slot.id = cancelling[c].session /\ slot' = Free /\ cpc' = [cpc EXCEPT ![c] = "ending"]
        BY <1>1, <2>1, <3>2 DEF CancelActive, FilesInv, TypeOK
      <4> QED BY <1>1, <3>1, <3>2, <4>1 DEF TakenNow
    <3>3. CASE d # c
      <4>1. cpc'[c] = cpc[c]
        BY <2>1, <3>3 DEF CancelActive, FilesInv, TypeOK
      <4> QED BY <1>1, <3>1, <4>1 DEF CancelEnds
    <3> QED BY <3>2, <3>3
  <2>2. CASE TellCancelled(d) \/ CancelPending(d) \/ CancelOther(d) \/ DropCancel(d)
    <3>1. cpc' = [cpc EXCEPT ![d] = "done"] \/ cpc' = [cpc EXCEPT ![d] = "second"]
      BY <2>2, Zenon DEF TellCancelled, CancelPending, CancelOther, DropCancel
    <3>2. d # c /\ cpc'[c] = cpc[c]
      BY <1>1, <3>1 DEF FilesInv, TypeOK
    <3>3. cancelling'[c] = cancelling[c]
      BY <2>2, <3>2 DEF TellCancelled, CancelPending, CancelOther, DropCancel, FilesInv, TypeOK
    <3> QED BY <1>1, <3>2, <3>3 DEF CancelEnds
  <2> QED BY <1>3, <2>1, <2>2, Zenon DEF CancelStep, CancelClient
<1>4. (\E r \in Request : PrepareStep(r) \/ PrepareClient(r))
        \/ (\E u \in Upload : UploadStep(u) \/ Transfer(u) \/ UploadClient(u)) \/ App \/ UNCHANGED vars
         => UNCHANGED cancelVars
  BY ZenonT(60) DEF PrepareStep, PrepareClient, App, PinAccepted, PinRefused, ClaimRefused, Claim, Ask,
     AskFails, CancelledBySender, Decided, Clear, Activate, DropPrepare, CleanUp, TellAborted,
     UploadStep, Transfer, UploadClient, Announce, NoTarget, StartSaving, WriterStops, Saved, Finish, TellFinished,
     FailDropped, TellFailed, UploadRefused, UploadAdmitted, DropUpload,
     AppTake, AppDecide, AppTarget, AppCancel, AppClose, vars
<1> QED BY <1>2, <1>3, <1>4 DEF Next

LEMMA OnceStep == FilesInv /\ OnceInv /\ [Next]_vars => OnceInv'
<1> SUFFICES ASSUME FilesInv, OnceInv, [Next]_vars, NEW s \in Request
             PROVE  /\ ~Untold(s)' => Gone(s)'
                    /\ \A u \in Upload : UploadEnds(u, s)' => Gone(s)' /\ Untold(s)'
                    /\ \A c \in Cancel : CancelEnds(c, s)' => Gone(s)' /\ Untold(s)'
                    /\ \A u, v \in Upload : UploadEnds(u, s)' /\ UploadEnds(v, s)' => u = v
                    /\ \A c, d \in Cancel : CancelEnds(c, s)' /\ CancelEnds(d, s)' => c = d
                    /\ \A u \in Upload, c \in Cancel : ~(UploadEnds(u, s)' /\ CancelEnds(c, s)')
  BY DEF OnceInv
<1>1. TakenNow(s) => ~Gone(s) /\ Untold(s) /\ Untold(s)' /\ Gone(s)'
  <2> SUFFICES ASSUME TakenNow(s) PROVE ~Gone(s) /\ Untold(s) /\ Untold(s)' /\ Gone(s)'
    OBVIOUS
  <2>1. ~Gone(s) /\ Untold(s)
    BY DEF TakenNow, Gone, OnceInv
  <2>2. ppc'[s] = "done" /\ ~IsActive'
    BY DEF TakenNow, FilesInv, SessionsOver, IsActive, Free
  <2> QED BY <2>1, <2>2 DEF TakenNow, Untold, Gone
<1>2. Gone(s) => Gone(s)'
  BY GoneStays
<1>3. Untold(s) /\ ~Untold(s)' => ByHandler(s) \/ ByUpload(s) \/ ByCancel(s)
  <2> SUFFICES ASSUME Untold(s), ~Untold(s)' PROVE ByHandler(s) \/ ByUpload(s) \/ ByCancel(s)
    OBVIOUS
  <2>1. PICK k \in EndKinds : k \in told'[s] \ told[s]
    BY DEF Untold, EndKinds
  <2> QED BY <2>1, Announcers DEF Announced, FilesInv
<1>4. ByHandler(s) => Gone(s)' /\ ~Gone(s)
  BY DEF ByHandler, Gone, FilesInv, SessionsOver, TypeOK, IsActive
<1>5. ByUpload(s) \/ ByCancel(s) => Gone(s)
  BY DEF ByUpload, ByCancel, OnceInv
<1>6. ~Untold(s)' => Gone(s)'
  BY <1>2, <1>3, <1>4, <1>5 DEF OnceInv
<1>7. ASSUME NEW u \in Upload, UploadEnds(u, s)' PROVE Gone(s)' /\ Untold(s)'
  <2>1. CASE UploadEnds(u, s)
    <3>1. Gone(s) /\ Untold(s)
      BY <2>1 DEF OnceInv
    <3>2. ~ByUpload(s)
      <4> SUFFICES ASSUME NEW v \in Upload, UploadEnds(v, s), upc' = [upc EXCEPT ![v] = "done"]
                   PROVE  FALSE
        BY DEF ByUpload
      <4>1. v = u
        BY <2>1 DEF OnceInv
      <4> QED BY <1>7, <4>1 DEF UploadEnds, Ending, FilesInv, TypeOK
    <3>3. ~ByCancel(s)
      BY <2>1 DEF ByCancel, OnceInv
    <3> QED BY <1>2, <1>3, <1>4, <3>1, <3>2, <3>3
  <2> QED BY <1>1, <1>7, <2>1, NewUploadEnds
<1>8. ASSUME NEW c \in Cancel, CancelEnds(c, s)' PROVE Gone(s)' /\ Untold(s)'
  <2>1. CASE CancelEnds(c, s)
    <3>1. Gone(s) /\ Untold(s)
      BY <2>1 DEF OnceInv
    <3>2. ~ByCancel(s)
      <4> SUFFICES ASSUME NEW d \in Cancel, CancelEnds(d, s), cpc' = [cpc EXCEPT ![d] = "done"]
                   PROVE  FALSE
        BY DEF ByCancel
      <4>1. d = c
        BY <2>1 DEF OnceInv
      <4> QED BY <1>8, <4>1 DEF CancelEnds, FilesInv, TypeOK
    <3>3. ~ByUpload(s)
      BY <2>1 DEF ByUpload, OnceInv
    <3> QED BY <1>2, <1>3, <1>4, <3>1, <3>2, <3>3
  <2> QED BY <1>1, <1>8, <2>1, NewCancelEnds
<1>9. ASSUME NEW u \in Upload, NEW v \in Upload, UploadEnds(u, s)', UploadEnds(v, s)' PROVE u = v
  <2>1. CASE UploadEnds(u, s) /\ UploadEnds(v, s)
    BY <2>1 DEF OnceInv
  <2>2. CASE TakenNow(s)
    <3>1. ~UploadEnds(u, s) /\ ~UploadEnds(v, s)
      BY <1>1, <2>2 DEF OnceInv
    <3>2. /\ upc' \in {[upc EXCEPT ![u] = "ending"], [upc EXCEPT ![u] = "telling"]} /\ Armed(u)
          /\ upc' \in {[upc EXCEPT ![v] = "ending"], [upc EXCEPT ![v] = "telling"]} /\ Armed(v)
      BY <1>9, <3>1, NewUploadEnds
    <3> QED BY <3>2 DEF Armed, FilesInv, TypeOK
  <2> QED BY <1>9, <2>1, <2>2, NewUploadEnds
<1>10. ASSUME NEW c \in Cancel, NEW d \in Cancel, CancelEnds(c, s)', CancelEnds(d, s)' PROVE c = d
  <2>1. CASE CancelEnds(c, s) /\ CancelEnds(d, s)
    BY <2>1 DEF OnceInv
  <2>2. CASE TakenNow(s)
    <3>1. ~CancelEnds(c, s) /\ ~CancelEnds(d, s)
      BY <1>1, <2>2 DEF OnceInv
    <3>2. /\ cpc' = [cpc EXCEPT ![c] = "ending"] /\ cpc[c] = "second"
          /\ cpc' = [cpc EXCEPT ![d] = "ending"] /\ cpc[d] = "second"
      BY <1>10, <3>1, NewCancelEnds
    <3> QED BY <3>2 DEF FilesInv, TypeOK
  <2> QED BY <1>10, <2>1, <2>2, NewCancelEnds
<1>11. ASSUME NEW u \in Upload, NEW c \in Cancel, UploadEnds(u, s)', CancelEnds(c, s)' PROVE FALSE
  <2>1. CASE UploadEnds(u, s) /\ CancelEnds(c, s)
    BY <2>1 DEF OnceInv
  <2>2. CASE TakenNow(s)
    <3>1. ~UploadEnds(u, s) /\ ~CancelEnds(c, s)
      BY <1>1, <2>2 DEF OnceInv
    <3>2. UNCHANGED cpc /\ cpc' = [cpc EXCEPT ![c] = "ending"] /\ cpc[c] = "second"
      BY <1>11, <3>1, NewUploadEnds, NewCancelEnds
    <3> QED BY <3>2 DEF FilesInv, TypeOK
  <2> QED BY <1>11, <2>1, <2>2, NewUploadEnds, NewCancelEnds
<1> QED BY <1>6, <1>7, <1>8, <1>9, <1>10, <1>11

\* A session is announced as over at most once, and never both as aborted and
\* as ended, however cancels, hang-ups and the last file meet.
THEOREM EndsAreToldOnce == Spec => EndedOnce
<1>1. Init => OnceInv
  BY DEF Init, OnceInv, Untold, UploadEnds, CancelEnds, Ending
<1>2. FilesInv /\ OnceInv /\ [Next]_vars => OnceInv'
  BY OnceStep
<1>3. FilesInv /\ OnceInv /\ [Next]_vars =>
        [\A s \in Request : \A k \in EndKinds :
            (\E e \in {[kind |-> k, id |-> s]} : queue' = Append(queue, e))
               => told[s] \cap EndKinds = {}]_vars
  <2> SUFFICES ASSUME FilesInv, OnceInv, [Next]_vars, NEW s \in Request, NEW k \in EndKinds,
                      queue' = Append(queue, [kind |-> k, id |-> s])
               PROVE  told[s] \cap EndKinds = {}
    OBVIOUS
  <2>1. ByHandler(s) \/ ByUpload(s) \/ ByCancel(s)
    BY Announcers DEF Announced, FilesInv
  <2>2. ByHandler(s) => Untold(s)
    BY DEF ByHandler, OnceInv, Gone
  <2>3. ByUpload(s) \/ ByCancel(s) => Untold(s)
    BY DEF ByUpload, ByCancel, OnceInv
  <2> QED BY <2>1, <2>2, <2>3 DEF Untold
<1> QED BY <1>1, <1>2, <1>3, FilesInvariant, PTL DEF Spec, EndedOnce
-----------------------------------------------------------------------------
(* The slot implements SessionSlot.                                        *)

Question(r) == [kind |-> "PrepareUpload", id |-> r]
InQueue(r) == \E i \in DOMAIN queue : queue[i] = Question(r)

\* A decision is asked for once and given once: the event of a request is
\* sent once, and what an accepting handler has read does not change.
DecisionInv ==
    \A r \in Request :
        /\ ppc[r] \in {"idle", "claim", "asking"} => ~InQueue(r) /\ decision[r].kind = "Unsent"
        /\ decision[r].kind # "Unsent" => ~InQueue(r)
        /\ ppc[r] = "activating" => decision[r].kind = "Accept" /\ AcceptedFiles(r) # {}
        /\ \A i, j \in DOMAIN queue : queue[i] = Question(r) /\ queue[j] = Question(r) => i = j

LEMMA AppendItems ==
    ASSUME NEW S, NEW q \in Seq(S), NEW e
    PROVE  /\ DOMAIN q = 1 .. Len(q)
           /\ DOMAIN Append(q, e) = 1 .. (Len(q) + 1)
           /\ \A i \in 1 .. Len(q) : Append(q, e)[i] = q[i]
           /\ Append(q, e)[Len(q) + 1] = e
OBVIOUS

LEMMA TailItems ==
    ASSUME NEW S, NEW q \in Seq(S), q # <<>>
    PROVE  /\ DOMAIN q = 1 .. Len(q) /\ Len(q) \in Nat \ {0}
           /\ DOMAIN Tail(q) = 1 .. (Len(q) - 1)
           /\ \A i \in 1 .. (Len(q) - 1) : Tail(q)[i] = q[i + 1]
           /\ Head(q) = q[1]
OBVIOUS

\* Steps that send another event, or none, and decide nothing.
LEMMA DecisionKept ==
    ASSUME TypeOK, DecisionInv, decision' = decision, req' = req,
           queue' = queue \/ \E e \in Events : e.kind # "PrepareUpload" /\ queue' = Append(queue, e),
           \A r \in Request :
              /\ ppc'[r] \in {"idle", "claim", "asking"} => ppc[r] \in {"idle", "claim", "asking"}
              /\ ppc'[r] = "activating" =>
                    \/ ppc[r] = "activating"
                    \/ decision[r].kind = "Accept" /\ AcceptedFiles(r) # {}
    PROVE  DecisionInv'
<1>1. \A r \in Request : AcceptedFiles(r)' = AcceptedFiles(r)
  BY DEF AcceptedFiles
<1>2. CASE queue' = queue
  BY <1>1, <1>2 DEF DecisionInv, InQueue
<1>3. ASSUME NEW e \in Events, e.kind # "PrepareUpload", queue' = Append(queue, e)
      PROVE  DecisionInv'
  <2>1. \A r \in Request : e # Question(r)
    BY <1>3 DEF Question
  <2>2. queue \in Seq(Events)
    BY DEF TypeOK
  <2>3. /\ DOMAIN queue = 1 .. Len(queue) /\ DOMAIN queue' = 1 .. (Len(queue) + 1) /\ Len(queue) \in Nat
        /\ \A i \in 1 .. Len(queue) : queue'[i] = queue[i]
        /\ queue'[Len(queue) + 1] = e
    BY <1>3, <2>2, AppendItems
  <2>4. \A r \in Request : \A i \in DOMAIN queue' :
            queue'[i] = Question(r) => i \in DOMAIN queue /\ queue[i] = Question(r)
    BY <2>1, <2>3
  <2> QED BY <1>1, <2>4 DEF DecisionInv, InQueue, Question
<1> QED BY <1>2, <1>3

LEMMA DecisionStep == FilesInv /\ DecisionInv /\ [Next]_vars => DecisionInv'
<1> SUFFICES ASSUME FilesInv, DecisionInv, [Next]_vars PROVE DecisionInv'
  OBVIOUS
<1> USE DEF FilesInv
<1>q. queue \in Seq(Events)
  BY DEF TypeOK
<1>1. ASSUME NEW r \in Request, Ask(r) PROVE DecisionInv'
  <2>1. queue' = Append(queue, Question(r)) /\ ppc' = [ppc EXCEPT ![r] = "deciding"]
        /\ UNCHANGED <<req, decision>> /\ ppc[r] = "asking"
    BY <1>1 DEF Ask, Send, Question
  <2>2. /\ DOMAIN queue = 1 .. Len(queue) /\ DOMAIN queue' = 1 .. (Len(queue) + 1) /\ Len(queue) \in Nat
        /\ \A i \in 1 .. Len(queue) : queue'[i] = queue[i]
        /\ queue'[Len(queue) + 1] = Question(r)
    BY <1>q, <2>1, AppendItems
  <2>3. ~InQueue(r) /\ decision[r].kind = "Unsent"
    BY <2>1 DEF DecisionInv
  <2>4. ASSUME NEW q \in Request, q # r, NEW i \in DOMAIN queue', queue'[i] = Question(q)
        PROVE  i \in DOMAIN queue /\ queue[i] = Question(q)
    BY <2>2, <2>4 DEF Question
  <2>5. ASSUME NEW i \in DOMAIN queue', queue'[i] = Question(r) PROVE i = Len(queue) + 1
    BY <2>2, <2>3, <2>5 DEF InQueue
  <2>6. ASSUME NEW q \in Request, q # r
        PROVE  /\ InQueue(q)' => InQueue(q)
               /\ ppc'[q] = ppc[q] /\ decision'[q] = decision[q]
               /\ AcceptedFiles(q)' = AcceptedFiles(q)
               /\ \A i, j \in DOMAIN queue' : queue'[i] = Question(q) /\ queue'[j] = Question(q) => i = j
    <3>1. InQueue(q)' => InQueue(q)
      BY <2>4, <2>6 DEF InQueue, Question
    <3>2. ppc'[q] = ppc[q]
      BY <2>1, <2>6 DEF TypeOK
    <3>3. \A i, j \in DOMAIN queue' : queue'[i] = Question(q) /\ queue'[j] = Question(q) => i = j
      BY <2>4, <2>6 DEF DecisionInv
    <3> QED BY <2>1, <3>1, <3>2, <3>3 DEF AcceptedFiles
  <2>7. ppc'[r] = "deciding" /\ decision'[r].kind = "Unsent"
    BY <2>1, <2>3 DEF TypeOK
  <2> QED BY <2>5, <2>6, <2>7 DEF DecisionInv, Question
<1>2. ASSUME NEW r \in Request, PrepareStep(r) \/ PrepareClient(r), ~Ask(r) PROVE DecisionInv'
  <2>1. decision' = decision /\ req' = req
    BY <1>2 DEF PrepareStep, PrepareClient, PinAccepted, PinRefused, ClaimRefused, Claim, Ask,
       AskFails, CancelledBySender, Decided, Clear, Activate, DropPrepare, CleanUp, TellAborted
  <2>2. queue' = queue \/ \E e \in Events : e.kind # "PrepareUpload" /\ queue' = Append(queue, e)
    <3>1. CASE TellAborted(r)
      <4>1. [kind |-> "PrepareUploadAborted", id |-> r] \in Events
        BY DEF Events
      <4> QED BY <3>1, <4>1 DEF TellAborted, SendOrIgnore, Send, SendFails, eventVars
    <3>2. CASE ~TellAborted(r)
      BY <1>2, <3>2 DEF PrepareStep, PrepareClient, PinAccepted, PinRefused, ClaimRefused, Claim,
         AskFails, SendFails, CancelledBySender, Decided, Clear, Activate, DropPrepare, CleanUp,
         eventVars
    <3> QED BY <3>1, <3>2
  <2>3. \A q \in Request \ {r} : ppc'[q] = ppc[q]
    BY <1>2 DEF PrepareStep, PrepareClient, PinAccepted, PinRefused, ClaimRefused, Claim, Ask,
       AskFails, CancelledBySender, Decided, Clear, Activate, DropPrepare, CleanUp, TellAborted,
       AnswerPrepare, AnswerArmed, TypeOK
  <2>4. ppc'[r] \in {"idle", "claim", "asking"} => ppc[r] \in {"idle", "claim", "asking"}
    BY <1>2 DEF PrepareStep, PrepareClient, PinAccepted, PinRefused, ClaimRefused, Claim, Ask,
       AskFails, CancelledBySender, Decided, Clear, Activate, DropPrepare, CleanUp, TellAborted,
       AnswerPrepare, AnswerArmed, TypeOK
  <2>5. ppc'[r] = "activating" => decision[r].kind = "Accept" /\ AcceptedFiles(r) # {}
    BY <1>2 DEF PrepareStep, PrepareClient, PinAccepted, PinRefused, ClaimRefused, Claim, Ask,
       AskFails, CancelledBySender, Decided, Clear, Activate, DropPrepare, CleanUp, TellAborted,
       AnswerPrepare, AnswerArmed, TypeOK
  <2> QED BY <2>1, <2>2, <2>3, <2>4, <2>5, DecisionKept
<1>3. ASSUME NEW u \in Upload, UploadStep(u) \/ Transfer(u) \/ UploadClient(u) PROVE DecisionInv'
  <2>1. ppc' = ppc /\ decision' = decision /\ req' = req
    BY <1>3 DEF UploadStep, Transfer, UploadClient, Announce, NoTarget, StartSaving, WriterStops, Saved, Finish, TellFinished,
       FailDropped, TellFailed, UploadRefused, UploadAdmitted, DropUpload, prepareVars
  <2>2. queue' = queue \/ \E e \in Events : e.kind # "PrepareUpload" /\ queue' = Append(queue, e)
    <3>1. CASE Announce(u) \/ TellFinished(u) \/ TellFailed(u)
      <4>1. guard[u].session \in Request
        BY <3>1 DEF Announce, TellFinished, TellFailed, Carried, Guards
      <4>2. /\ [kind |-> "FileUpload", id |-> guard[u].session, by |-> u] \in Events
            /\ Ended(guard[u].session, "Finished") \in Events
            /\ Ended(guard[u].session, "Finished").kind # "PrepareUpload"
        BY <4>1 DEF Events, Ended
      <4> QED BY <3>1, <4>2 DEF Announce, TellFinished, TellFailed, SendOrIgnore, Send, SendFails, eventVars
    <3>2. CASE ~(Announce(u) \/ TellFinished(u) \/ TellFailed(u))
      BY <1>3, <3>2 DEF UploadStep, Transfer, UploadClient, NoTarget, SendFails, StartSaving, WriterStops, Saved, Finish,
         FailDropped, UploadRefused, UploadAdmitted, DropUpload, eventVars
    <3> QED BY <3>1, <3>2
  <2> QED BY <2>1, <2>2, DecisionKept
<1>4. ASSUME NEW c \in Cancel, CancelStep(c) \/ CancelClient(c) PROVE DecisionInv'
  <2>1. ppc' = ppc /\ decision' = decision /\ req' = req
    BY <1>4 DEF CancelStep, CancelClient, CancelActive, TellCancelled, CancelPending,
       CancelOther, DropCancel, prepareVars
  <2>2. queue' = queue \/ \E e \in Events : e.kind # "PrepareUpload" /\ queue' = Append(queue, e)
    <3>1. CASE TellCancelled(c)
      <4>1. /\ cpc[c] = "ending" => Ended(cancelling[c].session, "Cancelled") \in Events
            /\ cpc[c] = "relaying" =>
                 [kind |-> "CancelReceived", id |-> cancelling[c].session] \in Events
        BY DEF Carried, Cancels, Events, Ended
      <4>2. Ended(cancelling[c].session, "Cancelled").kind # "PrepareUpload"
        BY DEF Ended
      <4> QED BY <3>1, <4>1, <4>2 DEF TellCancelled, SendOrIgnore, Send, SendFails, eventVars
    <3>2. CASE ~TellCancelled(c)
      BY <1>4, <3>2 DEF CancelStep, CancelClient, CancelActive, CancelPending, CancelOther,
         DropCancel, eventVars
    <3> QED BY <3>1, <3>2
  <2> QED BY <2>1, <2>2, DecisionKept
<1>5. CASE AppTake
  <2>1. /\ queue # <<>> /\ queue' = Tail(queue) /\ ppc' = ppc /\ req' = req
        /\ decision' = IF Head(queue).kind = "PrepareUpload"
                         THEN [decision EXCEPT ![Head(queue).id].kind = "Asked"]
                         ELSE decision
    BY <1>5 DEF AppTake
  <2>2. /\ DOMAIN queue = 1 .. Len(queue) /\ Len(queue) \in Nat \ {0}
        /\ DOMAIN queue' = 1 .. (Len(queue) - 1)
        /\ \A i \in 1 .. (Len(queue) - 1) : queue'[i] = queue[i + 1]
        /\ Head(queue) = queue[1]
    BY <1>q, <2>1, TailItems
  <2>3. ASSUME NEW q \in Request
        PROVE  /\ InQueue(q)' => InQueue(q)
               /\ \A i, j \in DOMAIN queue' : queue'[i] = Question(q) /\ queue'[j] = Question(q) => i = j
               /\ Head(queue) = Question(q) => ~InQueue(q)'
    <3>1. ASSUME NEW i \in DOMAIN queue', queue'[i] = Question(q)
          PROVE  i + 1 \in DOMAIN queue /\ queue[i + 1] = Question(q) /\ i + 1 # 1
      <4>1. i \in 1 .. (Len(queue) - 1) /\ Len(queue) \in Nat
        BY <2>2
      <4>2. i + 1 \in 1 .. Len(queue) /\ i + 1 # 1
        BY <4>1
      <4>3. queue'[i] = queue[i + 1]
        BY <2>2, <4>1
      <4> QED BY <2>2, <3>1, <4>2, <4>3
    <3>2. InQueue(q)' => InQueue(q)
      BY <3>1 DEF InQueue, Question
    <3>3. \A i, j \in DOMAIN queue : queue[i] = Question(q) /\ queue[j] = Question(q) => i = j
      BY DEF DecisionInv
    <3>4. \A i, j \in DOMAIN queue' : queue'[i] = Question(q) /\ queue'[j] = Question(q) => i = j
      <4>1. ASSUME NEW i \in DOMAIN queue', NEW j \in DOMAIN queue',
                   queue'[i] = Question(q), queue'[j] = Question(q)
            PROVE  i = j
        <5>1. i \in Nat /\ j \in Nat
          BY <2>2
        <5>2. i + 1 = j + 1
          BY <3>1, <3>3, <4>1
        <5> QED BY <5>1, <5>2
      <4> QED BY <4>1
    <3>5. Head(queue) = Question(q) => ~InQueue(q)'
      <4>1. ASSUME NEW i \in DOMAIN queue', queue'[i] = Question(q), Head(queue) = Question(q)
            PROVE  FALSE
        <5>1. 1 \in DOMAIN queue /\ queue[1] = Question(q)
          BY <2>2, <4>1
        <5> QED BY <3>1, <3>3, <4>1, <5>1
      <4> QED BY <4>1 DEF InQueue, Question
    <3> QED BY <3>2, <3>4, <3>5
  <2>4. CASE Head(queue).kind # "PrepareUpload"
    <3>1. decision' = decision
      BY <2>1, <2>4
    <3> QED BY <2>1, <2>3, <3>1 DEF DecisionInv, AcceptedFiles, Question
  <2>5. CASE Head(queue).kind = "PrepareUpload"
    <3>1. PICK h \in Request : Head(queue) = Question(h)
      <4>1. Head(queue) \in Events
        BY <1>q, <2>1
      <4> QED BY <2>5, <4>1 DEF Events, Question
    <3>2. InQueue(h) /\ ~InQueue(h)'
      BY <2>2, <2>3, <3>1 DEF InQueue
    <3>3. ppc[h] \notin {"idle", "claim", "asking", "activating"}
      BY <3>2 DEF DecisionInv
    <3>4. decision' = [decision EXCEPT ![h].kind = "Asked"]
      <4>1. Head(queue).kind = "PrepareUpload" /\ Head(queue).id = h
        BY <3>1 DEF Question
      <4> QED BY <2>1, <4>1, Zenon
    <3>5. \A q \in Request \ {h} : decision'[q] = decision[q] /\ AcceptedFiles(q)' = AcceptedFiles(q)
      BY <2>1, <3>4 DEF TypeOK, AcceptedFiles
    <3>6. ASSUME NEW q \in Request, q # h
          PROVE  /\ ppc'[q] \in {"idle", "claim", "asking"} => ~InQueue(q)' /\ decision'[q].kind = "Unsent"
                 /\ decision'[q].kind # "Unsent" => ~InQueue(q)'
                 /\ ppc'[q] = "activating" => decision'[q].kind = "Accept" /\ AcceptedFiles(q)' # {}
      BY <2>1, <2>3, <3>5, <3>6 DEF DecisionInv
    <3>7. ppc'[h] \notin {"idle", "claim", "asking", "activating"} /\ ~InQueue(h)'
      BY <2>1, <3>2, <3>3
    <3> QED BY <2>3, <3>6, <3>7 DEF DecisionInv, Question
  <2> QED BY <2>4, <2>5
<1>6. ASSUME NEW r \in Request, AppDecide(r) PROVE DecisionInv'
  <2>1. /\ decision[r].kind = "Asked"
        /\ ppc' = ppc /\ req' = req /\ queue' = queue
    BY <1>6 DEF AppDecide, eventVars
  <2>2. ppc[r] \notin {"idle", "claim", "asking", "activating"} /\ ~InQueue(r)
    BY <2>1 DEF DecisionInv
  <2>3. \A q \in Request \ {r} : decision'[q] = decision[q] /\ AcceptedFiles(q)' = AcceptedFiles(q)
    BY <1>6, <2>1 DEF AppDecide, TypeOK, AcceptedFiles
  <2> QED BY <2>1, <2>2, <2>3 DEF DecisionInv, InQueue
<1>7. CASE AppClose
  <2>1. /\ queue' = <<>> /\ ppc' = ppc /\ req' = req
        /\ decision' = [r \in Request |-> IF InQueue(r) THEN [kind |-> "Dropped", ids |-> {}]
                                                       ELSE decision[r]]
    BY <1>7 DEF AppClose, InQueue, Question
  <2>2. \A r \in Request : ~InQueue(r)'
    BY <2>1 DEF InQueue
  <2>3. \A r \in Request : ~InQueue(r) =>
            decision'[r] = decision[r] /\ AcceptedFiles(r)' = AcceptedFiles(r)
    BY <2>1 DEF AcceptedFiles
  <2>4. \A r \in Request : ppc[r] \in {"idle", "claim", "asking", "activating"} => ~InQueue(r)
    BY DEF DecisionInv
  <2> QED BY <2>1, <2>2, <2>3, <2>4 DEF DecisionInv
<1>8. ASSUME (\E u \in Upload : AppTarget(u)) \/ AppCancel \/ UNCHANGED vars PROVE DecisionInv'
  <2>1. UNCHANGED <<ppc, req, decision, queue>>
    BY <1>8 DEF AppTarget, AppCancel, vars, prepareVars, eventVars
  <2> QED BY <2>1, DecisionKept
<1> QED
  BY <1>1, <1>2, <1>3, <1>4, <1>5, <1>6, <1>7, <1>8 DEF Next, App

LEMMA DecisionsKept == Spec => []DecisionInv
<1>1. Init => DecisionInv
  <2> SUFFICES ASSUME Init PROVE DecisionInv
    OBVIOUS
  <2>1. DOMAIN queue = {} /\ \A r \in Request : ppc[r] = "idle" /\ decision[r].kind = "Unsent"
    BY DEF Init, Undecided
  <2> QED BY <2>1 DEF DecisionInv, InQueue
<1>2. FilesInv /\ DecisionInv /\ [Next]_vars => DecisionInv'
  BY DecisionStep
<1> QED BY <1>1, <1>2, FilesInvariant, PTL DEF Spec

\* The ids that were used up depend on the handlers only.
LEMMA UsedKept ==
    ASSUME \A q \in Request : ppc'[q] \in {"idle", "claim"} <=> ppc[q] \in {"idle", "claim"}
    PROVE  SlotUsed' = SlotUsed
BY DEF SlotUsed

LEMMA UsedUp ==
    ASSUME TypeOK, NEW r \in Request, NEW pc, pc \notin {"idle", "claim"},
           ppc[r] \in {"idle", "claim"}, ppc' = [ppc EXCEPT ![r] = pc]
    PROVE  r \notin SlotUsed /\ SlotUsed' = SlotUsed \cup {r}
BY DEF SlotUsed, TypeOK

LEMMA SlotKept ==
    ASSUME slot' = slot
    PROVE  UNCHANGED <<slot.state, SlotHolder, SlotTodo>>
BY DEF SlotHolder, SlotTodo, IsActive

LEMMA NothingTodo == ASSUME ~IsActive PROVE SlotTodo = {}
BY DEF SlotTodo

LEMMA EndsEarly ==
    ASSUME IsActive, slot' = Free, ppc' = ppc
    PROVE  Slot!EndEarly
<1>1. SlotUsed' = SlotUsed
  BY UsedKept
<1>2. ~IsActive' /\ slot'.state = "Free"
  BY DEF IsActive, Free
<1>3. SlotTodo' = {}
  BY <1>2 DEF SlotTodo
<1>4. SlotHolder' = {}
  BY DEF SlotHolder
<1> QED BY <1>1, <1>2, <1>3, <1>4 DEF Slot!EndEarly, IsActive

\* The report on an upload settles its file, or makes it pending again.
LEMMA SettleStep ==
    ASSUME FilesInv, NEW u \in Upload, NEW res \in SaveResults, Settles(u, res)
    PROVE  [Slot!Next]_Slot!slotVars
<1> DEFINE f == guard[u].file
           files == Settled(slot.files, f, res)
<1>1. slot \in AcceptedSession
  BY ActiveType DEF FilesInv, Settles
<1>2. /\ f \in DOMAIN slot.files /\ DOMAIN slot.files \subseteq File
      /\ slot.files[f].status = "InProgress"
  <2>1. Armed(u) /\ IsActive /\ slot.id = guard[u].session
    BY DEF Settles
  <2>2. f \in DOMAIN slot.files /\ slot.files[f].status = "InProgress"
    BY <2>1 DEF FilesInv, FileOwned
  <2> QED BY <1>1, <2>2 DEF AcceptedSession
<1>3. files = [slot.files EXCEPT ![f].status = FinalStatus(slot.files[f], res)]
  BY <1>2 DEF Settled
<1>4. /\ DOMAIN files = DOMAIN slot.files
      /\ files[f].status = FinalStatus(slot.files[f], res)
      /\ \A g \in DOMAIN slot.files \ {f} : files[g] = slot.files[g]
  <2>1. slot.files[f] \in SessionFile
    BY <1>1, <1>2 DEF AcceptedSession
  <2> QED BY <1>2, <1>3, <2>1 DEF SessionFile
<1>5. SlotUsed' = SlotUsed
  BY UsedKept DEF Settles
<1>6. SlotTodo = {g \in DOMAIN slot.files : slot.files[g].status \notin Final}
  BY DEF SlotTodo, Settles
<1>7. f \in SlotTodo
  BY <1>2, <1>6 DEF Final
<1>8. CASE IsComplete(files)
  <2>1. slot' = Free
    BY <1>8 DEF Settles
  <2>2. SlotTodo = {f}
    BY <1>4, <1>6, <1>7, <1>8 DEF IsComplete
  <2>3. SlotTodo' = {} /\ SlotHolder' = {} /\ slot'.state = "Free"
    BY <2>1 DEF SlotTodo, SlotHolder, IsActive, Free
  <2>4. Slot!Settle(f)
    BY <1>5, <2>2, <2>3 DEF Slot!Settle, Settles, IsActive
  <2> QED BY <1>2, <2>4 DEF Slot!Next
<1>9. CASE ~IsComplete(files)
  <2>1. slot' = [slot EXCEPT !.files = files]
    BY <1>9 DEF Settles
  <2>2. slot'.state = "Active" /\ slot'.id = slot.id /\ slot'.files = files /\ slot # Free /\ slot' # Free
        /\ slot.state = "Active"
    BY <1>1, <2>1 DEF AcceptedSession, Free
  <2>3. SlotHolder' = SlotHolder
    BY <2>2 DEF SlotHolder
  <2>4. SlotTodo' = {g \in DOMAIN files : files[g].status \notin Final}
    BY <2>2 DEF SlotTodo, IsActive
  <2>5. CASE FinalStatus(slot.files[f], res) \in Final
    <3>1. SlotTodo' = SlotTodo \ {f}
      BY <1>4, <1>6, <2>4, <2>5
    <3>2. SlotTodo' # {}
      BY <1>9, <2>4 DEF IsComplete
    <3>3. Slot!Settle(f)
      BY <1>5, <1>7, <2>2, <2>3, <3>1, <3>2 DEF Slot!Settle
    <3> QED BY <1>2, <3>3 DEF Slot!Next
  <2>6. CASE FinalStatus(slot.files[f], res) \notin Final
    <3>1. SlotTodo' = SlotTodo
      <4>1. \A g \in DOMAIN slot.files :
               files[g].status \notin Final <=> slot.files[g].status \notin Final
        BY <1>2, <1>4, <2>6 DEF Final
      <4> QED BY <1>4, <1>6, <2>4, <4>1
    <3> QED BY <1>5, <2>2, <2>3, <3>1 DEF Slot!slotVars
  <2> QED BY <2>5, <2>6
<1> QED BY <1>8, <1>9

\* An admitted upload leaves its file among those still to be settled.
LEMMA AdmitStep ==
    ASSUME TypeOK, NEW u \in Upload, UploadAdmitted(u)
    PROVE  UNCHANGED Slot!slotVars
<1>1. PICK a \in Asks : Admits(u, a)
  BY DEF UploadAdmitted, Admits, prepareVars, eventVars
<1>2. slot \in AcceptedSession /\ slot.state = "Active"
  BY <1>1, ActiveType DEF Admits, Admissible, IsActive
<1>3. /\ a.file \in DOMAIN slot.files
      /\ slot.files[a.file].status = "Pending"
  BY <1>1 DEF Admits, Admissible
<1>4. /\ slot'.state = "Active" /\ slot'.id = slot.id /\ slot # Free /\ slot' # Free
      /\ slot'.files = [slot.files EXCEPT ![a.file] =
            [status |-> "InProgress", attempts |-> slot.files[a.file].attempts + 1]]
  BY <1>1, <1>2 DEF Admits, AcceptedSession, Free
<1>5. /\ DOMAIN slot'.files = DOMAIN slot.files
      /\ \A g \in DOMAIN slot.files :
            slot'.files[g].status \notin Final <=> slot.files[g].status \notin Final
  BY <1>2, <1>3, <1>4 DEF AcceptedSession, Final
<1>6. SlotTodo' = SlotTodo /\ SlotHolder' = SlotHolder
  BY <1>2, <1>4, <1>5 DEF SlotTodo, SlotHolder, IsActive
<1>7. SlotUsed' = SlotUsed
  BY <1>1, UsedKept DEF Admits
<1> QED BY <1>2, <1>4, <1>6, <1>7 DEF Slot!slotVars

\* What a prepare-upload handler does to the slot.
LEMMA PrepareRefines ==
    ASSUME TypeOK, SlotOwned, DecisionInv, NEW r \in Request, PrepareStep(r) \/ PrepareClient(r)
    PROVE  [Slot!Next]_Slot!slotVars
<1>1. CASE PinRefused(r) \/ ClaimRefused(r) \/ (DropPrepare(r) /\ ppc[r] = "claim")
  <2>1. slot' = slot /\ ppc[r] \in {"idle", "claim"} /\ ppc' = [ppc EXCEPT ![r] = "done"]
    BY <1>1, Zenon DEF PinRefused, ClaimRefused, DropPrepare, AnswerPrepare
  <2>2. r \notin SlotUsed /\ SlotUsed' = SlotUsed \cup {r}
    BY <2>1, UsedUp
  <2>3. Slot!Refuse(r)
    BY <2>1, <2>2, SlotKept DEF Slot!Refuse
  <2> QED BY <2>3 DEF Slot!Next
<1>2. CASE Claim(r)
  <2>1. /\ slot = Free /\ slot' = [state |-> "Pending", id |-> r, ip |-> req[r].ip]
        /\ ppc[r] = "claim" /\ ppc' = [ppc EXCEPT ![r] = "asking"]
    BY <1>2 DEF Claim, SlotVacant
  <2>2. r \notin SlotUsed /\ SlotUsed' = SlotUsed \cup {r}
    BY <2>1, UsedUp
  <2>3. slot.state = "Free" /\ slot'.state = "Pending" /\ slot'.id = r /\ slot' # Free
    BY <2>1 DEF Free
  <2>4. SlotHolder' = {r}
    BY <2>3 DEF SlotHolder
  <2>5. SlotTodo' = SlotTodo
    BY <2>3 DEF SlotTodo, IsActive
  <2>6. Slot!Claim(r)
    BY <2>2, <2>3, <2>4, <2>5 DEF Slot!Claim
  <2> QED BY <2>6 DEF Slot!Next
<1>3. CASE Clear(r) \/ CleanUp(r)
  <2>1. Owes(r) /\ ppc[r] \in {"clearing", "cleanup"}
    BY <1>3 DEF Clear, CleanUp, Owes
  <2>2. slot.state = "Pending"
    BY <2>1 DEF SlotOwned, Holds, IsPending
  <2>3. slot' = Free /\ (ppc' = [ppc EXCEPT ![r] = "done"] \/ ppc' = [ppc EXCEPT ![r] = "aborting"])
    BY <1>3, <2>2 DEF Clear, CleanUp, ClearPendingSession, IsPending, AnswerPrepare
  <2>4. SlotUsed' = SlotUsed
    BY <2>1, <2>3, UsedKept DEF TypeOK
  <2>5. SlotTodo' = SlotTodo /\ SlotHolder' = {} /\ slot'.state = "Free"
    BY <2>2, <2>3 DEF SlotTodo, SlotHolder, IsActive, Free
  <2>6. Slot!GiveUp
    BY <2>2, <2>4, <2>5 DEF Slot!GiveUp
  <2> QED BY <2>6 DEF Slot!Next
<1>4. CASE Activate(r)
  <2> DEFINE A == AcceptedFiles(r)
  <2>1. /\ ppc[r] = "activating" /\ ppc' = [ppc EXCEPT ![r] = "done"]
        /\ slot' = [state |-> "Active", id |-> r, ip |-> req[r].ip,
                    files |-> [f \in A |-> [status |-> "Pending", attempts |-> 0]]]
    BY <1>4 DEF Activate, AnswerPrepare
  <2>2. slot.state = "Pending" /\ slot.id = r /\ slot # Free
    BY <2>1 DEF SlotOwned, Holds, IsPending, Owes, Free
  <2>3. A # {}
    BY <2>1 DEF DecisionInv
  <2>4. A \in SUBSET File
    <3>1. decision[r].ids \in SUBSET File
      BY DEF TypeOK, Decisions
    <3> QED BY <3>1 DEF AcceptedFiles
  <2>5. slot'.state = "Active" /\ slot'.id = r /\ slot' # Free
        /\ slot'.files = [f \in A |-> [status |-> "Pending", attempts |-> 0]]
    BY <2>1 DEF Free
  <2>6. SlotTodo' = A
    BY <2>5 DEF SlotTodo, IsActive, Final
  <2>7. SlotHolder' = SlotHolder
    BY <2>2, <2>5 DEF SlotHolder
  <2>8. SlotUsed' = SlotUsed
    BY <2>1, UsedKept DEF TypeOK
  <2>9. Slot!Accept(A)
    BY <2>2, <2>3, <2>5, <2>6, <2>7, <2>8 DEF Slot!Accept
  <2> QED BY <2>4, <2>9 DEF Slot!Next
<1>5. CASE PinAccepted(r) \/ Ask(r) \/ AskFails(r) \/ CancelledBySender(r) \/ Decided(r)
           \/ TellAborted(r) \/ (DropPrepare(r) /\ ppc[r] # "claim")
  <2>1. slot' = slot
    BY <1>5 DEF PinAccepted, Ask, AskFails, CancelledBySender, Decided, TellAborted, DropPrepare
  <2>2. \A q \in Request \ {r} : ppc'[q] = ppc[q]
    BY <1>5 DEF PinAccepted, Ask, AskFails, CancelledBySender, Decided, TellAborted,
       DropPrepare, AnswerArmed, TypeOK
  <2>3. ppc'[r] \in {"idle", "claim"} <=> ppc[r] \in {"idle", "claim"}
    BY <1>5 DEF PinAccepted, Ask, AskFails, CancelledBySender, Decided, TellAborted,
       DropPrepare, AnswerArmed, TypeOK
  <2>4. SlotUsed' = SlotUsed
    BY <2>2, <2>3, UsedKept
  <2> QED BY <2>1, <2>4, SlotKept DEF Slot!slotVars
<1> QED BY <1>1, <1>2, <1>3, <1>4, <1>5 DEF PrepareStep, PrepareClient

LEMMA RefineStep ==
    FilesInv /\ SlotOwned /\ DecisionInv /\ [Next]_vars => [Slot!Next]_Slot!slotVars
<1> SUFFICES ASSUME FilesInv, SlotOwned, DecisionInv, [Next]_vars
             PROVE  [Slot!Next]_Slot!slotVars
  OBVIOUS
<1>t. TypeOK
  BY DEF FilesInv
<1>s. ASSUME slot' = slot, ppc' = ppc PROVE UNCHANGED Slot!slotVars
  BY <1>s, SlotKept, UsedKept DEF Slot!slotVars
<1>e. ASSUME IsActive, slot' = Free, ppc' = ppc PROVE Slot!Next
  BY <1>e, EndsEarly DEF Slot!Next
<1>1. ASSUME NEW r \in Request, PrepareStep(r) \/ PrepareClient(r)
      PROVE  [Slot!Next]_Slot!slotVars
  BY <1>t, <1>1, PrepareRefines
<1>2. ASSUME NEW u \in Upload, UploadStep(u) \/ Transfer(u) \/ UploadClient(u)
      PROVE  [Slot!Next]_Slot!slotVars
  <2>1. CASE UploadAdmitted(u)
    BY <1>t, <2>1, AdmitStep
  <2>2. CASE Finish(u) \/ FailDropped(u)
    <3>1. CASE slot' = slot /\ ppc' = ppc
      BY <1>s, <3>1
    <3>2. ASSUME NEW res \in SaveResults, Settles(u, res) PROVE [Slot!Next]_Slot!slotVars
      BY <3>2, SettleStep
    <3> QED BY <1>t, <2>2, <3>1, <3>2, SettlesOrLeaves
  <2>3. CASE Announce(u) \/ NoTarget(u) \/ StartSaving(u) \/ WriterStops(u) \/ Saved(u) \/ TellFinished(u) \/ TellFailed(u)
             \/ UploadRefused(u) \/ DropUpload(u)
    <3>1. slot' = slot /\ ppc' = ppc
      BY <2>3 DEF Announce, NoTarget, StartSaving, WriterStops, Saved, TellFinished, TellFailed, UploadRefused, DropUpload,
         prepareVars
    <3> QED BY <1>s, <3>1
  <2> QED BY <1>2, <2>1, <2>2, <2>3 DEF UploadStep, Transfer, UploadClient
<1>3. ASSUME NEW c \in Cancel, CancelStep(c) \/ CancelClient(c)
      PROVE  [Slot!Next]_Slot!slotVars
  <2>1. ppc' = ppc /\ (slot' = slot \/ (IsActive /\ slot' = Free))
    BY <1>3 DEF CancelStep, CancelClient, CancelActive, TellCancelled, CancelPending,
       CancelOther, DropCancel, prepareVars
  <2> QED BY <1>s, <1>e, <2>1
<1>4. CASE App
  <2>1. ppc' = ppc /\ (slot' = slot \/ (IsActive /\ slot' = Free))
    BY <1>4 DEF App, AppTake, AppDecide, AppTarget, AppCancel, AppClose, prepareVars
  <2> QED BY <1>s, <1>e, <2>1
<1>5. CASE UNCHANGED vars
  BY <1>s, <1>5 DEF vars, prepareVars
<1> QED BY <1>1, <1>2, <1>3, <1>4, <1>5 DEF Next

\* Seen from outside, the handlers, drops and clean-up tasks of v2.rs are the
\* abstract session slot: one session at a time, entered once, over exactly
\* when its last file is settled or when somebody ends it early.
THEOREM Refinement == Spec => ImplementsSlot
<1>1. Init => Slot!Init
  <2> SUFFICES ASSUME Init PROVE Slot!Init
    OBVIOUS
  <2>1. slot = Free /\ \A r \in Request : ppc[r] = "idle"
    BY DEF Init
  <2> QED BY <2>1 DEF Slot!Init, SlotHolder, SlotTodo, SlotUsed, IsActive, Free
<1>2. FilesInv /\ SlotOwned /\ DecisionInv /\ [Next]_vars => [Slot!Next]_Slot!slotVars
  BY RefineStep
<1> QED
  BY <1>1, <1>2, FilesInvariant, SlotOwnership, DecisionsKept, PTL DEF Spec, ImplementsSlot, Slot!Spec

-----------------------------------------------------------------------------
(* FileUpload.                                                             *)

\* A sequence of blocks is a content if it is not longer than the bound.
LEMMA ContentsAreShort == \A s : s \in Contents <=> s \in Seq(Blocks) /\ Len(s) <= Longest
<1> SUFFICES ASSUME NEW s PROVE s \in Contents <=> s \in Seq(Blocks) /\ Len(s) <= Longest
  OBVIOUS
<1>1. ASSUME s \in Contents PROVE s \in Seq(Blocks) /\ Len(s) <= Longest
  <2>1. PICK n \in 0..Longest : s \in [1..n -> Blocks]
    BY <1>1 DEF Contents
  <2> QED BY <2>1, FileAssumption
<1>2. ASSUME s \in Seq(Blocks), Len(s) <= Longest PROVE s \in Contents
  <2>1. Len(s) \in 0..Longest /\ s \in [1..Len(s) -> Blocks]
    BY <1>2, FileAssumption
  <2> DEFINE C(n) == [1..n -> Blocks]
  <2>2. s \in C(Len(s))
    BY <2>1
  <2> HIDE DEF C
  <2>3. s \in UNION {C(n) : n \in 0..Longest}
    BY <2>1, <2>2
  <2> QED BY <2>3 DEF Contents, C
<1> QED BY <1>1, <1>2

LEMMA EmptyContent == <<>> \in Contents /\ Len(<<>>) = 0
<1>1. <<>> \in Seq(Blocks) /\ Len(<<>>) = 0 /\ 0 <= Longest
  BY FileAssumption
<1> QED BY <1>1, ContentsAreShort

-----------------------------------------------------------------------------
(* The inductive invariant.                                                *)

\* The target is a sequence, at least as long as what is written.
DiskIsSeq == disk \in Seq(Blocks \cup {"old"})

\* A body that has ended has all the source had, and the reader is done.
BodyEnded == eof => reader = "ended" /\ sent = Len(read)

\* The progress is throttled only below the size of the file.
ShownToTheEnd == sent >= size => shown = sent

\* The channel of the writer is open as long as the handler takes the body.
ChannelHeld == txOpen <=> handler = "body"

\* What is on the disk, up to the writer's position, is what was read; and the
\* writer says ok when that is all there was to come, of the size offered.
WriterInOrder ==
    /\ writer # "ended" <=> fileResult = "none"
    /\ writer \in {"none", "opening"} => written = 0
    /\ writer = "writing" \/ fileResult = "ok" =>
        /\ written <= Len(disk) /\ written <= size
        /\ \A i \in 1..written : disk[i] = read[i]
    /\ fileResult = "ok" =>
        /\ written = size /\ written = got /\ ~txOpen
        /\ Len(disk) > size => trimmed = "failed"

\* Nothing is decided or told before the handler has the writer's result; what
\* is decided stands for a whole body.
HandlerInOrder ==
    /\ handler = "asking" => writer = "none" /\ got = 0
    /\ handler \in {"asking", "body", "waiting"} => outcome = "none" /\ fileTold = "none"
    /\ handler \in {"body", "waiting"} => writer # "none"
    /\ handler \in {"done", "answered"} => outcome # "none"
    /\ handler = "waiting" /\ ~stopped => eof /\ got = sent
    /\ outcome \in {"ok", "mismatch"} => fileResult = "ok"
    /\ outcome = "ok" => eof /\ got = sent /\ (checksum => Intact)

\* The application is told that the file is saved if the outcome is ok, and
\* only then; the sender hears this outcome.
OneVerdict ==
    /\ fileTarget = "app" => fileTold = "none"
    /\ fileTarget # "app" => (fileTold = "ok" <=> outcome = "ok")
    /\ answer \in Outcomes => answer = outcome /\ handler = "answered"

StreamInv ==
    /\ FileTypeOK /\ DiskIsSeq /\ BodyEnded /\ ShownToTheEnd
    /\ ChannelHeld /\ WriterInOrder /\ HandlerInOrder /\ OneVerdict
-----------------------------------------------------------------------------
LEMMA StreamInitInv == FileInit => StreamInv
<1> SUFFICES ASSUME FileInit PROVE StreamInv
  OBVIOUS
<1> USE FileAssumption
<1>1. PICK n \in 0..Longest : disk = [i \in 1..n |-> "old"]
  BY DEF FileInit
<1>2. disk \in Seq(Blocks \cup {"old"}) /\ Len(disk) = n /\ \A i \in DOMAIN disk : disk[i] = "old"
  BY <1>1
<1>3. read \in Contents /\ Len(read) = 0
  BY EmptyContent DEF FileInit
<1>4. FileTypeOK
  <2>1. Len(disk) <= Longest /\ \A i \in DOMAIN disk : disk[i] \in Blocks \cup {"old"}
    BY <1>2
  <2>2. sent \in 0..Len(read) /\ shown \in 0..sent /\ got \in 0..sent /\ written \in 0..got
    BY <1>3 DEF FileInit
  <2>3. reader \in {"opening", "reading", "ended"}
    BY DEF FileInit, FirstReader
  <2>4. attempt \in 1..MaxAttempts
    BY DEF FileInit
  <2> QED BY <1>3, <2>1, <2>2, <2>3, <2>4 DEF FileInit, FileTypeOK
<1>5. DiskIsSeq /\ BodyEnded /\ ShownToTheEnd /\ ChannelHeld
  BY <1>2, <1>3 DEF FileInit, DiskIsSeq, BodyEnded, ShownToTheEnd, ChannelHeld
<1>6. WriterInOrder /\ HandlerInOrder /\ OneVerdict
  BY <1>2, <1>3 DEF FileInit, WriterInOrder, HandlerInOrder, OneVerdict, Outcomes
<1> QED BY <1>4, <1>5, <1>6 DEF StreamInv

\* The steps of the sender before it retries leave the receiver alone.
LEMMA SenderStep ==
    ASSUME StreamInv, Sender \/ Break \/ CancelSending \/ GetAnswer
    PROVE  StreamInv'
<1> USE FileAssumption DEF StreamInv, offer, senderVars, handlerVars, writerVars
<1>1. CASE OpenSource
  BY <1>1 DEF OpenSource, FileTypeOK, DiskIsSeq, BodyEnded, ShownToTheEnd, ChannelHeld,
              WriterInOrder, HandlerInOrder, OneVerdict, Intact
<1>2. ASSUME NEW b \in Blocks, ReadBlock(b) PROVE StreamInv'
  <2>1. read \in Seq(Blocks) /\ Len(read) < Longest /\ read' = Append(read, b)
    BY <1>2, ContentsAreShort DEF ReadBlock, FileTypeOK
  <2>2. /\ read' \in Seq(Blocks) /\ Len(read') = Len(read) + 1
        /\ \A i \in 1..Len(read) : read'[i] = read[i]
    BY <2>1
  <2>3. read' \in Contents
    <3>1. Len(read') <= Longest
      BY <2>1, <2>2, FileAssumption
    <3> QED BY <2>2, <3>1, ContentsAreShort
  <2>4. FileTypeOK'
    BY <1>2, <2>2, <2>3 DEF ReadBlock, FileTypeOK
  <2>5. ~eof
    BY <1>2 DEF ReadBlock, BodyEnded
  <2>6. written \in 0..Len(read)
    BY <2>1 DEF FileTypeOK
  <2>7. WriterInOrder'
    BY <1>2, <2>2, <2>6 DEF ReadBlock, WriterInOrder
  <2>8. HandlerInOrder'
    BY <1>2, <2>5 DEF ReadBlock, HandlerInOrder
  <2> QED BY <1>2, <2>4, <2>5, <2>7, <2>8
          DEF ReadBlock, DiskIsSeq, BodyEnded, ShownToTheEnd, ChannelHeld, OneVerdict
<1>3. CASE EndReading
  BY <1>3 DEF EndReading, FileTypeOK, DiskIsSeq, BodyEnded, ShownToTheEnd, ChannelHeld,
              WriterInOrder, HandlerInOrder, OneVerdict, Intact
<1>4. CASE SendBlock
  <2>1. ~eof
    BY <1>4 DEF SendBlock, BodyEnded, FileTypeOK
  <2>2. /\ size \in Nat /\ sent \in Nat /\ got \in 0..sent /\ sent + 1 \in 0..Len(read)
        /\ shown \in 0..sent /\ sent' = sent + 1 /\ shown' \in {sent + 1, shown}
        /\ sent + 1 >= size => shown' = sent + 1
    BY <1>4, ContentsAreShort DEF SendBlock, FileTypeOK, Emits
  <2>3. FileTypeOK' /\ ShownToTheEnd'
    BY <1>4, <2>2 DEF SendBlock, FileTypeOK, ShownToTheEnd
  <2>4. HandlerInOrder'
    BY <1>4, <2>1 DEF SendBlock, HandlerInOrder, Intact
  <2> QED BY <1>4, <2>1, <2>3, <2>4
          DEF SendBlock, DiskIsSeq, BodyEnded, ChannelHeld, WriterInOrder, OneVerdict
<1>5. CASE EndBody
  BY <1>5 DEF EndBody, FileTypeOK, DiskIsSeq, BodyEnded, ShownToTheEnd, ChannelHeld,
              WriterInOrder, HandlerInOrder, OneVerdict, Intact
<1>6. CASE Break
  BY <1>6 DEF Break, FileTypeOK, DiskIsSeq, BodyEnded, ShownToTheEnd, ChannelHeld,
              WriterInOrder, HandlerInOrder, OneVerdict, Intact
<1>7. CASE CancelSending \/ GetAnswer
  BY <1>7, SMTT(30) DEF CancelSending, GetAnswer, FileTypeOK, DiskIsSeq, BodyEnded, ShownToTheEnd, ChannelHeld,
              WriterInOrder, HandlerInOrder, OneVerdict, Intact, Outcomes
<1> QED BY <1>1, <1>2, <1>3, <1>4, <1>5, <1>6, <1>7 DEF Sender

\* The next attempt starts afresh, over the target the last one left.
LEMMA RetryStep == ASSUME StreamInv, Retry PROVE StreamInv'
<1> USE FileAssumption DEF StreamInv, offer
<1>1. read' \in Contents /\ Len(read') = 0
  BY EmptyContent DEF Retry
<1>2. FileTypeOK'
  <2>1. attempt' \in 1..MaxAttempts
    BY DEF Retry, Retryable, FileTypeOK
  <2>2. reader' \in {"opening", "reading", "ended"}
    BY DEF Retry, FirstReader
  <2>3. sent' \in 0..Len(read') /\ shown' \in 0..sent' /\ got' \in 0..sent' /\ written' \in 0..got'
    BY <1>1 DEF Retry
  <2> QED BY <1>1, <2>1, <2>2, <2>3 DEF Retry, FileTypeOK
<1>3. DiskIsSeq' /\ BodyEnded' /\ ShownToTheEnd' /\ ChannelHeld'
  BY <1>1 DEF Retry, DiskIsSeq, BodyEnded, ShownToTheEnd, ChannelHeld
<1>4. WriterInOrder' /\ HandlerInOrder' /\ OneVerdict'
  BY DEF Retry, WriterInOrder, HandlerInOrder, OneVerdict, Outcomes
<1> QED BY <1>2, <1>3, <1>4

LEMMA HandlerStep ==
    ASSUME StreamInv,
           GiveTarget \/ FailTarget \/ Handler \/ DropHandler
    PROVE  StreamInv'
<1> USE FileAssumption DEF StreamInv, offer, senderVars, handlerVars, writerVars
<1>1. CASE GiveTarget
  <2>1. CASE handler = "gone"
    BY <1>1, <2>1 DEF GiveTarget, Tells, FileTypeOK, DiskIsSeq, BodyEnded, ShownToTheEnd,
                      ChannelHeld, WriterInOrder, HandlerInOrder, OneVerdict, Intact
  <2>2. CASE handler = "asking"
    <3>1. /\ handler' = "body" /\ txOpen' = TRUE /\ writer' \in {"opening", "writing"}
          /\ written = 0 /\ fileResult = "none" /\ outcome = "none" /\ answer \notin Outcomes
          /\ UNCHANGED <<offer, attempt, senderVars, answer, link, got, stopped, outcome, fileTold,
                         written, fileResult, disk, trimmed>>
      BY <1>1, <2>2 DEF GiveTarget, FirstWriter, WriterInOrder, HandlerInOrder, OneVerdict
    <3>2. 0 <= Len(disk) /\ 0 <= size
      BY DEF DiskIsSeq, FileTypeOK
    <3>3. FileTypeOK'
      BY <3>1 DEF FileTypeOK
    <3>4. WriterInOrder'
      BY <3>1, <3>2 DEF WriterInOrder
    <3>5. HandlerInOrder' /\ OneVerdict'
      BY <2>2, <3>1 DEF HandlerInOrder, OneVerdict
    <3> QED BY <3>1, <3>3, <3>4, <3>5 DEF DiskIsSeq, BodyEnded, ShownToTheEnd, ChannelHeld
  <2> QED BY <1>1, <2>1, <2>2 DEF GiveTarget
<1>2. CASE FailTarget
  BY <1>2 DEF FailTarget, FileTypeOK, DiskIsSeq, BodyEnded, ShownToTheEnd,
              ChannelHeld, WriterInOrder, HandlerInOrder, OneVerdict, Intact, Outcomes
<1>3. CASE TakeFrame
  <2>1. got \in Nat /\ got + 1 \in 0..sent /\ got' = got + 1 /\ handler = "body"
    BY <1>3, ContentsAreShort DEF TakeFrame, FileTypeOK
  <2>2. fileResult # "ok" /\ outcome = "none"
    BY <2>1 DEF ChannelHeld, WriterInOrder, HandlerInOrder
  <2>3. FileTypeOK'
    BY <1>3, <2>1 DEF TakeFrame, FileTypeOK
  <2> QED BY <1>3, <2>1, <2>2, <2>3
          DEF TakeFrame, DiskIsSeq, BodyEnded, ShownToTheEnd,
              ChannelHeld, WriterInOrder, HandlerInOrder, OneVerdict
<1>4. CASE StopBody
  <2>1. /\ handler = "body" /\ handler' = "waiting" /\ txOpen' = FALSE /\ stopped' \in BOOLEAN
        /\ ~stopped' => eof /\ got = sent
        /\ UNCHANGED <<offer, attempt, senderVars, answer, link, got, outcome, fileTold,
                       writer, written, fileResult, disk, trimmed>>
    BY <1>4 DEF StopBody, EndsBody
  <2>2. FileTypeOK'
    <3>1. /\ read' \in Contents /\ sent' \in 0..Len(read') /\ shown' \in 0..sent'
          /\ got' \in 0..sent' /\ written' \in 0..got'
      BY <2>1 DEF FileTypeOK
    <3>2. Len(disk') <= Longest /\ \A i \in DOMAIN disk' : disk'[i] \in Blocks \cup {"old"}
      BY <2>1 DEF FileTypeOK
    <3>3. stopped' \in BOOLEAN /\ txOpen' \in BOOLEAN /\ eof' \in BOOLEAN /\ checksum' \in BOOLEAN
      BY <2>1 DEF FileTypeOK
    <3> QED BY <2>1, <3>1, <3>2, <3>3 DEF FileTypeOK
  <2>3. WriterInOrder'
    BY <2>1 DEF WriterInOrder
  <2>4. HandlerInOrder' /\ OneVerdict'
    BY <2>1 DEF HandlerInOrder, OneVerdict
  <2> QED BY <2>1, <2>2, <2>3, <2>4 DEF DiskIsSeq, BodyEnded, ShownToTheEnd, ChannelHeld
<1>5. CASE Conclude
  <2>1. /\ Outcome \in Outcomes
        /\ Outcome \in {"ok", "mismatch"} => fileResult = "ok" /\ ~stopped
        /\ Outcome = "ok" => (checksum => Intact)
    BY DEF Outcome, Outcomes
  <2>2. /\ outcome' = Outcome /\ handler' = "done" /\ handler = "waiting"
        /\ fileTold = "none" /\ outcome = "none"
        /\ fileTold' = IF fileTarget = "app" THEN fileTold ELSE IF Outcome = "ok" THEN "ok" ELSE "error"
    BY <1>5 DEF Conclude, Reports, Tells, HandlerInOrder
  <2>3. FileTypeOK'
    BY <1>5, <2>1, <2>2 DEF Conclude, FileTypeOK
  <2>4. HandlerInOrder'
    BY <1>5, <2>1, <2>2 DEF Conclude, HandlerInOrder, Intact, Outcomes
  <2>5. OneVerdict'
    BY <1>5, <2>1, <2>2 DEF Conclude, OneVerdict
  <2> QED BY <1>5, <2>2, <2>3, <2>4, <2>5
          DEF Conclude, DiskIsSeq, BodyEnded, ShownToTheEnd, ChannelHeld, WriterInOrder
<1>6. CASE Reply
  BY <1>6 DEF Reply, FileTypeOK, DiskIsSeq, BodyEnded, ShownToTheEnd,
              ChannelHeld, WriterInOrder, HandlerInOrder, OneVerdict, Intact
<1>7. CASE DropHandler
  <2>1. /\ handler \notin {"answered", "gone"} /\ handler' = "gone" /\ txOpen' = FALSE
        /\ \/ fileTold' = fileTold
           \/ fileTold = "none" /\ fileTold' = IF fileTarget = "app" THEN fileTold ELSE "error"
        /\ UNCHANGED <<offer, attempt, senderVars, answer, link, got, stopped, outcome,
                       writer, written, fileResult, disk, trimmed>>
    BY <1>7 DEF DropHandler, Tells
  <2>2. FileTypeOK'
    <3>1. /\ read' \in Contents /\ sent' \in 0..Len(read') /\ shown' \in 0..sent'
          /\ got' \in 0..sent' /\ written' \in 0..got'
      BY <2>1 DEF FileTypeOK
    <3>2. Len(disk') <= Longest /\ \A i \in DOMAIN disk' : disk'[i] \in Blocks \cup {"old"}
      BY <2>1 DEF FileTypeOK
    <3>3. stopped' \in BOOLEAN /\ txOpen' \in BOOLEAN /\ eof' \in BOOLEAN /\ checksum' \in BOOLEAN
      BY <2>1 DEF FileTypeOK
    <3> QED BY <2>1, <3>1, <3>2, <3>3 DEF FileTypeOK
  <2>3. WriterInOrder'
    BY <2>1 DEF WriterInOrder
  <2>4. HandlerInOrder'
    BY <2>1 DEF HandlerInOrder, Intact
  <2>5. OneVerdict'
    BY <2>1 DEF OneVerdict
  <2> QED BY <2>1, <2>2, <2>3, <2>4, <2>5 DEF DiskIsSeq, BodyEnded, ShownToTheEnd, ChannelHeld
<1> QED BY <1>1, <1>2, <1>3, <1>4, <1>5, <1>6, <1>7 DEF Handler

LEMMA WriterStep == ASSUME StreamInv, Writer PROVE StreamInv'
<1> USE FileAssumption DEF StreamInv, offer, senderVars, handlerVars
<1>1. written \in Nat /\ got \in Nat /\ written <= got /\ got <= Len(read) /\ size \in 0..Longest
  BY ContentsAreShort DEF FileTypeOK
<1>2. CASE OpenTarget
  <2>1. disk' \in Seq(Blocks \cup {"old"}) /\ Len(disk') <= Longest
    <3>1. <<>> \in Seq(Blocks \cup {"old"}) /\ Len(<<>>) <= Longest
      OBVIOUS
    <3> QED BY <1>2, <3>1 DEF OpenTarget, DiskIsSeq, FileTypeOK
  <2>2. FileTypeOK'
    BY <1>2, <2>1 DEF OpenTarget, WriterEnds, FileTypeOK
  <2>3. WriterInOrder'
    BY <1>1, <1>2 DEF OpenTarget, WriterEnds, WriterInOrder
  <2> QED BY <1>2, <2>1, <2>2, <2>3
          DEF OpenTarget, WriterEnds, DiskIsSeq, BodyEnded, ShownToTheEnd, ChannelHeld,
              WriterInOrder, HandlerInOrder, OneVerdict, Intact
<1>3. CASE WriteBlock
  <2>1. /\ written + 1 \in 1..Len(read) /\ read[written + 1] \in Blocks
        /\ fileResult = "none" /\ written <= Len(disk) /\ written' = written + 1
        /\ \A i \in 1..written : disk[i] = read[i]
    <3>1. read \in Seq(Blocks)
      BY ContentsAreShort DEF FileTypeOK
    <3> QED BY <1>1, <1>3, <3>1 DEF WriteBlock, WriterInOrder
  <2>2. CASE ~TooMuch /\ disk' = Overwritten(read[written + 1]) /\ UNCHANGED <<writer, fileResult>>
    <3> DEFINE b == read[written + 1]
    <3>1. /\ disk' \in Seq(Blocks \cup {"old"}) /\ Len(disk') <= Longest
          /\ written + 1 <= Len(disk') /\ disk'[written + 1] = b
          /\ \A i \in 1..written : disk'[i] = disk[i]
      <4> HIDE DEF b
      <4>0. disk \in Seq(Blocks \cup {"old"}) /\ b \in Blocks /\ Len(disk) <= Longest
        BY <2>1 DEF DiskIsSeq, FileTypeOK, b
      <4>1. CASE written < Len(disk)
        <5>1. disk' = [disk EXCEPT ![written + 1] = b]
          BY <2>2, <4>1 DEF Overwritten, b
        <5> QED BY <1>1, <4>0, <4>1, <5>1
      <4>2. CASE ~(written < Len(disk))
        <5>1. disk' = Append(disk, b) /\ Len(disk) = written
          BY <1>1, <2>1, <2>2, <4>0, <4>2 DEF Overwritten, b
        <5>2. written < size
          BY <1>1, <2>2 DEF TooMuch
        <5> QED BY <1>1, <4>0, <5>1, <5>2
      <4> QED BY <4>1, <4>2
    <3>2. FileTypeOK'
      BY <1>1, <1>3, <2>1, <2>2, <3>1 DEF WriteBlock, FileTypeOK
    <3>3. WriterInOrder'
      <4>1. /\ written + 1 <= Len(disk') /\ written + 1 <= size /\ size' = size
            /\ writer' = "writing" /\ fileResult' = "none" /\ read' = read
        BY <1>1, <1>3, <2>1, <2>2, <3>1 DEF WriteBlock, TooMuch
      <4>2. \A i \in 1..written + 1 : disk'[i] = read[i]
        BY <1>1, <2>1, <3>1, SMTT(30)
      <4> QED BY <2>1, <4>1, <4>2 DEF WriterInOrder
    <3> QED BY <1>3, <2>2, <3>1, <3>2, <3>3
            DEF WriteBlock, DiskIsSeq, BodyEnded, ShownToTheEnd, ChannelHeld,
                HandlerInOrder, OneVerdict, Intact
  <2>3. CASE WriterEnds("failed") /\ UNCHANGED disk
    <3>1. FileTypeOK'
      BY <1>1, <1>3, <2>1, <2>3 DEF WriteBlock, WriterEnds, FileTypeOK
    <3> QED BY <1>3, <2>1, <2>3, <3>1
            DEF WriteBlock, WriterEnds, DiskIsSeq, BodyEnded, ShownToTheEnd, ChannelHeld,
                WriterInOrder, HandlerInOrder, OneVerdict, Intact
  <2> QED BY <1>3, <2>2, <2>3 DEF WriteBlock
<1>4. CASE EndWriting
  <2>1. /\ writer = "writing" /\ fileResult = "none" /\ written = got /\ ~txOpen
        /\ written <= Len(disk) /\ written <= size
        /\ \A i \in 1..written : disk[i] = read[i]
    BY <1>4 DEF EndWriting, WriterInOrder
  <2>2. CASE /\ RightSize /\ WriterEnds("ok")
             /\ disk' = Prefix(disk, written) /\ trimmed' = "done"
    <3>1. /\ disk' \in Seq(Blocks \cup {"old"}) /\ Len(disk') = written
          /\ \A i \in 1..written : disk'[i] = disk[i]
      BY <1>1, <2>1, <2>2 DEF Prefix, DiskIsSeq
    <3>2. FileTypeOK'
      <4>1. Len(disk') <= Longest /\ \A i \in DOMAIN disk' : disk'[i] \in Blocks \cup {"old"}
        BY <1>1, <2>1, <3>1 DEF FileTypeOK
      <4> QED BY <1>4, <2>2, <4>1 DEF EndWriting, WriterEnds, FileTypeOK
    <3>3. WriterInOrder'
      BY <1>1, <1>4, <2>1, <2>2, <3>1 DEF EndWriting, WriterEnds, WriterInOrder, RightSize
    <3> QED BY <1>4, <2>1, <2>2, <3>1, <3>2, <3>3
            DEF EndWriting, WriterEnds, DiskIsSeq, BodyEnded, ShownToTheEnd, ChannelHeld,
                HandlerInOrder, OneVerdict, Intact
  <2>3. CASE /\ \/ RightSize /\ WriterEnds("ok") /\ trimmed' = "failed"
                \/ WriterEnds("failed") /\ UNCHANGED trimmed
             /\ UNCHANGED disk
    <3>1. FileTypeOK'
      BY <1>4, <2>3 DEF EndWriting, WriterEnds, FileTypeOK
    <3>2. WriterInOrder'
      BY <1>1, <1>4, <2>1, <2>3 DEF EndWriting, WriterEnds, WriterInOrder, RightSize
    <3> QED BY <1>4, <2>1, <2>3, <3>1, <3>2
            DEF EndWriting, WriterEnds, DiskIsSeq, BodyEnded, ShownToTheEnd, ChannelHeld,
                HandlerInOrder, OneVerdict, Intact
  <2> QED BY <1>4, <2>2, <2>3 DEF EndWriting
<1> QED BY <1>2, <1>3, <1>4 DEF Writer

LEMMA StreamInvStep == StreamInv /\ [FileNext]_fileVars => StreamInv'
<1>1. CASE UNCHANGED fileVars
  BY <1>1 DEF StreamInv, fileVars, offer, senderVars, handlerVars,
              writerVars, FileTypeOK, DiskIsSeq, BodyEnded, ShownToTheEnd, ChannelHeld,
              WriterInOrder, HandlerInOrder, OneVerdict, Intact
<1> QED BY <1>1, SenderStep, RetryStep, HandlerStep, WriterStep DEF FileNext

LEMMA StreamInvariant == FileSpec => []StreamInv
<1> QED BY StreamInitInv, StreamInvStep, PTL DEF FileSpec

-----------------------------------------------------------------------------
\* What is reported as sent has been written by the other side: SuccessIsTheFile
\* holds of every size, queue and number of attempts.  The answer is the outcome
\* of the handler (OneVerdict), which is ok only for a whole body whose writer
\* said ok (HandlerInOrder), which means that it is through and that the blocks
\* read are in the target (WriterInOrder).
THEOREM SuccessIsSaved == FileSpec => []SuccessIsTheFile
<1>1. StreamInv => SuccessIsTheFile
  <2> SUFFICES ASSUME StreamInv PROVE SuccessIsTheFile
    OBVIOUS
  <2> SUFFICES ASSUME answer = "ok"
               PROVE  /\ Len(read) = size /\ shown = size
                      /\ checksum => Intact
                      /\ writer = "ended"
                      /\ Prefix(disk, size) = read
                      /\ Len(disk) > size => trimmed = "failed"
    BY DEF StreamInv, SuccessIsTheFile
  <2>1. outcome = "ok" /\ fileResult = "ok" /\ eof /\ got = sent /\ (checksum => Intact)
    BY DEF StreamInv, OneVerdict, HandlerInOrder, Outcomes
  <2>2. /\ Len(read) = size /\ written = size /\ writer = "ended"
        /\ size <= Len(disk) /\ \A i \in 1..size : disk[i] = read[i]
        /\ Len(disk) > size => trimmed = "failed"
    BY <2>1 DEF StreamInv, BodyEnded, WriterInOrder
  <2>3. shown = size
    BY <2>1, <2>2 DEF StreamInv, BodyEnded, ShownToTheEnd
  <2>4. read \in Seq(Blocks) /\ size \in Nat
    BY ContentsAreShort, FileAssumption DEF StreamInv, FileTypeOK
  <2>5. Prefix(disk, size) = read
    BY <2>2, <2>4 DEF StreamInv, DiskIsSeq, Prefix
  <2> QED BY <2>1, <2>2, <2>3, <2>5
<1> QED BY <1>1, StreamInvariant, PTL

\* Sender and receiver agree, PeersAgree: both hear the one outcome.
THEOREM PeersDoAgree == FileSpec => []PeersAgree
<1>1. StreamInv => PeersAgree
  BY DEF StreamInv, PeersAgree, OneVerdict, Outcomes
<1> QED BY <1>1, StreamInvariant, PTL

\* A file the application was told is saved is left alone, SavedStays: its
\* writer has ended, its handler has nothing more to tell, and its sender got an
\* answer after which it does not try again.
THEOREM SavedFilesStay == FileSpec => SavedStays
<1>1. StreamInv /\ [FileNext]_fileVars => [fileTold = "ok" => UNCHANGED <<disk, fileTold>>]_fileVars
  <2> SUFFICES ASSUME StreamInv, FileNext, fileTold = "ok" PROVE UNCHANGED <<disk, fileTold>>
    BY DEF fileVars, handlerVars, writerVars
  <2>1. outcome = "ok" /\ writer = "ended" /\ handler \notin {"asking", "body", "waiting"}
    BY DEF StreamInv, OneVerdict, HandlerInOrder, WriterInOrder
  <2>2. ~Retry
    BY <2>1 DEF StreamInv, OneVerdict, Retry, Retryable, Outcomes
  <2> QED BY <2>1, <2>2 DEF FileNext, Sender, Handler, Writer, OpenSource, ReadBlock, EndReading,
          SendBlock, EndBody, Break, CancelSending, GetAnswer, GiveTarget, FailTarget, TakeFrame,
          StopBody, Conclude, Reply, DropHandler, OpenTarget, WriteBlock, EndWriting,
          handlerVars, writerVars
<1> QED BY <1>1, StreamInvariant, PTL DEF FileSpec, SavedStays

-----------------------------------------------------------------------------
(* No two tasks of an upload wait for each other.                          *)

\* The sender: its reader, its body, its client, the next attempt.
SenderGoesOn ==
    \/ reader # "ended"
    \/ ~BodyDropped /\ sent < Len(read) /\ sent - got < Capacity
    \/ ~BodyDropped /\ sent = Len(read) /\ ~eof
    \/ answer = "none" /\ (link = "broken" \/ handler = "answered")
    \/ Retryable

\* The receiver: its application, its handler, its writer.
ReceiverGoesOn ==
    \/ handler \in {"asking", "done"}
    \/ handler = "body" /\ \/ got < sent /\ (writer = "ended" \/ got - written < Capacity)
                           \/ eof /\ got = sent
                           \/ link = "broken"
    \/ handler = "waiting" /\ writer = "ended"
    \/ writer = "opening"
    \/ writer = "writing" /\ (written < got \/ ~txOpen)

NobodyStuck == AllEnded \/ SenderGoesOn \/ ReceiverGoesOn

\* Who gave up has no connection left, and whoever is done with a target has
\* told its application.
PartingInv ==
    /\ handler = "gone" \/ answer \in {"broken", "cancelled"} => link = "broken"
    /\ handler \in {"done", "answered", "gone"} /\ writer # "none" /\ fileTarget # "app" => fileTold # "none"

LEMMA PartingStep == ASSUME StreamInv, PartingInv, [FileNext]_fileVars PROVE PartingInv'
<1> USE DEF PartingInv, offer, senderVars, handlerVars, writerVars
<1>1. handler \in {"asking", "body", "waiting", "done", "answered", "gone"} /\ link \in {"up", "broken"}
      /\ answer \in Outcomes \cup {"none", "broken", "cancelled"}
  BY DEF StreamInv, FileTypeOK
<1>2. CASE Sender
  BY <1>2 DEF Sender, OpenSource, ReadBlock, EndReading, SendBlock, EndBody
<1>3. CASE Break \/ CancelSending \/ Retry
  BY <1>3 DEF Break, CancelSending, Retry
<1>4. CASE GetAnswer
  <2>1. outcome \in Outcomes \cup {"none"} /\ outcome \notin {"broken", "cancelled"}
    BY DEF StreamInv, FileTypeOK, Outcomes
  <2> QED BY <1>4, <2>1 DEF GetAnswer
<1>5. CASE GiveTarget \/ FailTarget
  BY <1>5 DEF GiveTarget, FailTarget, Tells, StreamInv, HandlerInOrder
<1>6. CASE Handler
  <2>1. CASE TakeFrame \/ StopBody
    BY <1>1, <2>1 DEF TakeFrame, StopBody, EndsBody
  <2>2. CASE Conclude
    BY <2>2 DEF Conclude, Reports, Tells
  <2>3. CASE Reply
    BY <2>3 DEF Reply
  <2> QED BY <1>6, <2>1, <2>2, <2>3 DEF Handler
<1>7. CASE DropHandler
  BY <1>1, <1>7 DEF DropHandler, Tells
<1>8. CASE Writer
  BY <1>8 DEF Writer, OpenTarget, WriteBlock, EndWriting, WriterEnds
<1>9. CASE UNCHANGED fileVars
  BY <1>9 DEF fileVars
<1> QED BY <1>2, <1>3, <1>4, <1>5, <1>6, <1>7, <1>8, <1>9 DEF FileNext

LEMMA SomebodyGoesOn == ASSUME StreamInv, PartingInv PROVE NobodyStuck
<1> SUFFICES ASSUME ~SenderGoesOn, ~ReceiverGoesOn PROVE AllEnded
  BY DEF NobodyStuck
<1>1. /\ sent \in 0..Len(read) /\ got \in 0..sent /\ written \in 0..got /\ Capacity \in Nat \ {0}
      /\ Len(read) \in Nat
  BY ContentsAreShort, FileAssumption DEF StreamInv, FileTypeOK
<1>2. /\ handler \in {"asking", "body", "waiting", "done", "answered", "gone"}
      /\ writer \in {"none", "opening", "writing", "ended"} /\ link \in {"up", "broken"}
      /\ answer \in Outcomes \cup {"none", "broken", "cancelled"} /\ txOpen \in BOOLEAN
  BY DEF StreamInv, FileTypeOK
<1>3. reader = "ended" /\ ~Retryable
  BY DEF SenderGoesOn
\* A handler that takes the body would have a frame, or its end, or an error.
<1>4. handler # "body"
  <2> SUFFICES ASSUME handler = "body" PROVE FALSE
    OBVIOUS
  <2>1. writer \in {"writing", "ended"}
    BY <1>2 DEF StreamInv, HandlerInOrder, ReceiverGoesOn
  <2>2. writer = "writing" => written = got
    BY <1>1 DEF ReceiverGoesOn
  <2>3. got = sent /\ ~eof /\ link # "broken"
    BY <1>1, <2>1, <2>2 DEF ReceiverGoesOn
  <2>4. ~BodyDropped
    BY <1>2, <2>3 DEF BodyDropped, StreamInv, OneVerdict, PartingInv
  <2>5. sent < Len(read) \/ sent = Len(read)
    BY <1>1
  <2> QED BY <1>1, <2>3, <2>4, <2>5 DEF SenderGoesOn
\* Without it the channel is closed, so the writer comes to its end.
<1>5. writer \in {"none", "ended"}
  BY <1>2, <1>4 DEF StreamInv, ChannelHeld, ReceiverGoesOn
<1>6. handler \in {"answered", "gone"}
  BY <1>2, <1>4, <1>5 DEF StreamInv, HandlerInOrder, ReceiverGoesOn
<1>7. answer # "none"
  BY <1>6 DEF PartingInv, SenderGoesOn
<1> QED BY <1>3, <1>5, <1>6, <1>7 DEF AllEnded, PartingInv

\* Until all of them have ended, one of the tasks has what it waits for,
\* however full the queues are and wherever the connection broke: what Concludes
\* needs beyond fairness.  The channel of the writer is the place where it could
\* go wrong, which save_req_to_target closes before it waits for the result.
THEOREM UploadsGoOn == FileSpec => []NobodyStuck
<1>1. FileInit => PartingInv
  BY DEF FileInit, PartingInv
<1>2. StreamInv /\ PartingInv /\ [FileNext]_fileVars => PartingInv'
  BY PartingStep
<1>3. StreamInv /\ PartingInv => NobodyStuck
  BY SomebodyGoesOn
<1> QED BY <1>1, <1>2, <1>3, StreamInvariant, PTL DEF FileSpec
=============================================================================
