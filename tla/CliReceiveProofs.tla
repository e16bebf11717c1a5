--------------------------- MODULE CliReceiveProofs ---------------------------
(***************************************************************************)
(* Theorems about CliReceive, for any sessions, files and attempts.        *)
(***************************************************************************)
EXTENDS CliReceive, FiniteSetTheorems, TLAPS

-----------------------------------------------------------------------------
(* The inductive invariant.                                                *)

Kinds   == {"prepare", "aborted", "upload", "finished", "cancelled"}
Events  == [kind : Kinds, session : Session, file : File \cup {None}]
Results == [key : Key, try : 1..MaxTries, result : {"ok", "err"}]
Lines   == [how : {"finished", "cancelled", "cancelled here"}, finished : Nat]

QueuesTyped ==
    /\ serverRx \in Seq(Events)
    /\ results \subseteq Results
    /\ summary \in [Session -> Seq(Lines)]

\* The abort of a request is told after the request.
AbortedIsClosed ==
    \A i \in DOMAIN serverRx :
        serverRx[i].kind = "aborted" => request[serverRx[i].session] = "closed"

\* The request that waits is the last of which the application is, or was, told.
AskedLast ==
    \A s \in Session :
        request[s] = "pending" =>
            \/ pending = s /\ \A i \in DOMAIN serverRx : serverRx[i].kind # "prepare"
            \/ \E i \in DOMAIN serverRx :
                    /\ serverRx[i] = Event("prepare", s, None)
                    /\ \A j \in DOMAIN serverRx : serverRx[j].kind = "prepare" => j <= i

\* An upload belongs to a session that has started, and the same file cannot
\* be uploaded until it has ended.
UploadsStarted ==
    \A k \in Key :
        /\ up[k] # "none" => request[k[1]] = "active" /\ status[k] # "pending" /\ tries[k] > 0
        /\ status[k] = "pending" => tries[k] < MaxTries
        /\ k \in saved => request[k[1]] = "active" /\ status[k] # "pending" /\ up[k] \in {"ok", "none"}

\* The application has one event to come of an upload that waits for it.
AnnouncedOnce ==
    /\ \A i \in DOMAIN serverRx :
        serverRx[i].kind = "upload" =>
            \E k \in Key : /\ serverRx[i] = Event("upload", k[1], k[2])
                           /\ up[k] \in {"asked", "dropped"}
    /\ \A i, j \in DOMAIN serverRx :
        serverRx[i].kind = "upload" /\ serverRx[i] = serverRx[j] => i = j

\* Uploads whose result is still to come.
Live == {"admitted", "asked", "target", "dropped"}

\* An attempt has one result, and it is over by then; a file is saved once.
ResultsOnce ==
    /\ \A m \in results :
        /\ request[m.key[1]] = "active"
        /\ m.try <= tries[m.key]
        /\ m.try = tries[m.key] => up[m.key] \notin Live
        /\ m.result = "ok" => m.key \in saved
    /\ \A m, n \in results :
        m.key = n.key /\ (m.try = n.try \/ (m.result = "ok" /\ n.result = "ok")) => m = n

\* A session is received from the decision on, once, up to its closing line.
ReceivedOnce ==
    /\ receive.session = None => receive = NoReceive
    /\ \A s \in Session :
        /\ request[s] \in {"none", "pending"} => receive.session # s /\ summary[s] = <<>>
        /\ receive.session = s => summary[s] = <<>>
        /\ Len(summary[s]) <= 1

\* The files of s that were saved and whose result has been taken.
Counted(s) ==
    {f \in SavedOf(s) : \A m \in results : m.key = <<s, f>> => m.result # "ok"}

\* The attempts that have come to an end without a result that is under way.
Told ==
    {p \in Key \X (1..MaxTries) :
        /\ p[2] <= tries[p[1]]
        /\ p[2] = tries[p[1]] => up[p[1]] \notin Live
        /\ \A m \in results : m.key = p[1] => m.try # p[2]}

CountsRight ==
    /\ \A s \in Session : receive.session = s => receive.finished = Cardinality(Counted(s))
    /\ receive.failed <= Cardinality(Told)

\* A file is busy from its upload event until its result is taken.
BusyUntilTold ==
    \A k \in Key :
        receive.session = k[1] /\ tries[k] <= 1 /\ (up[k] = "target" \/ \E m \in results : m.key = k)
        => k[2] \in receive.busy

Once(s) == \A f \in FilesOf[s] : tries[<<s, f>>] <= 1

\* No file of s can be saved any more when the closing line is written.
LinesExact ==
    \A s \in Session : \A i \in EndLines(s) :
        Once(s) => /\ summary[s][i].finished = Cardinality(SavedOf(s))
                   /\ \A f \in FilesOf[s] : up[<<s, f>>] # "target"

ServerInv == UploadsStarted /\ AnnouncedOnce /\ ResultsOnce
AppInv    == ReceivedOnce /\ CountsRight /\ BusyUntilTold /\ LinesExact
IInv == TypeOK /\ QueuesTyped /\ AbortedIsClosed /\ AskedLast /\ ServerInv /\ AppInv

-----------------------------------------------------------------------------
(* What is finite, and what is typed.                                      *)

LEMMA KeyPairs ==
    /\ \A k \in Key : k[1] \in Session /\ k[2] \in File /\ k[2] \in FilesOf[k[1]] /\ k = <<k[1], k[2]>>
    /\ \A s \in Session : \A f \in FilesOf[s] : f \in File /\ <<s, f>> \in Key
  BY ConstantsAssumption DEF Key

LEMMA KeysFinite == IsFiniteSet(Key) /\ Cardinality(Key) \in Nat /\ Cardinality(File) \in Nat
<1>1. IsFiniteSet(Session \X File)
  BY FS_Product, ConstantsAssumption
<1>2. Key \subseteq Session \X File
  BY DEF Key
<1> QED BY <1>1, <1>2, FS_Subset, FS_CardinalityType, ConstantsAssumption

\* What the application can count.
LEMMA FilesFinite ==
    ASSUME NEW T \in SUBSET File
    PROVE  IsFiniteSet(T) /\ Cardinality(T) \in 0..Cardinality(File)
<1>1. IsFiniteSet(T) /\ Cardinality(T) <= Cardinality(File)
  BY FS_Subset, ConstantsAssumption
<1>2. Cardinality(T) \in Nat
  BY <1>1, FS_CardinalityType
<1> QED BY <1>1, <1>2, KeysFinite

LEMMA AttemptsFinite ==
    ASSUME NEW T \in SUBSET (Key \X (1..MaxTries))
    PROVE  IsFiniteSet(T) /\ Cardinality(T) \in 0..(Cardinality(Key) * MaxTries)
<1>1. MaxTries \in Nat /\ IsFiniteSet(1..MaxTries) /\ Cardinality(1..MaxTries) = MaxTries
  <2>1. MaxTries \in Nat
    BY ConstantsAssumption
  <2>2. 1 \in Int /\ MaxTries \in Int
    BY <2>1
  <2>3. IsFiniteSet(1..MaxTries) /\ Cardinality(1..MaxTries) = IF 1 > MaxTries THEN 0 ELSE MaxTries - 1 + 1
    BY <2>2, FS_Interval
  <2> QED BY <2>1, <2>3
<1>2. /\ IsFiniteSet(Key \X (1..MaxTries))
      /\ Cardinality(Key \X (1..MaxTries)) = Cardinality(Key) * MaxTries
  BY <1>1, KeysFinite, FS_Product
<1>3. IsFiniteSet(T) /\ Cardinality(T) <= Cardinality(Key) * MaxTries
  BY <1>2, FS_Subset
<1>4. Cardinality(T) \in Nat
  BY <1>3, FS_CardinalityType
<1>5. Cardinality(Key) * MaxTries \in Nat
  BY <1>1, KeysFinite
<1> QED BY <1>3, <1>4, <1>5

LEMMA InitInv == Init => IInv
<1> SUFFICES ASSUME Init PROVE IInv
  OBVIOUS
<1>1. NoReceive \in [session : Session \cup {None}, finished : 0..Cardinality(File),
                     failed : 0..Cardinality(Key) * MaxTries,
                     busy : SUBSET File, ended : {"none", "finished", "cancelled"}]
  <2>1. 0 \in 0..Cardinality(File) /\ 0 \in 0..Cardinality(Key) * MaxTries
    BY KeysFinite, ConstantsAssumption
  <2> QED BY <2>1 DEF NoReceive
<1>2. TypeOK
  BY <1>1, ConstantsAssumption DEF Init, TypeOK
<1>3. QueuesTyped /\ AbortedIsClosed /\ AskedLast
  <2>1. <<>> \in Seq(Events) /\ <<>> \in Seq(Lines)
    OBVIOUS
  <2> QED BY <2>1 DEF Init, QueuesTyped, AbortedIsClosed, AskedLast
<1>4. ServerInv
  BY ConstantsAssumption DEF Init, ServerInv, UploadsStarted, AnnouncedOnce, ResultsOnce
<1>5. AppInv
  <2>1. receive.session = None /\ None \notin Session /\ receive.failed = 0
    BY ConstantsAssumption DEF Init, NoReceive
  <2>2. 0 <= Cardinality(Told)
    <3>1. Told \in SUBSET (Key \X (1..MaxTries))
      BY DEF Told
    <3> QED BY <3>1, AttemptsFinite
  <2>3. \A s \in Session : summary[s] = <<>> /\ EndLines(s) = {}
    BY DEF Init, EndLines
  <2>4. ReceivedOnce
    BY <2>1, <2>3 DEF Init, ReceivedOnce
  <2> QED BY <2>1, <2>2, <2>3, <2>4 DEF AppInv, CountsRight, BusyUntilTold, LinesExact, Key
<1> QED BY <1>2, <1>3, <1>4, <1>5 DEF IInv

-----------------------------------------------------------------------------
(* What most steps keep.                                                   *)

\* A session that has started, or is over, remains so.
Moves ==
    /\ \A s \in Session : request[s] \in {"active", "closed"} => request'[s] = request[s]
    /\ \A s \in Session : request[s] \notin {"none", "pending"} => request'[s] \notin {"none", "pending"}

\* No request begins to wait, or is forgotten by the application while it waits.
KeepsAsking ==
    \A s \in Session :
        request'[s] = "pending" => request[s] = "pending" /\ (pending = s => pending' = s)

\* The uploads that wait for the application wait on, but for those of K.
KeepsWaiting(K) ==
    \A k \in Key \ K : up[k] \in {"asked", "dropped"} => up'[k] \in {"asked", "dropped"}

LEMMA QueueKept ==
    ASSUME QueuesTyped, AbortedIsClosed, AnnouncedOnce, Moves, KeepsWaiting({}), UNCHANGED serverRx
    PROVE  AbortedIsClosed' /\ AnnouncedOnce' /\ (AskedLast /\ KeepsAsking => AskedLast')
<1>1. \A i \in DOMAIN serverRx : serverRx[i] \in Events
  BY DEF QueuesTyped
<1>2. AbortedIsClosed'
  BY <1>1 DEF AbortedIsClosed, Moves, Events
<1>3. AnnouncedOnce'
  BY DEF AnnouncedOnce, KeepsWaiting
<1>4. ASSUME AskedLast, KeepsAsking PROVE AskedLast'
  BY <1>4 DEF AskedLast, KeepsAsking
<1> QED BY <1>2, <1>3, <1>4

LEMMA TailEvents ==
    ASSUME QueuesTyped, serverRx # <<>>
    PROVE  /\ Head(serverRx) \in Events /\ Head(serverRx) = serverRx[1]
           /\ Tail(serverRx) \in Seq(Events)
           /\ DOMAIN Tail(serverRx) \subseteq Nat
           /\ \A i \in DOMAIN Tail(serverRx) :
                i + 1 \in DOMAIN serverRx /\ i + 1 # 1 /\ Tail(serverRx)[i] = serverRx[i + 1]
           /\ 1 \in DOMAIN serverRx
           /\ \A i \in DOMAIN serverRx \ {1} :
                i - 1 \in DOMAIN Tail(serverRx) /\ Tail(serverRx)[i - 1] = serverRx[i]
<1>1. serverRx \in Seq(Events)
  BY DEF QueuesTyped
<1> HIDE DEF Events
<1> QED BY <1>1

LEMMA QueueTaken ==
    ASSUME QueuesTyped, AbortedIsClosed, AnnouncedOnce, Moves,
           serverRx # <<>>, serverRx' = Tail(serverRx),
           NEW K \in SUBSET Key, KeepsWaiting(K),
           \A k \in K : Head(serverRx) = Event("upload", k[1], k[2])
    PROVE  /\ serverRx' \in Seq(Events) /\ AbortedIsClosed' /\ AnnouncedOnce'
           /\ AskedLast /\ KeepsAsking /\ Head(serverRx).kind # "prepare" => AskedLast'
<1>1. AbortedIsClosed'
  <2> SUFFICES ASSUME NEW i \in DOMAIN Tail(serverRx), Tail(serverRx)[i].kind = "aborted"
               PROVE  request'[Tail(serverRx)[i].session] = "closed"
    BY DEF AbortedIsClosed
  <2>1. i + 1 \in DOMAIN serverRx /\ Tail(serverRx)[i] = serverRx[i + 1]
    BY TailEvents
  <2>2. serverRx[i + 1] \in Events
    BY <2>1 DEF QueuesTyped
  <2>3. serverRx[i + 1].session \in Session
    BY <2>2 DEF Events
  <2> QED BY <2>1, <2>3 DEF AbortedIsClosed, Moves
<1>2. AnnouncedOnce'
  <2>1. ASSUME NEW i \in DOMAIN Tail(serverRx), Tail(serverRx)[i].kind = "upload"
        PROVE  \E k \in Key : /\ Tail(serverRx)[i] = Event("upload", k[1], k[2])
                              /\ up'[k] \in {"asked", "dropped"}
    <3>1. i + 1 \in DOMAIN serverRx /\ i + 1 # 1 /\ Tail(serverRx)[i] = serverRx[i + 1]
      BY TailEvents
    <3>2. PICK k \in Key : /\ serverRx[i + 1] = Event("upload", k[1], k[2])
                           /\ up[k] \in {"asked", "dropped"}
      BY <2>1, <3>1 DEF AnnouncedOnce
    <3>3. k \notin K
      <4> SUFFICES ASSUME k \in K PROVE FALSE
        OBVIOUS
      <4>1. serverRx[1] = serverRx[i + 1] /\ 1 \in DOMAIN serverRx
        BY <3>2, TailEvents
      <4> QED BY <2>1, <3>1, <4>1 DEF AnnouncedOnce
    <3> QED BY <3>1, <3>2, <3>3 DEF KeepsWaiting
  <2>2. ASSUME NEW i \in DOMAIN Tail(serverRx), NEW j \in DOMAIN Tail(serverRx),
               Tail(serverRx)[i].kind = "upload", Tail(serverRx)[i] = Tail(serverRx)[j]
        PROVE  i = j
    <3>1. /\ i + 1 \in DOMAIN serverRx /\ Tail(serverRx)[i] = serverRx[i + 1] /\ i \in Nat
          /\ j + 1 \in DOMAIN serverRx /\ Tail(serverRx)[j] = serverRx[j + 1] /\ j \in Nat
      BY TailEvents
    <3>2. i + 1 = j + 1
      BY <2>2, <3>1 DEF AnnouncedOnce
    <3> QED BY <3>1, <3>2
  <2> QED BY <2>1, <2>2 DEF AnnouncedOnce
<1>3. ASSUME AskedLast, KeepsAsking, Head(serverRx).kind # "prepare" PROVE AskedLast'
  <2> SUFFICES ASSUME NEW s \in Session, request'[s] = "pending"
               PROVE  \/ pending' = s /\ \A i \in DOMAIN Tail(serverRx) : Tail(serverRx)[i].kind # "prepare"
                      \/ \E i \in DOMAIN Tail(serverRx) :
                            /\ Tail(serverRx)[i] = Event("prepare", s, None)
                            /\ \A j \in DOMAIN Tail(serverRx) : Tail(serverRx)[j].kind = "prepare" => j <= i
    BY DEF AskedLast
  <2>1. request[s] = "pending" /\ (pending = s => pending' = s)
    BY <1>3 DEF KeepsAsking
  <2>2. CASE pending = s /\ \A i \in DOMAIN serverRx : serverRx[i].kind # "prepare"
    BY <2>1, <2>2, TailEvents
  <2>3. ASSUME NEW i \in DOMAIN serverRx, serverRx[i] = Event("prepare", s, None),
               \A j \in DOMAIN serverRx : serverRx[j].kind = "prepare" => j <= i
        PROVE  /\ i - 1 \in DOMAIN Tail(serverRx)
               /\ Tail(serverRx)[i - 1] = Event("prepare", s, None)
               /\ \A j \in DOMAIN Tail(serverRx) : Tail(serverRx)[j].kind = "prepare" => j <= i - 1
    <3>1. i # 1
      BY <1>3, <2>3, TailEvents DEF Event
    <3>2. i - 1 \in DOMAIN Tail(serverRx) /\ Tail(serverRx)[i - 1] = Event("prepare", s, None) /\ i \in Nat
      BY <2>3, <3>1, TailEvents DEF QueuesTyped
    <3>3. ASSUME NEW j \in DOMAIN Tail(serverRx), Tail(serverRx)[j].kind = "prepare" PROVE j <= i - 1
      <4>1. j + 1 \in DOMAIN serverRx /\ serverRx[j + 1].kind = "prepare" /\ j \in Nat
        BY <3>3, TailEvents
      <4>2. j + 1 <= i
        BY <2>3, <4>1
      <4> QED BY <3>2, <4>1, <4>2
    <3> QED BY <3>2, <3>3
  <2> QED BY <1>3, <2>1, <2>2, <2>3 DEF AskedLast
<1> QED BY <1>1, <1>2, <1>3, TailEvents

LEMMA QueueGrown ==
    ASSUME QueuesTyped, AbortedIsClosed, AnnouncedOnce, Moves, KeepsWaiting({}),
           NEW e \in Events, serverRx' = Append(serverRx, e),
           e.kind = "aborted" => request'[e.session] = "closed",
           e.kind = "upload" =>
               /\ \E k \in Key : e = Event("upload", k[1], k[2]) /\ up'[k] \in {"asked", "dropped"}
               /\ \A i \in DOMAIN serverRx : serverRx[i] # e
    PROVE  /\ serverRx' \in Seq(Events) /\ AbortedIsClosed' /\ AnnouncedOnce'
           /\ AskedLast /\ KeepsAsking /\ e.kind # "prepare" => AskedLast'
<1> DEFINE q == Append(serverRx, e)
           n == Len(serverRx) + 1
<1>1. serverRx \in Seq(Events) /\ Len(serverRx) \in Nat
  BY DEF QueuesTyped
<1>2. /\ q \in Seq(Events) /\ DOMAIN q = (DOMAIN serverRx) \cup {n} /\ n \notin DOMAIN serverRx
      /\ \A i \in DOMAIN serverRx : q[i] = serverRx[i] /\ i \in Nat /\ i < n
      /\ q[n] = e /\ n \in Nat
  <2> HIDE DEF Events
  <2> QED BY <1>1
<1>3. serverRx' = q
  OBVIOUS
<1> HIDE DEF q, n
<1>4. AbortedIsClosed'
  <2> SUFFICES ASSUME NEW i \in DOMAIN q, q[i].kind = "aborted" PROVE request'[q[i].session] = "closed"
    BY <1>3 DEF AbortedIsClosed
  <2>1. CASE i = n
    BY <1>2, <2>1
  <2>2. CASE i \in DOMAIN serverRx
    <3>1. serverRx[i] \in Events
      BY <1>1, <2>2
    <3>2. serverRx[i].session \in Session
      BY <3>1 DEF Events
    <3> QED BY <1>2, <2>2, <3>2 DEF AbortedIsClosed, Moves
  <2> QED BY <1>2, <2>1, <2>2
<1>5. AnnouncedOnce'
  <2>1. ASSUME NEW i \in DOMAIN q, q[i].kind = "upload"
        PROVE  \E k \in Key : q[i] = Event("upload", k[1], k[2]) /\ up'[k] \in {"asked", "dropped"}
    <3>1. CASE i = n
      BY <1>2, <2>1, <3>1
    <3>2. CASE i \in DOMAIN serverRx
      BY <1>2, <2>1, <3>2 DEF AnnouncedOnce, KeepsWaiting
    <3> QED BY <1>2, <3>1, <3>2
  <2>2. ASSUME NEW i \in DOMAIN q, NEW j \in DOMAIN q, q[i].kind = "upload", q[i] = q[j] PROVE i = j
    <3>1. CASE i \in DOMAIN serverRx /\ j \in DOMAIN serverRx
      BY <1>2, <2>2, <3>1 DEF AnnouncedOnce
    <3>2. CASE i \in DOMAIN serverRx /\ j = n
      BY <1>2, <2>2, <3>2
    <3>3. CASE i = n /\ j \in DOMAIN serverRx
      BY <1>2, <2>2, <3>3
    <3> QED BY <1>2, <3>1, <3>2, <3>3
  <2> QED BY <1>3, <2>1, <2>2 DEF AnnouncedOnce
<1>6. ASSUME AskedLast, KeepsAsking, e.kind # "prepare" PROVE AskedLast'
  <2> SUFFICES ASSUME NEW s \in Session, request'[s] = "pending"
               PROVE  \/ pending' = s /\ \A i \in DOMAIN q : q[i].kind # "prepare"
                      \/ \E i \in DOMAIN q : /\ q[i] = Event("prepare", s, None)
                                             /\ \A j \in DOMAIN q : q[j].kind = "prepare" => j <= i
    BY <1>3 DEF AskedLast
  <2>1. request[s] = "pending" /\ (pending = s => pending' = s)
    BY <1>6 DEF KeepsAsking
  <2>2. CASE pending = s /\ \A i \in DOMAIN serverRx : serverRx[i].kind # "prepare"
    BY <1>2, <1>6, <2>1, <2>2
  <2>3. ASSUME NEW i \in DOMAIN serverRx, serverRx[i] = Event("prepare", s, None),
               \A j \in DOMAIN serverRx : serverRx[j].kind = "prepare" => j <= i
        PROVE  /\ i \in DOMAIN q /\ q[i] = Event("prepare", s, None)
               /\ \A j \in DOMAIN q : q[j].kind = "prepare" => j <= i
    BY <1>2, <1>6, <2>3
  <2> QED BY <1>6, <2>1, <2>2, <2>3 DEF AskedLast
<1> QED BY <1>2, <1>3, <1>4, <1>5, <1>6

\* Uploads and results are as they were, or a result was taken.
LEMMA ServerKept ==
    ASSUME UploadsStarted, ResultsOnce, QueuesTyped, Moves,
           UNCHANGED <<status, up, tries, saved>>, results' \subseteq results
    PROVE  UploadsStarted' /\ ResultsOnce'
<1>1. UploadsStarted'
  BY KeyPairs DEF UploadsStarted, Moves
<1>2. \A m \in results : m.key[1] \in Session
  BY KeyPairs DEF QueuesTyped, Results
<1>3. ResultsOnce'
  BY <1>2 DEF ResultsOnce, Moves
<1> QED BY <1>1, <1>3

\* The application is not told of anything, and nothing is counted.
LEMMA AppKept ==
    ASSUME AppInv, Moves, UNCHANGED <<receive, summary, up, tries, results, saved>>
    PROVE  AppInv'
<1>1. \A s : Counted(s)' = Counted(s) /\ SavedOf(s)' = SavedOf(s) /\ EndLines(s)' = EndLines(s)
  BY DEF Counted, SavedOf, EndLines
<1>2. Told' = Told
  BY DEF Told
<1>3. ReceivedOnce'
  <2>1. \A s \in Session : request'[s] \in {"none", "pending"} => request[s] \in {"none", "pending"}
    BY DEF Moves
  <2> QED BY <2>1 DEF AppInv, ReceivedOnce
<1>4. CountsRight' /\ BusyUntilTold'
  BY <1>1, <1>2 DEF AppInv, CountsRight, BusyUntilTold
<1>5. LinesExact'
  BY <1>1 DEF AppInv, LinesExact, Once
<1> QED BY <1>3, <1>4, <1>5 DEF AppInv

-----------------------------------------------------------------------------
(* Steps about sessions.                                                   *)

SessionStep(s) ==
    \/ AsksToSend(s) \/ Answers(s) \/ DropPrepare(s) \/ TellAborted(s)
    \/ CancelBySender(s) \/ TellEnd(s) \/ CancelSession(s) \/ TakeAborted(s)

LEMMA SessionFrame ==
    ASSUME IInv, NEW s \in Session, SessionStep(s)
    PROVE  /\ UNCHANGED <<status, up, tries, receive, summary, results, saved>>
           /\ Moves
           /\ ~AsksToSend(s) => KeepsAsking
<1>1. UNCHANGED <<status, up, tries, receive, summary, results, saved>>
  BY DEF SessionStep, AsksToSend, Answers, DropPrepare, TellAborted, CancelBySender, TellEnd,
         CancelSession, TakeAborted, serverVars, appVars
<1>2. Moves
  BY DEF IInv, TypeOK, Moves, SessionStep, AsksToSend, Answers, DropPrepare, TellAborted,
         CancelBySender, TellEnd, CancelSession, TakeAborted, serverVars
<1>3. ASSUME ~AsksToSend(s) PROVE KeepsAsking
  <2>1. CASE TakeAborted(s)
    <3>1. /\ serverRx # <<>> /\ Head(serverRx) = Event("aborted", s, None)
          /\ pending' = IF pending = s THEN None ELSE pending
          /\ UNCHANGED request
      BY <2>1 DEF TakeAborted, Takes, PendingAfter, serverVars
    <3>2. serverRx[1].kind = "aborted" /\ serverRx[1].session = s /\ 1 \in DOMAIN serverRx
      BY <3>1, TailEvents DEF IInv, Event
    <3>3. request[s] = "closed"
      BY <3>2 DEF IInv, AbortedIsClosed
    <3> QED BY <3>1, <3>3 DEF KeepsAsking
  <2>2. CASE ~TakeAborted(s)
    BY <1>3, <2>2 DEF IInv, TypeOK, KeepsAsking, SessionStep, Answers, DropPrepare, TellAborted,
       CancelBySender, TellEnd, CancelSession, serverVars, appVars
  <2> QED BY <2>1, <2>2
<1> QED BY <1>1, <1>2, <1>3

LEMMA SessionTypes == ASSUME IInv, NEW s \in Session, SessionStep(s) PROVE TypeOK'
<1>1. /\ slot' \in Session \cup {None}
      /\ request' \in [Session -> {"none", "pending", "yes", "no", "active", "gone", "closed"}]
      /\ ending' \in [Session -> {"none", "finished", "cancelled"}]
  BY DEF IInv, TypeOK, SessionStep, AsksToSend, Answers, DropPrepare, TellAborted,
         CancelBySender, TellEnd, CancelSession, TakeAborted, serverVars
<1>2. \A u \in Session : request'[u] \in {"pending", "yes", "no"} => slot' = u
  <2>1. None \notin Session
    BY ConstantsAssumption
  <2> QED BY <2>1 DEF IInv, TypeOK, SessionStep, AsksToSend, Answers, DropPrepare, TellAborted,
         CancelBySender, TellEnd, CancelSession, Cancellable, TakeAborted, serverVars
<1>3. /\ paired' = paired /\ pending' \in {pending, None} /\ telling' \subseteq telling
      /\ cancels' = cancels
  BY DEF SessionStep, AsksToSend, Answers, DropPrepare, TellAborted, PendingAfter,
         CancelBySender, TellEnd, CancelSession, TakeAborted, appVars
<1>4. UNCHANGED <<status, up, tries, receive, saved>>
  BY SessionFrame
<1> QED BY <1>1, <1>2, <1>3, <1>4 DEF IInv, TypeOK

\* A request that begins to wait is told last.
LEMMA AskedNow ==
    ASSUME IInv, NEW s \in Session, AsksToSend(s)
    PROVE  AskedLast'
<1>1. /\ slot = None /\ request' = [request EXCEPT ![s] = "pending"]
      /\ serverRx' = Append(serverRx, Event("prepare", s, None))
  BY DEF AsksToSend, Pushes
<1>2. \A u \in Session : request'[u] = "pending" => u = s
  BY <1>1, ConstantsAssumption DEF IInv, TypeOK
<1>3. serverRx \in Seq(Events)
  BY DEF IInv, QueuesTyped
<1>4. /\ Len(serverRx) + 1 \in DOMAIN serverRx' /\ serverRx'[Len(serverRx) + 1] = Event("prepare", s, None)
      /\ \A j \in DOMAIN serverRx' : j <= Len(serverRx) + 1
  <2> HIDE DEF Events
  <2> QED BY <1>1, <1>3
<1> QED BY <1>2, <1>4 DEF AskedLast

LEMMA SessionInv == ASSUME IInv, NEW s \in Session, SessionStep(s) PROVE IInv'
<1>1. /\ UNCHANGED <<status, up, tries, receive, summary, results, saved>> /\ Moves
      /\ ~AsksToSend(s) => KeepsAsking
  BY SessionFrame
<1>2. KeepsWaiting({})
  BY <1>1 DEF KeepsWaiting
<1>3. serverRx' \in Seq(Events) /\ AbortedIsClosed' /\ AnnouncedOnce' /\ AskedLast'
  <2> USE DEF IInv, ServerInv
  <2>1. CASE AsksToSend(s) \/ TellAborted(s) \/ TellEnd(s)
    <3> DEFINE e == IF AsksToSend(s) THEN Event("prepare", s, None)
                    ELSE IF TellAborted(s) THEN Event("aborted", s, None)
                    ELSE Event(ending[s], s, None)
    <3>1. /\ serverRx' = Append(serverRx, e) /\ e \in Events /\ e.kind # "upload"
          /\ e.kind = "aborted" => request'[e.session] = "closed"
          /\ ~AsksToSend(s) => e.kind # "prepare"
      <4>1. CASE AsksToSend(s)
        BY <4>1 DEF AsksToSend, Pushes, Event, Events, Kinds
      <4>2. CASE ~AsksToSend(s) /\ TellAborted(s)
        BY <4>2 DEF TellAborted, Pushes, Event, Events, Kinds, TypeOK
      <4>3. CASE ~AsksToSend(s) /\ ~TellAborted(s)
        <5>1. ending[s] \in {"finished", "cancelled"} /\ serverRx' = Append(serverRx, Event(ending[s], s, None))
          BY <2>1, <4>3 DEF TellEnd, Pushes, TypeOK
        <5> QED BY <4>3, <5>1 DEF Event, Events, Kinds
      <4> QED BY <4>1, <4>2, <4>3
    <3> HIDE DEF e
    <3> QED BY <1>1, <1>2, <3>1, QueueGrown, AskedNow
  <2>2. CASE TakeAborted(s)
    <3>1. /\ serverRx # <<>> /\ serverRx' = Tail(serverRx) /\ Head(serverRx) = Event("aborted", s, None)
          /\ ~AsksToSend(s) /\ UNCHANGED request
      BY <2>2 DEF TakeAborted, Takes, serverVars, AsksToSend, TypeOK
    <3>2. Head(serverRx).kind # "prepare"
      BY <3>1 DEF Event
    <3>3. {} \in SUBSET Key /\ \A k \in {} : Head(serverRx) = Event("upload", k[1], k[2])
      OBVIOUS
    <3> QED BY <1>1, <1>2, <3>1, <3>2, <3>3, QueueTaken
  <2>3. CASE Answers(s) \/ DropPrepare(s) \/ CancelBySender(s) \/ CancelSession(s)
    <3>1. UNCHANGED serverRx /\ ~AsksToSend(s)
      BY <2>3 DEF Answers, DropPrepare, CancelBySender, CancelSession, AsksToSend, TypeOK
    <3> QED BY <1>1, <1>2, <3>1, QueueKept DEF QueuesTyped
  <2> QED BY <2>1, <2>2, <2>3 DEF SessionStep
<1>4. QueuesTyped'
  BY <1>1, <1>3 DEF IInv, QueuesTyped
<1>5. UploadsStarted' /\ ResultsOnce'
  BY <1>1, ServerKept DEF IInv, ServerInv
<1>6. AppInv'
  BY <1>1, AppKept DEF IInv
<1> QED BY <1>3, <1>4, <1>5, <1>6, SessionTypes DEF IInv, ServerInv

-----------------------------------------------------------------------------
(* Uploads and their results.                                              *)

\* An attempt that is under way goes on without a result, or ends with one.
LEMMA AttemptGoesOn ==
    ASSUME IInv, NEW k \in Key, NEW to, up[k] \in Live,
           up' = [up EXCEPT ![k] = to], UNCHANGED <<tries, request>>,
           \/ UNCHANGED <<results, saved>>
           \/ /\ to \notin Live
              /\ \E r \in {"ok", "err"} :
                    /\ results' = results \cup {Result(k, r)}
                    /\ saved' = IF r = "ok" THEN saved \cup {k} ELSE saved
    PROVE  /\ ResultsOnce' /\ results' \subseteq Results
           /\ Told \subseteq Told' /\ \A s \in Session : Counted(s)' = Counted(s)
<1> USE DEF IInv, ServerInv
<1>1. /\ k[1] \in Session /\ k[2] \in File /\ k = <<k[1], k[2]>>
      /\ \A j \in Key : j # k => up'[j] = up[j]
      /\ up'[k] = to
  BY KeyPairs DEF TypeOK
<1>2. /\ request[k[1]] = "active" /\ k \notin saved
      /\ tries[k] \in 1..MaxTries
      /\ \A m \in results : m.key = k => m.try # tries[k]
      /\ \A m \in results : m.key = k => m.result # "ok"
  <2>1. request[k[1]] = "active" /\ k \notin saved /\ tries[k] > 0
    BY DEF UploadsStarted, Live
  <2>2. tries[k] \in 1..MaxTries
    BY <2>1, ConstantsAssumption DEF TypeOK
  <2> QED BY <2>1, <2>2 DEF ResultsOnce
<1>3. CASE UNCHANGED <<results, saved>>
  <2>1. ResultsOnce'
    <3>1. ASSUME NEW m \in results, m.try = tries[m.key] PROVE up'[m.key] \notin Live
      <4>1. m.key \in Key
        BY DEF QueuesTyped, Results
      <4> QED BY <1>1, <1>2, <3>1, <4>1 DEF ResultsOnce
    <3> QED BY <1>3, <3>1 DEF ResultsOnce
  <2>2. Told \subseteq Told'
    BY <1>1, <1>2, <1>3 DEF Told
  <2>3. \A s \in Session : Counted(s)' = Counted(s)
    BY <1>3 DEF Counted, SavedOf
  <2> QED BY <1>3, <2>1, <2>2, <2>3 DEF QueuesTyped
<1>4. ASSUME to \notin Live, NEW r \in {"ok", "err"}, results' = results \cup {Result(k, r)},
             saved' = IF r = "ok" THEN saved \cup {k} ELSE saved
      PROVE  /\ ResultsOnce' /\ results' \subseteq Results
             /\ Told \subseteq Told' /\ \A s \in Session : Counted(s)' = Counted(s)
  <2> DEFINE x == Result(k, r)
  <2>1. x.key = k /\ x.try = tries[k] /\ x.result = r /\ x \in Results
    BY <1>2 DEF Result, Results
  <2> HIDE DEF x
  <2>2. results' = results \cup {x}
    BY <1>4 DEF x
  <2>3. ASSUME NEW m \in results'
        PROVE  /\ request'[m.key[1]] = "active"
               /\ m.try <= tries'[m.key]
               /\ m.try = tries'[m.key] => up'[m.key] \notin Live
               /\ m.result = "ok" => m.key \in saved'
    <3>1. CASE m = x
      <4>1. tries[k] <= tries[k]
        BY <1>2, ConstantsAssumption
      <4> QED BY <1>1, <1>2, <1>4, <2>1, <3>1, <4>1
    <3>2. CASE m \in results
      <4>1. m.key \in Key
        BY <3>2 DEF QueuesTyped, Results
      <4> QED BY <1>1, <1>2, <1>4, <3>2, <4>1 DEF ResultsOnce
    <3> QED BY <2>2, <3>1, <3>2
  <2>4. ASSUME NEW m \in results', NEW n \in results', m.key = n.key,
               m.try = n.try \/ (m.result = "ok" /\ n.result = "ok")
        PROVE  m = n
    <3>1. CASE m \in results /\ n \in results
      BY <2>4, <3>1 DEF ResultsOnce
    <3>2. CASE m = x /\ n \in results
      BY <1>2, <2>1, <2>4, <3>2
    <3>3. CASE m \in results /\ n = x
      BY <1>2, <2>1, <2>4, <3>3
    <3> QED BY <2>2, <3>1, <3>2, <3>3
  <2>5. ResultsOnce'
    BY <2>3, <2>4 DEF ResultsOnce
  <2>6. results' \subseteq Results
    BY <2>1, <2>2 DEF QueuesTyped
  <2>7. Told \subseteq Told'
    <3> SUFFICES ASSUME NEW p \in Told PROVE p \in Told'
      OBVIOUS
    <3>1. p[1] = k => p[2] # tries[k]
      BY DEF Told
    <3>2. \A m \in results' : m.key = p[1] => m.try # p[2]
      BY <2>1, <2>2, <3>1 DEF Told
    <3> QED BY <1>1, <3>1, <3>2 DEF Told
  <2>8. \A s \in Session : Counted(s)' = Counted(s)
    <3> SUFFICES ASSUME NEW s \in Session, NEW f PROVE f \in Counted(s)' <=> f \in Counted(s)
      BY DEF Counted
    <3>1. CASE <<s, f>> = k
      <4>1. f \notin Counted(s)
        BY <1>2, <3>1 DEF Counted, SavedOf
      <4>2. f \notin Counted(s)'
        BY <1>2, <1>4, <2>1, <2>2, <3>1 DEF Counted, SavedOf
      <4> QED BY <4>1, <4>2
    <3>2. CASE <<s, f>> # k
      <4>1. <<s, f>> \in saved' <=> <<s, f>> \in saved
        BY <1>4, <3>2
      <4>2. (\A m \in results' : m.key = <<s, f>> => m.result # "ok")
            <=> (\A m \in results : m.key = <<s, f>> => m.result # "ok")
        BY <2>1, <2>2, <3>2
      <4> QED BY <4>1, <4>2 DEF Counted, SavedOf
    <3> QED BY <3>1, <3>2
  <2> QED BY <2>5, <2>6, <2>7, <2>8
<1> QED BY <1>3, <1>4

\* The application is not told of anything; the attempts go on.
LEMMA AppWaits ==
    ASSUME IInv, UNCHANGED <<request, receive, summary>>,
           saved \subseteq saved', saved' \subseteq saved \cup {j \in Key : up[j] = "target"},
           tries' \in [Key -> Nat],
           \A j \in Key : tries[j] <= tries'[j] /\ (up'[j] = "target" => up[j] = "target"),
           \A m \in results' : m \in results \/ up[m.key] = "target",
           Told \subseteq Told', \A s \in Session : receive.session = s => Counted(s)' = Counted(s)
    PROVE  AppInv'
<1> USE DEF IInv, AppInv
<1>1. ReceivedOnce'
  BY DEF ReceivedOnce
<1>2. CountsRight'
  <2>1. Told' \in SUBSET (Key \X (1..MaxTries)) /\ Told \in SUBSET Told'
    BY DEF Told
  <2>2. Cardinality(Told) <= Cardinality(Told') /\ Cardinality(Told) \in Nat /\ Cardinality(Told') \in Nat
    BY <2>1, AttemptsFinite, FS_Subset, FS_CardinalityType
  <2>3. receive.failed \in Nat
    BY KeysFinite, ConstantsAssumption DEF TypeOK
  <2> QED BY <2>2, <2>3 DEF CountsRight
<1>3. \A j \in Key : tries'[j] <= 1 => tries[j] <= 1
  BY DEF TypeOK
<1>4. BusyUntilTold'
  BY <1>3 DEF BusyUntilTold
<1>5. LinesExact'
  <2> SUFFICES ASSUME NEW s \in Session, NEW i \in EndLines(s), Once(s)'
               PROVE  /\ summary[s][i].finished = Cardinality(SavedOf(s)')
                      /\ \A f \in FilesOf[s] : up'[<<s, f>>] # "target"
    BY DEF LinesExact, EndLines
  <2>1. Once(s)
    BY <1>3, KeyPairs DEF Once
  <2>2. \A f \in FilesOf[s] : up[<<s, f>>] # "target"
    BY <2>1 DEF LinesExact
  <2>3. SavedOf(s)' = SavedOf(s)
    <3> SUFFICES ASSUME NEW f \in File, <<s, f>> \in saved' PROVE <<s, f>> \in saved
      BY DEF SavedOf
    <3>1. CASE <<s, f>> \in Key
      <4>1. f \in FilesOf[s]
        BY <3>1 DEF Key
      <4> QED BY <2>2, <4>1
    <3>2. CASE <<s, f>> \notin Key
      BY <3>2
    <3> QED BY <3>1, <3>2
  <2> QED BY <2>1, <2>2, <2>3, KeyPairs DEF LinesExact
<1> QED BY <1>1, <1>2, <1>4, <1>5

UploadStep(k) == Upload(k) \/ Announce(k) \/ Save(k) \/ Finish(k) \/ DropUpload(k)

LEMMA Finalized ==
    ASSUME TypeOK, NEW k \in Key, NEW r \in {"ok", "failed", "mismatch"}, Finalizes(k, r)
    PROVE  /\ status' \in [Key -> {"pending", "progress", "finished", "failed"}]
           /\ ending' \in [Session -> {"none", "finished", "cancelled"}]
           /\ status' = status \/ status' = [status EXCEPT ![k] = FinalStatus(k, r)]
           /\ slot' = slot \/ (slot = k[1] /\ slot' = None)
<1>1. FinalStatus(k, r) \in {"pending", "finished", "failed"}
  BY DEF FinalStatus
<1>2. status' = status \/ status' = [status EXCEPT ![k] = FinalStatus(k, r)]
  BY DEF Finalizes
<1>3. status' \in [Key -> {"pending", "progress", "finished", "failed"}]
  BY <1>1, <1>2 DEF TypeOK
<1>4. ending' = ending \/ ending' = [ending EXCEPT ![k[1]] = "finished"]
  BY DEF Finalizes
<1>5. ending' \in [Session -> {"none", "finished", "cancelled"}]
  BY <1>4 DEF TypeOK
<1>6. slot' = slot \/ (slot = k[1] /\ slot' = None)
  BY DEF Finalizes
<1> QED BY <1>2, <1>3, <1>5, <1>6

LEMMA UploadFrame ==
    ASSUME IInv, NEW k \in Key, UploadStep(k)
    PROVE  /\ UNCHANGED <<request, receive, summary, paired, pending, telling, cancels>>
           /\ request[k[1]] = "active" /\ k[1] \in Session
           /\ slot' \in Session \cup {None}
           /\ \A u \in Session : request[u] \in {"pending", "yes", "no"} => slot' = u
           /\ Moves /\ KeepsAsking
<1> USE DEF IInv, ServerInv
<1>1. UNCHANGED <<request, receive, summary, paired, pending, telling, cancels>>
  BY DEF UploadStep, Upload, Announce, Save, Finish, DropUpload, appVars
<1>2. request[k[1]] = "active" /\ k[1] \in Session
  BY KeyPairs DEF UploadStep, Upload, Announce, Save, Finish, DropUpload, UploadsStarted
<1>3. slot' = slot \/ (slot = k[1] /\ slot' = None)
  <2>1. CASE Upload(k) \/ Announce(k) \/ Save(k)
    BY <2>1 DEF Upload, Announce, Save
  <2>2. CASE Finish(k) \/ DropUpload(k)
    BY <2>2, Finalized DEF Finish, DropUpload
  <2> QED BY <2>1, <2>2 DEF UploadStep
<1>4. \A u \in Session : request[u] \in {"pending", "yes", "no"} => slot' = u
  BY <1>2, <1>3 DEF TypeOK
<1> QED BY <1>1, <1>2, <1>3, <1>4 DEF Moves, KeepsAsking, TypeOK

\* What an upload does to its own row.
LEMMA UploadTypes ==
    ASSUME IInv, NEW k \in Key, UploadStep(k)
    PROVE  /\ TypeOK' /\ UploadsStarted'
           /\ tries' \in [Key -> Nat] /\ \A j \in Key : tries[j] <= tries'[j]
           /\ saved \subseteq saved' /\ saved' \subseteq saved \cup {j \in Key : up[j] = "target"}
           /\ \A j \in Key : up'[j] = "target" => up[j] = "target"
<1> USE DEF IInv, ServerInv
<1>1. /\ \A j \in Key : tries[j] \in Nat /\ tries[j] <= tries[j]
      /\ MaxTries \in Nat
  BY ConstantsAssumption DEF TypeOK
<1>2. CASE Upload(k)
  <2>1. /\ up[k] = "none" /\ status[k] = "pending"
        /\ status' = [status EXCEPT ![k] = "progress"] /\ up' = [up EXCEPT ![k] = "admitted"]
        /\ tries' = [tries EXCEPT ![k] = tries[k] + 1]
        /\ UNCHANGED <<ending, saved>>
    BY <1>2 DEF Upload
  <2>2. tries[k] + 1 \in 0..MaxTries /\ tries[k] + 1 > 0
    BY <1>1, <2>1 DEF UploadsStarted, TypeOK
  <2>3. tries' \in [Key -> 0..MaxTries] /\ \A j \in Key : tries[j] <= tries'[j]
    BY <1>1, <2>1, <2>2 DEF TypeOK
  <2>4. UploadsStarted'
    BY <2>1, <2>2, UploadFrame DEF UploadsStarted, TypeOK
  <2>5. TypeOK'
    BY <2>1, <2>3, UploadFrame DEF TypeOK
  <2>6. tries' \in [Key -> Nat]
    BY <1>1, <2>3
  <2> QED BY <2>1, <2>3, <2>4, <2>5, <2>6 DEF TypeOK
<1>3. CASE ~Upload(k)
  <2>1. /\ UNCHANGED tries /\ tries' \in [Key -> Nat] /\ \A j \in Key : tries[j] <= tries'[j]
    BY <1>1, <1>3 DEF UploadStep, Announce, Save, Finish, DropUpload, TypeOK
  <2>2. CASE Announce(k) \/ Save(k)
    <3>1. /\ up[k] \in {"admitted", "target"}
          /\ \/ up[k] = "admitted" /\ up' = [up EXCEPT ![k] = "asked"] /\ saved' = saved
             \/ /\ up[k] = "target"
                /\ \E r \in {"ok", "failed", "mismatch"} :
                    up' = [up EXCEPT ![k] = r] /\ saved' = IF r = "ok" THEN saved \cup {k} ELSE saved
          /\ UNCHANGED <<status, ending>>
      BY <2>2 DEF Announce, Save
    <3>2. UploadsStarted'
      BY <2>1, <3>1, UploadFrame DEF UploadsStarted, TypeOK
    <3>3. TypeOK'
      BY <2>1, <3>1, UploadFrame DEF TypeOK
    <3> QED BY <2>1, <3>1, <3>2, <3>3 DEF TypeOK
  <2>3. CASE Finish(k) \/ DropUpload(k)
    <3> DEFINE r == IF Finish(k) THEN up[k] ELSE "failed"
    <3>1. /\ up[k] # "none" /\ r \in {"ok", "failed", "mismatch"}
          /\ \/ up[k] = "asked" /\ up' = [up EXCEPT ![k] = "dropped"] /\ r = "failed"
             \/ up' = [up EXCEPT ![k] = "none"]
          /\ UNCHANGED saved /\ Finalizes(k, r)
          /\ k \in saved => r = "ok"
      BY <2>3 DEF Finish, DropUpload, UploadsStarted
    <3> HIDE DEF r
    <3>2. /\ status' \in [Key -> {"pending", "progress", "finished", "failed"}]
          /\ ending' \in [Session -> {"none", "finished", "cancelled"}]
          /\ status' = status \/ status' = [status EXCEPT ![k] = FinalStatus(k, r)]
      BY <3>1, Finalized
    <3>3. /\ r = "ok" => status'[k] # "pending"
          /\ r = "failed" => status'[k] # "pending"
          /\ status'[k] = "pending" => tries[k] < MaxTries
      BY <3>1, <3>2 DEF FinalStatus, UploadsStarted, TypeOK
    <3>4. \A j \in Key \ {k} : status'[j] = status[j] /\ up'[j] = up[j]
      BY <3>1, <3>2 DEF TypeOK
    <3>5. UploadsStarted'
      BY <2>1, <3>1, <3>3, <3>4, UploadFrame DEF UploadsStarted, TypeOK
    <3>6. TypeOK'
      BY <2>1, <3>1, <3>2, UploadFrame DEF TypeOK
    <3> QED BY <2>1, <3>1, <3>5, <3>6 DEF TypeOK
  <2> QED BY <1>3, <2>2, <2>3 DEF UploadStep
<1> QED BY <1>2, <1>3

\* What an upload does to the results.
LEMMA UploadResults ==
    ASSUME IInv, NEW k \in Key, UploadStep(k)
    PROVE  /\ ResultsOnce' /\ results' \subseteq Results
           /\ Told \subseteq Told' /\ \A s \in Session : Counted(s)' = Counted(s)
           /\ \A m \in results' : m \in results \/ up[m.key] = "target"
<1> USE DEF IInv, ServerInv
<1>1. \A m \in results : m.key \in Key /\ m.try \in Nat
  BY DEF QueuesTyped, Results
<1>2. \A j \in Key : tries[j] \in Nat
  BY ConstantsAssumption DEF TypeOK
<1>3. CASE Upload(k)
  <2>1. /\ up[k] = "none" /\ up' = [up EXCEPT ![k] = "admitted"]
        /\ tries' = [tries EXCEPT ![k] = tries[k] + 1]
        /\ UNCHANGED <<results, saved, request>>
    BY <1>3, UploadFrame DEF Upload
  <2>2. ASSUME NEW m \in results PROVE m.try <= tries'[m.key] /\ (m.try = tries'[m.key] => up'[m.key] \notin Live)
    BY <1>1, <1>2, <2>1 DEF ResultsOnce, TypeOK
  <2>3. ResultsOnce'
    BY <2>1, <2>2 DEF ResultsOnce
  <2>4. Told \subseteq Told'
    <3> SUFFICES ASSUME NEW p \in Told PROVE p \in Told'
      OBVIOUS
    <3>1. p \in Key \X (1..MaxTries) /\ p[1] \in Key /\ p[2] \in Nat
      BY ConstantsAssumption DEF Told
    <3>2. p[2] <= tries'[p[1]] /\ (p[2] = tries'[p[1]] => up'[p[1]] \notin Live)
      BY <1>2, <2>1, <3>1 DEF Told, TypeOK
    <3> QED BY <2>1, <3>1, <3>2 DEF Told
  <2>5. \A s \in Session : Counted(s)' = Counted(s)
    BY <2>1 DEF Counted, SavedOf
  <2> QED BY <2>1, <2>3, <2>4, <2>5 DEF QueuesTyped
<1>4. CASE Finish(k)
  <2>1. /\ up[k] \notin Live /\ up' = [up EXCEPT ![k] = "none"]
        /\ UNCHANGED <<results, saved, request, tries>>
    BY <1>4, UploadFrame DEF Finish, Live
  <2>2. \A j \in Key : up'[j] \in Live => up[j] \in Live
    BY <2>1 DEF TypeOK, Live
  <2>3. ResultsOnce'
    BY <1>1, <2>1, <2>2 DEF ResultsOnce
  <2>4. Told \subseteq Told'
    BY <2>1, <2>2 DEF Told
  <2>5. \A s \in Session : Counted(s)' = Counted(s)
    BY <2>1 DEF Counted, SavedOf
  <2> QED BY <2>1, <2>3, <2>4, <2>5 DEF QueuesTyped
<1>5. CASE Announce(k) \/ Save(k) \/ DropUpload(k)
  <2>1. up[k] \in Live /\ UNCHANGED <<tries, request>>
    BY <1>5, UploadFrame DEF Announce, Save, DropUpload, Live
  <2>2. PICK to \in {"asked", "ok", "failed", "mismatch", "dropped", "none"} :
            /\ up' = [up EXCEPT ![k] = to]
            /\ \/ UNCHANGED <<results, saved>>
               \/ /\ to \notin Live /\ up[k] = "target"
                  /\ \E r \in {"ok", "err"} :
                        /\ results' = results \cup {Result(k, r)}
                        /\ saved' = IF r = "ok" THEN saved \cup {k} ELSE saved
    <3>1. CASE Announce(k)
      BY <3>1 DEF Announce
    <3>2. CASE Save(k)
      <4> PICK r \in {"ok", "failed", "mismatch"} :
            /\ up' = [up EXCEPT ![k] = r]
            /\ results' = results \cup {Result(k, IF r = "ok" THEN "ok" ELSE "err")}
            /\ saved' = IF r = "ok" THEN saved \cup {k} ELSE saved
        BY <3>2 DEF Save
      <4>1. up[k] = "target" /\ r \notin Live
        BY <3>2 DEF Save, Live
      <4> QED BY <4>1
    <3>3. CASE DropUpload(k)
      BY <3>3 DEF DropUpload, Aborts, Live
    <3> QED BY <1>5, <3>1, <3>2, <3>3
  <2>3. \A r : Result(k, r).key = k
    BY DEF Result
  <2> QED BY <2>1, <2>2, <2>3, AttemptGoesOn
<1> QED BY <1>3, <1>4, <1>5 DEF UploadStep

LEMMA UploadInv == ASSUME IInv, NEW k \in Key, UploadStep(k) PROVE IInv'
<1>1. AppInv'
  BY UploadFrame, UploadTypes, UploadResults, AppWaits
<1>2. KeepsWaiting({})
  <2>1. CASE Upload(k)
    <3>1. up[k] = "none" /\ up' = [up EXCEPT ![k] = "admitted"]
      BY <2>1, Zenon DEF Upload
    <3> QED BY <3>1 DEF KeepsWaiting, IInv, TypeOK
  <2>2. CASE Announce(k) \/ Finish(k)
    BY <2>2 DEF KeepsWaiting, Announce, Finish, IInv, TypeOK
  <2>3. CASE Save(k)
    BY <2>3 DEF KeepsWaiting, Save, IInv, TypeOK
  <2>4. CASE DropUpload(k)
    BY <2>4 DEF KeepsWaiting, DropUpload, IInv, TypeOK
  <2> QED BY <2>1, <2>2, <2>3, <2>4 DEF UploadStep
<1>3. serverRx' \in Seq(Events) /\ AbortedIsClosed' /\ AnnouncedOnce' /\ AskedLast'
  <2> USE DEF IInv, ServerInv
  <2>1. CASE Announce(k)
    <3> DEFINE e == Event("upload", k[1], k[2])
    <3>1. serverRx' = Append(serverRx, e) /\ up[k] = "admitted" /\ up'[k] = "asked"
      BY <2>1 DEF Announce, Pushes, TypeOK
    <3>2. e \in Events /\ e.kind = "upload"
      BY KeyPairs DEF Event, Events, Kinds
    <3>3. ASSUME NEW i \in DOMAIN serverRx, serverRx[i] = e PROVE FALSE
      <4>1. PICK j \in Key : e = Event("upload", j[1], j[2]) /\ up[j] \in {"asked", "dropped"}
        BY <3>2, <3>3 DEF AnnouncedOnce
      <4>2. j = k
        BY <4>1, KeyPairs DEF Event
      <4> QED BY <3>1, <4>1, <4>2
    <3>4. \E j \in Key : e = Event("upload", j[1], j[2]) /\ up'[j] \in {"asked", "dropped"}
      BY <3>1
    <3> HIDE DEF e
    <3> QED BY <1>2, <3>1, <3>2, <3>3, <3>4, UploadFrame, QueueGrown
  <2>2. CASE ~Announce(k)
    <3>1. UNCHANGED serverRx
      BY <2>2 DEF UploadStep, Upload, Save, Finish, DropUpload
    <3> QED BY <1>2, <3>1, UploadFrame, QueueKept DEF QueuesTyped
  <2> QED BY <2>1, <2>2
<1>4. QueuesTyped'
  BY <1>3, UploadFrame, UploadResults DEF IInv, QueuesTyped
<1> QED BY <1>1, <1>3, <1>4, UploadTypes, UploadResults DEF IInv, ServerInv

-----------------------------------------------------------------------------
(* What the application is told of.                                        *)

\* The upload it is told of is one that waits for it.
LEMMA UploadTold ==
    ASSUME IInv, NEW k \in Key, Takes("upload", k[1], k[2])
    PROVE  up[k] \in {"asked", "dropped"}
<1>1. 1 \in DOMAIN serverRx /\ serverRx[1] = Event("upload", k[1], k[2])
  BY TailEvents DEF IInv, Takes
<1>2. PICK j \in Key : serverRx[1] = Event("upload", j[1], j[2]) /\ up[j] \in {"asked", "dropped"}
  BY <1>1, SMTT(30) DEF IInv, ServerInv, AnnouncedOnce, Event
<1>3. j = k
  BY <1>1, <1>2, KeyPairs DEF Event
<1> QED BY <1>2, <1>3

LEMMA TakeUploadInv == ASSUME IInv, NEW k \in Key, TakeUpload(k) PROVE IInv'
<1> USE DEF IInv, ServerInv
<1>1. /\ serverRx # <<>> /\ serverRx' = Tail(serverRx) /\ Head(serverRx) = Event("upload", k[1], k[2])
      /\ up[k] \in {"asked", "dropped"}
      /\ UNCHANGED <<slot, request, status, tries, ending, paired, pending, summary, telling, cancels, saved>>
  BY UploadTold DEF TakeUpload, Takes
<1>2. /\ k[1] \in Session /\ k[2] \in File /\ k = <<k[1], k[2]>>
      /\ \A j \in Key : j # k => (j[1] # k[1] \/ j[2] # k[2])
  BY KeyPairs
<1>3. PICK to \in {"failed", "none", "target"} :
          /\ up' = [up EXCEPT ![k] = to]
          /\ to = "target" => up[k] = "asked" /\ Receiving(k[1])
          /\ \/ results' = results
             \/ to \notin Live /\ Receiving(k[1]) /\ results' = results \cup {Result(k, "err")}
          /\ receive' = IF Receiving(k[1]) THEN [receive EXCEPT !.busy = @ \cup {k[2]}] ELSE receive
  BY <1>1 DEF TakeUpload, Live
<1>4. /\ ResultsOnce' /\ results' \subseteq Results
      /\ Told \subseteq Told' /\ \A s \in Session : Counted(s)' = Counted(s)
  <2>1. up[k] \in Live
    BY <1>1 DEF Live
  <2>2. \/ results' = results /\ saved' = saved
        \/ /\ to \notin Live
           /\ \E r \in {"ok", "err"} :
                 /\ results' = results \cup {Result(k, r)}
                 /\ saved' = IF r = "ok" THEN saved \cup {k} ELSE saved
    BY <1>1, <1>3
  <2> QED BY <1>1, <1>3, <2>1, <2>2, AttemptGoesOn
<1>5. UploadsStarted'
  BY <1>1, <1>3 DEF UploadsStarted, TypeOK
<1>6. receive' \in [session : Session \cup {None}, finished : 0..Cardinality(File),
                    failed : 0..Cardinality(Key) * MaxTries,
                    busy : SUBSET File, ended : {"none", "finished", "cancelled"}]
  <2>1. receive.busy \cup {k[2]} \in SUBSET File
    BY <1>2 DEF TypeOK
  <2> QED BY <1>3, <2>1 DEF TypeOK
<1>7. TypeOK'
  BY <1>1, <1>3, <1>6 DEF TypeOK
<1>8. serverRx' \in Seq(Events) /\ AbortedIsClosed' /\ AnnouncedOnce' /\ AskedLast'
  <2>1. Moves /\ KeepsAsking
    BY <1>1 DEF Moves, KeepsAsking
  <2>2. KeepsWaiting({k}) /\ {k} \in SUBSET Key
        /\ \A j \in {k} : Head(serverRx) = Event("upload", j[1], j[2])
    BY <1>1, <1>3 DEF KeepsWaiting, TypeOK
  <2>3. Head(serverRx).kind # "prepare"
    BY <1>1 DEF Event
  <2> QED BY <1>1, <2>1, <2>2, <2>3, QueueTaken
<1>9. QueuesTyped'
  BY <1>1, <1>4, <1>8 DEF QueuesTyped
<1>10. AppInv'
  <2> USE DEF AppInv
  <2>1. ReceivedOnce'
    BY <1>1, <1>2, <1>3, ConstantsAssumption DEF ReceivedOnce, Receiving, TypeOK
  <2>2. CountsRight'
    <3>1. Told' \in SUBSET (Key \X (1..MaxTries)) /\ Told \in SUBSET Told'
      BY <1>4 DEF Told
    <3>2. Cardinality(Told) <= Cardinality(Told') /\ Cardinality(Told) \in Nat /\ Cardinality(Told') \in Nat
      BY <3>1, AttemptsFinite, FS_Subset, FS_CardinalityType
    <3>3. receive.failed \in Nat
      BY KeysFinite, ConstantsAssumption DEF TypeOK
    <3>4. receive'.failed = receive.failed /\ receive'.finished = receive.finished
          /\ receive'.session = receive.session
      BY <1>3 DEF TypeOK
    <3>5. receive'.failed <= Cardinality(Told')
      BY <3>2, <3>3, <3>4 DEF CountsRight
    <3> QED BY <1>4, <3>4, <3>5 DEF CountsRight
  <2>3. BusyUntilTold'
    <3> SUFFICES ASSUME NEW j \in Key, receive'.session = j[1], tries[j] <= 1,
                        up'[j] = "target" \/ \E m \in results' : m.key = j
                 PROVE  j[2] \in receive'.busy
      BY <1>1 DEF BusyUntilTold
    <3>1. receive'.session = receive.session /\ receive.busy \subseteq receive'.busy
      BY <1>3 DEF TypeOK
    <3>2. CASE j = k
      BY <1>3, <3>1, <3>2 DEF Receiving, TypeOK
    <3>3. CASE j # k
      <4>1. up'[j] = up[j]
        BY <1>3, <3>3 DEF TypeOK
      <4>2. \A m \in results' : m.key = j => m \in results
        BY <1>3, <3>3 DEF Result
      <4> QED BY <3>1, <4>1, <4>2 DEF BusyUntilTold
    <3> QED BY <3>2, <3>3
  <2>4. LinesExact'
    <3> SUFFICES ASSUME NEW s \in Session, NEW i \in EndLines(s), Once(s)
                 PROVE  /\ summary[s][i].finished = Cardinality(SavedOf(s))
                        /\ \A f \in FilesOf[s] : up'[<<s, f>>] # "target"
      BY <1>1 DEF LinesExact, EndLines, Once, SavedOf
    <3>1. summary[s] # <<>>
      BY DEF EndLines
    <3>2. ~Receiving(s)
      BY <3>1 DEF ReceivedOnce, Receiving
    <3>3. \A f \in FilesOf[s] : up'[<<s, f>>] = "target" => up[<<s, f>>] = "target"
      BY <1>2, <1>3, <3>2, KeyPairs DEF TypeOK
    <3> QED BY <3>3 DEF LinesExact
  <2> QED BY <2>1, <2>2, <2>3, <2>4
<1> QED BY <1>4, <1>5, <1>7, <1>8, <1>9, <1>10

\* The session that is received as an event leaves it, r, is closed if it is
\* done: then no file of it can be saved any more, if none was tried twice.
LEMMA Finishes ==
    ASSUME IInv, UNCHANGED <<up, tries, saved, request>>, results' \subseteq results,
           NEW r, r.session = receive.session, r.session \in Session,
           r \in [session : Session \cup {None}, finished : Nat, failed : Nat,
                  busy : SUBSET File, ended : {"none", "finished", "cancelled"}],
           r.finished = Cardinality(Counted(r.session)'),
           r.failed <= Cardinality(Told'),
           \A k \in Key :
               r.session = k[1] /\ tries[k] <= 1 /\ (up[k] = "target" \/ \E m \in results' : m.key = k)
               => k[2] \in r.busy,
           FinishIfDone(r)
    PROVE  /\ AppInv' /\ summary' \in [Session -> Seq(Lines)]
           /\ receive' \in [session : Session \cup {None}, finished : 0..Cardinality(File),
                            failed : 0..Cardinality(Key) * MaxTries,
                            busy : SUBSET File, ended : {"none", "finished", "cancelled"}]
<1> USE DEF IInv, AppInv
<1> DEFINE s == r.session
<1>1. /\ summary \in [Session -> Seq(Lines)] /\ summary[s] = <<>> /\ request[s] \notin {"none", "pending"}
      /\ None \notin Session
  BY ConstantsAssumption DEF QueuesTyped, ReceivedOnce
<1>2. /\ Told' \in SUBSET (Key \X (1..MaxTries)) /\ Cardinality(Told') \in 0..(Cardinality(Key) * MaxTries)
      /\ \A u : SavedOf(u)' = SavedOf(u) /\ Counted(u)' \in SUBSET File /\ Cardinality(Counted(u)') \in 0..Cardinality(File)
  <2>1. Told' \in SUBSET (Key \X (1..MaxTries))
    BY DEF Told
  <2>2. \A u : SavedOf(u)' = SavedOf(u) /\ Counted(u)' \in SUBSET File
    BY DEF SavedOf, Counted
  <2> QED BY <2>1, <2>2, AttemptsFinite, FilesFinite
<1>3. CASE ~Done(r)
  <2>1. receive' = r /\ UNCHANGED summary
    BY <1>3 DEF FinishIfDone
  <2>2. receive' \in [session : Session \cup {None}, finished : 0..Cardinality(File),
                      failed : 0..Cardinality(Key) * MaxTries,
                      busy : SUBSET File, ended : {"none", "finished", "cancelled"}]
    <3>1. r.failed \in 0..(Cardinality(Key) * MaxTries)
      BY <1>2, KeysFinite, ConstantsAssumption
    <3> QED BY <1>2, <2>1, <3>1
  <2>3. ReceivedOnce'
    BY <1>1, <2>1 DEF ReceivedOnce
  <2>4. CountsRight' /\ BusyUntilTold'
    BY <2>1 DEF CountsRight, BusyUntilTold
  <2>5. LinesExact'
    BY <1>2, <2>1 DEF LinesExact, EndLines, Once
  <2> QED BY <1>1, <2>1, <2>2, <2>3, <2>4, <2>5
<1>4. CASE Done(r)
  <2> DEFINE line == Line(r, r.ended)
  <2>1. /\ receive' = NoReceive /\ summary' = [summary EXCEPT ![s] = Append(summary[s], line)]
        /\ r.ended # "none" /\ r.busy = {}
    BY <1>4 DEF FinishIfDone, Says, Done
  <2>2. line \in Lines /\ line.finished = r.finished
    BY <2>1 DEF Line, Lines
  <2> HIDE DEF line
  <2>3. Append(<<>>, line) = <<line>> /\ <<line>> \in Seq(Lines) /\ DOMAIN <<line>> = {1} /\ <<line>>[1] = line
        /\ Len(<<line>>) = 1
    BY <2>2
  <2>4. /\ summary'[s] = <<line>> /\ \A u \in Session : u # s => summary'[u] = summary[u]
        /\ summary' \in [Session -> Seq(Lines)]
    BY <1>1, <2>1, <2>3
  <2>5. receive' \in [session : Session \cup {None}, finished : 0..Cardinality(File),
                      failed : 0..Cardinality(Key) * MaxTries,
                      busy : SUBSET File, ended : {"none", "finished", "cancelled"}]
    <3>1. 0 \in 0..Cardinality(File) /\ 0 \in 0..Cardinality(Key) * MaxTries
      BY KeysFinite, ConstantsAssumption
    <3> QED BY <2>1, <3>1 DEF NoReceive
  <2>6. receive'.session = None /\ receive'.failed = 0
    BY <2>1 DEF NoReceive
  <2>7. ReceivedOnce'
    <3>1. \A u \in Session : request'[u] \in {"none", "pending"} => summary'[u] = <<>>
      BY <1>1, <2>4 DEF ReceivedOnce
    <3>2. \A u \in Session : Len(summary'[u]) <= 1
      BY <2>3, <2>4 DEF ReceivedOnce
    <3> QED BY <1>1, <2>1, <2>6, <3>1, <3>2 DEF ReceivedOnce
  <2>8. CountsRight' /\ BusyUntilTold'
    <3>1. \A u \in Session : receive'.session # u
      BY <1>1, <2>6
    <3>2. \A k \in Key : receive'.session # k[1]
      BY <3>1, KeyPairs
    <3>3. 0 <= Cardinality(Told')
      BY <1>2
    <3> QED BY <2>6, <3>1, <3>2, <3>3 DEF CountsRight, BusyUntilTold
  <2>9. LinesExact'
    <3> SUFFICES ASSUME NEW u \in Session, NEW i \in EndLines(u)', Once(u)
                 PROVE  /\ summary'[u][i].finished = Cardinality(SavedOf(u))
                        /\ \A f \in FilesOf[u] : up[<<u, f>>] # "target"
      BY <1>2 DEF LinesExact, Once
    <3>1. CASE u # s
      <4>1. i \in EndLines(u) /\ summary'[u] = summary[u]
        BY <2>4, <3>1 DEF EndLines
      <4> QED BY <4>1 DEF LinesExact
    <3>2. CASE u = s
      <4>1. i = 1 /\ summary'[u][i].finished = r.finished
        BY <2>2, <2>3, <2>4, <3>2 DEF EndLines
      <4>2. \A f \in FilesOf[u] : /\ <<u, f>> \in Key /\ tries[<<u, f>>] <= 1
                                  /\ <<u, f>>[1] = u /\ <<u, f>>[2] = f
        BY KeyPairs DEF Once
      <4>3. \A f \in FilesOf[u] : up[<<u, f>>] # "target" /\ \A m \in results' : m.key # <<u, f>>
        BY <2>1, <3>2, <4>2
      <4>4. Counted(u)' = SavedOf(u)
        <5> SUFFICES ASSUME NEW f \in SavedOf(u), NEW m \in results', m.key = <<u, f>> PROVE FALSE
          BY <1>2 DEF Counted
        <5>1. <<u, f>> \in Key
          BY DEF SavedOf, TypeOK
        <5>2. f \in FilesOf[u]
          BY <5>1 DEF Key
        <5> QED BY <4>3, <5>2
      <4> QED BY <3>2, <4>1, <4>3, <4>4
    <3> QED BY <3>1, <3>2
  <2> QED BY <2>4, <2>5, <2>7, <2>8, <2>9
<1> QED BY <1>3, <1>4

LEMMA TakeEndInv == ASSUME IInv, NEW s \in Session, TakeEnd(s) PROVE IInv'
<1> USE DEF IInv, ServerInv
<1>1. PICK reason \in {"finished", "cancelled"} :
        /\ serverRx # <<>> /\ serverRx' = Tail(serverRx) /\ Head(serverRx) = Event(reason, s, None)
        /\ IF receive.session = s
           THEN FinishIfDone([receive EXCEPT !.ended = reason])
           ELSE UNCHANGED <<receive, summary>>
  BY DEF TakeEnd, Takes
<1>2. UNCHANGED <<slot, request, status, up, tries, ending, paired, pending, telling, cancels, results, saved>>
  BY DEF TakeEnd, serverVars
<1>3. Moves /\ KeepsAsking /\ KeepsWaiting({})
  BY <1>2 DEF Moves, KeepsAsking, KeepsWaiting
<1>4. serverRx' \in Seq(Events) /\ AbortedIsClosed' /\ AnnouncedOnce' /\ AskedLast'
  <2>1. Head(serverRx).kind # "prepare"
    BY <1>1 DEF Event
  <2>2. {} \in SUBSET Key /\ \A k \in {} : Head(serverRx) = Event("upload", k[1], k[2])
    OBVIOUS
  <2> QED BY <1>1, <1>3, <2>1, <2>2, QueueTaken
<1>5. UploadsStarted' /\ ResultsOnce'
  BY <1>2, <1>3, ServerKept
<1>6. /\ AppInv' /\ summary' \in [Session -> Seq(Lines)]
      /\ receive' \in [session : Session \cup {None}, finished : 0..Cardinality(File),
                       failed : 0..Cardinality(Key) * MaxTries,
                       busy : SUBSET File, ended : {"none", "finished", "cancelled"}]
  <2>1. CASE receive.session # s
    <3>1. UNCHANGED <<receive, summary>>
      BY <1>1, <2>1
    <3> QED BY <1>2, <1>3, <3>1, AppKept DEF TypeOK, QueuesTyped
  <2>2. CASE receive.session = s
    <3> PICK r : r = [receive EXCEPT !.ended = reason]
      OBVIOUS
    <3>1. /\ r.session = receive.session /\ r.finished = receive.finished
          /\ r.failed = receive.failed /\ r.busy = receive.busy
          /\ r \in [session : Session \cup {None}, finished : Nat, failed : Nat,
                    busy : SUBSET File, ended : {"none", "finished", "cancelled"}]
      BY KeysFinite, ConstantsAssumption DEF TypeOK
    <3>2. FinishIfDone(r)
      BY <1>1, <2>2
    <3>3. Counted(s)' = Counted(s) /\ Told' = Told
      BY <1>2 DEF Counted, SavedOf, Told
    <3>4. r.finished = Cardinality(Counted(r.session)') /\ r.failed <= Cardinality(Told')
      BY <2>2, <3>1, <3>3 DEF AppInv, CountsRight
    <3>5. \A k \in Key :
             r.session = k[1] /\ tries[k] <= 1 /\ (up[k] = "target" \/ \E m \in results' : m.key = k)
             => k[2] \in r.busy
      BY <1>2, <3>1 DEF AppInv, BusyUntilTold
    <3> QED BY <1>2, <2>2, <3>1, <3>2, <3>4, <3>5, Finishes
  <2> QED BY <2>1, <2>2
<1>7. TypeOK' /\ QueuesTyped'
  BY <1>2, <1>4, <1>6 DEF TypeOK, QueuesTyped
<1> QED BY <1>4, <1>5, <1>6, <1>7

\* Taking a result ends one attempt for the application.
LEMMA ResultTaken ==
    ASSUME IInv, NEW m \in results, results' = results \ {m}, UNCHANGED <<up, tries, saved>>
    PROVE  /\ Cardinality(Told) + 1 <= Cardinality(Told')
           /\ m.result = "ok" =>
                Cardinality(Counted(m.key[1])') = Cardinality(Counted(m.key[1])) + 1
           /\ m.result # "ok" => Counted(m.key[1])' = Counted(m.key[1])
           /\ \A s \in Session : s # m.key[1] => Counted(s)' = Counted(s)
<1> USE DEF IInv, ServerInv
<1>1. /\ m.key \in Key /\ m.try \in 1..MaxTries /\ m.result \in {"ok", "err"}
      /\ m.key[1] \in Session /\ m.key[2] \in File /\ m.key = <<m.key[1], m.key[2]>>
  BY KeyPairs DEF QueuesTyped, Results
<1>2. /\ m.try <= tries[m.key] /\ (m.try = tries[m.key] => up[m.key] \notin Live)
      /\ m.result = "ok" => m.key \in saved
      /\ \A n \in results' : n.key = m.key =>
            n.try # m.try /\ ~(m.result = "ok" /\ n.result = "ok")
  BY DEF ResultsOnce
<1>3. Cardinality(Told) + 1 <= Cardinality(Told')
  <2> DEFINE a == <<m.key, m.try>>
  <2>1. a \in Key \X (1..MaxTries) /\ a[1] = m.key /\ a[2] = m.try
    BY <1>1
  <2>2. a \notin Told
    BY <2>1 DEF Told
  <2>3. a \in Told' /\ Told \subseteq Told'
    <3>1. a \in Told'
      BY <1>2, <2>1 DEF Told
    <3>2. Told \subseteq Told'
      BY DEF Told
    <3> QED BY <3>1, <3>2
  <2>4. Told \in SUBSET (Key \X (1..MaxTries)) /\ Told' \in SUBSET (Key \X (1..MaxTries))
    BY DEF Told
  <2>5. IsFiniteSet(Told) /\ IsFiniteSet(Told') /\ Told \cup {a} \in SUBSET Told'
    BY <2>3, <2>4, AttemptsFinite
  <2> HIDE DEF a
  <2>6. Cardinality(Told \cup {a}) = Cardinality(Told) + 1
    BY <2>2, <2>5, FS_AddElement
  <2>7. Cardinality(Told \cup {a}) <= Cardinality(Told')
    BY <2>5, FS_Subset
  <2> QED BY <2>6, <2>7
<1>4. ASSUME NEW s \in Session, s # m.key[1] PROVE Counted(s)' = Counted(s)
  <2>1. \A n \in results, f \in File : n.key = <<s, f>> => n # m
    BY <1>4
  <2> QED BY <2>1 DEF Counted, SavedOf
<1>5. ASSUME m.result # "ok" PROVE Counted(m.key[1])' = Counted(m.key[1])
  BY <1>5 DEF Counted, SavedOf
<1>6. ASSUME m.result = "ok"
      PROVE  Cardinality(Counted(m.key[1])') = Cardinality(Counted(m.key[1])) + 1
  <2> DEFINE C == Counted(m.key[1])
             f == m.key[2]
  <2>1. f \notin C
    BY <1>1, <1>6 DEF Counted
  <2>2. C' = C \cup {f}
    <3> SUFFICES ASSUME NEW g PROVE g \in Counted(m.key[1])' <=> g \in C \/ g = f
      BY <1>1, <1>2, <1>6 DEF Counted
    <3>1. CASE g = f
      <4>1. f \in SavedOf(m.key[1])'
        BY <1>1, <1>2, <1>6 DEF SavedOf
      <4>2. \A n \in results' : n.key = <<m.key[1], f>> => n.result # "ok"
        BY <1>1, <1>2, <1>6
      <4> QED BY <3>1, <4>1, <4>2 DEF Counted
    <3>2. CASE g # f
      <4>1. \A n \in results : n.key = <<m.key[1], g>> => n # m
        BY <1>1, <3>2
      <4> QED BY <3>2, <4>1 DEF Counted, SavedOf
    <3> QED BY <3>1, <3>2
  <2>3. IsFiniteSet(C)
    BY FilesFinite DEF Counted, SavedOf
  <2> HIDE DEF C, f
  <2>4. Cardinality(C \cup {f}) = Cardinality(C) + 1
    BY <2>1, <2>3, FS_AddElement
  <2> QED BY <2>2, <2>4 DEF C
<1> QED BY <1>3, <1>4, <1>5, <1>6

LEMMA TakeResultInv == ASSUME IInv, NEW m \in results, TakeResult(m) PROVE IInv'
<1> USE DEF IInv, ServerInv
<1>1. /\ results' = results \ {m}
      /\ UNCHANGED <<slot, request, status, up, tries, ending, serverRx, paired, pending, telling, cancels, saved>>
  BY DEF TakeResult, serverVars
<1>2. m.key \in Key /\ m.key[1] \in Session /\ m.key[2] \in File /\ m.try \in 1..MaxTries
  BY KeyPairs DEF QueuesTyped, Results
<1>3. Moves /\ KeepsAsking /\ KeepsWaiting({})
  BY <1>1 DEF Moves, KeepsAsking, KeepsWaiting
<1>4. AbortedIsClosed' /\ AnnouncedOnce' /\ AskedLast'
  BY <1>1, <1>3, QueueKept
<1>5. UploadsStarted' /\ ResultsOnce'
  BY <1>1, <1>3, ServerKept
<1>6. /\ Cardinality(Told) + 1 <= Cardinality(Told')
      /\ Cardinality(Told) \in Nat /\ Cardinality(Told') \in Nat
      /\ receive.failed <= Cardinality(Told) /\ receive.failed \in Nat /\ receive.finished \in Nat
  <2>1. Told \in SUBSET (Key \X (1..MaxTries)) /\ Told' \in SUBSET (Key \X (1..MaxTries))
    BY DEF Told
  <2>2. Cardinality(Told) \in Nat /\ Cardinality(Told') \in Nat
    BY <2>1, AttemptsFinite, FS_CardinalityType
  <2>3. receive.failed \in Nat /\ receive.finished \in Nat
    BY KeysFinite, ConstantsAssumption DEF TypeOK
  <2> QED BY <1>1, <2>2, <2>3, ResultTaken DEF AppInv, CountsRight
<1>7. /\ AppInv' /\ summary' \in [Session -> Seq(Lines)]
      /\ receive' \in [session : Session \cup {None}, finished : 0..Cardinality(File),
                       failed : 0..Cardinality(Key) * MaxTries,
                       busy : SUBSET File, ended : {"none", "finished", "cancelled"}]
  <2>1. CASE receive.session # m.key[1]
    <3>1. UNCHANGED <<receive, summary>>
      BY <2>1 DEF TakeResult
    <3>2. \A s \in Session : receive.session = s => Counted(s)' = Counted(s)
      BY <1>1, <2>1, ResultTaken
    <3>3. tries' \in [Key -> Nat] /\ \A j \in Key : tries[j] <= tries'[j]
      BY <1>1, ConstantsAssumption DEF TypeOK
    <3>4. Told \subseteq Told'
      BY <1>1 DEF Told
    <3>5. AppInv'
      BY <1>1, <3>1, <3>2, <3>3, <3>4, AppWaits
    <3> QED BY <3>1, <3>5 DEF TypeOK, QueuesTyped
  <2>2. CASE receive.session = m.key[1]
    <3> DEFINE ok == m.result = "ok"
    <3> PICK r : r = [receive EXCEPT !.busy = @ \ {m.key[2]},
                                     !.finished = IF ok THEN @ + 1 ELSE @,
                                     !.failed = IF ok THEN @ ELSE @ + 1]
      OBVIOUS
    <3>1. FinishIfDone(r)
      BY <2>2 DEF TakeResult
    <3>2. /\ r.session = receive.session /\ r.busy = receive.busy \ {m.key[2]}
          /\ r.finished = IF ok THEN receive.finished + 1 ELSE receive.finished
          /\ r.failed = IF ok THEN receive.failed ELSE receive.failed + 1
          /\ r \in [session : Session \cup {None}, finished : Nat, failed : Nat,
                    busy : SUBSET File, ended : {"none", "finished", "cancelled"}]
      <4>1. /\ (IF ok THEN receive.finished + 1 ELSE receive.finished) \in Nat
            /\ (IF ok THEN receive.failed ELSE receive.failed + 1) \in Nat
            /\ receive.busy \ {m.key[2]} \in SUBSET File
        BY <1>6 DEF TypeOK
      <4> HIDE DEF ok
      <4> QED BY <4>1 DEF TypeOK
    <3>3. r.failed <= Cardinality(Told')
      BY <1>6, <3>2
    <3>4. r.finished = Cardinality(Counted(m.key[1])')
      <4>1. receive.finished = Cardinality(Counted(m.key[1]))
        BY <1>2, <2>2 DEF AppInv, CountsRight
      <4> QED BY <1>1, <3>2, <4>1, ResultTaken
    <3>5. ASSUME NEW k \in Key, r.session = k[1], tries[k] <= 1,
                 up[k] = "target" \/ \E n \in results' : n.key = k
          PROVE  k[2] \in r.busy
      <4>1. k[2] \in receive.busy
        BY <1>1, <3>2, <3>5 DEF AppInv, BusyUntilTold
      <4>2. k # m.key
        <5> SUFFICES ASSUME k = m.key PROVE FALSE
          OBVIOUS
        <5>1. m.try <= tries[k] /\ m.try = tries[k]
          BY <1>2, <3>5, ConstantsAssumption DEF ResultsOnce, TypeOK
        <5>2. up[k] # "target"
          BY <5>1 DEF ResultsOnce, Live
        <5>3. PICK n \in results' : n.key = k
          BY <3>5, <5>2
        <5>4. n \in results /\ n # m /\ n.try \in 1..MaxTries
          BY <1>1 DEF QueuesTyped, Results
        <5>5. n.try <= tries[k]
          BY <5>3, <5>4 DEF ResultsOnce
        <5>6. n.try = m.try
          BY <1>2, <3>5, <5>1, <5>4, <5>5, ConstantsAssumption DEF TypeOK
        <5> QED BY <5>3, <5>4, <5>6 DEF ResultsOnce
      <4>3. k[2] # m.key[2]
        <5>1. k = <<k[1], k[2]>> /\ m.key = <<m.key[1], m.key[2]>>
          BY <1>2, KeyPairs
        <5>2. k[1] = m.key[1]
          BY <2>2, <3>2, <3>5
        <5> QED BY <4>2, <5>1, <5>2
      <4> QED BY <3>2, <4>1, <4>3
    <3>6. r.session \in Session /\ r.finished = Cardinality(Counted(r.session)')
      BY <1>2, <2>2, <3>2, <3>4
    <3> QED BY <1>1, <3>1, <3>2, <3>3, <3>5, <3>6, Finishes
  <2> QED BY <2>1, <2>2
<1>8. TypeOK' /\ QueuesTyped'
  BY <1>1, <1>7 DEF TypeOK, QueuesTyped
<1> QED BY <1>4, <1>5, <1>7, <1>8

-----------------------------------------------------------------------------
(* Decisions of the user, or for a paired device.                          *)

Decision == (\E s \in Session : TakePrepare(s)) \/ PressYes \/ PressNo \/ CtrlC

LEMMA Accepted ==
    ASSUME IInv, NEW s \in Session, Accepts(s),
           UNCHANGED <<slot, status, up, tries, results, saved, summary>>
    PROVE  /\ Moves /\ AppInv'
           /\ \A u \in Session : request'[u] = "pending" => request[u] = "pending" /\ u # s
           /\ request' \in [Session -> {"none", "pending", "yes", "no", "active", "gone", "closed"}]
           /\ \A u \in Session : request'[u] \in {"pending", "yes", "no"} => slot' = u
           /\ receive' \in [session : Session \cup {None}, finished : 0..Cardinality(File),
                            failed : 0..Cardinality(Key) * MaxTries,
                            busy : SUBSET File, ended : {"none", "finished", "cancelled"}]
<1> USE DEF IInv, ServerInv
<1>1. CASE request[s] # "pending"
  <2>1. UNCHANGED <<request, receive>>
    BY <1>1 DEF Accepts
  <2>2. Moves
    BY <2>1 DEF Moves
  <2>3. AppInv'
    BY <2>1, <2>2, AppKept
  <2> QED BY <1>1, <2>1, <2>2, <2>3 DEF TypeOK
<1>2. CASE request[s] = "pending"
  <2>1. /\ request' = [request EXCEPT ![s] = "yes"]
        /\ receive' = ReceiveSession(s)
    BY <1>2 DEF Accepts
  <2>2. /\ receive'.session = s /\ receive'.finished = 0 /\ receive'.failed = 0
        /\ receive' \in [session : Session \cup {None}, finished : 0..Cardinality(File),
                         failed : 0..Cardinality(Key) * MaxTries,
                         busy : SUBSET File, ended : {"none", "finished", "cancelled"}]
    <3>1. 0 \in 0..Cardinality(File) /\ 0 \in 0..Cardinality(Key) * MaxTries
      BY KeysFinite, ConstantsAssumption
    <3> QED BY <2>1, <3>1 DEF ReceiveSession, NoReceive
  <2>3. Moves
    BY <1>2, <2>1 DEF Moves, TypeOK
  <2>4. \A k \in Key : k[1] = s => up[k] = "none" /\ k \notin saved /\ \A m \in results : m.key # k
    BY <1>2 DEF UploadsStarted, ResultsOnce
  <2>5. Counted(s)' = {}
    <3>1. SavedOf(s) = {}
      <4> SUFFICES ASSUME NEW f \in File, <<s, f>> \in saved PROVE FALSE
        BY DEF SavedOf
      <4>1. <<s, f>> \in Key /\ <<s, f>>[1] = s
        BY DEF TypeOK
      <4> QED BY <2>4, <4>1
    <3> QED BY <3>1 DEF Counted, SavedOf
  <2>6. AppInv'
    <3> USE DEF AppInv
    <3>1. ReceivedOnce'
      <4>1. \A u \in Session : request'[u] \in {"none", "pending"} => u # s /\ request[u] \in {"none", "pending"}
        BY <2>1 DEF TypeOK
      <4>2. summary[s] = <<>> /\ s # None
        BY <1>2, ConstantsAssumption DEF ReceivedOnce
      <4> QED BY <2>2, <4>1, <4>2 DEF ReceivedOnce
    <3>2. CountsRight'
      <4>1. Told' \in SUBSET (Key \X (1..MaxTries))
        BY DEF Told
      <4>2. 0 <= Cardinality(Told')
        BY <4>1, AttemptsFinite
      <4>3. Cardinality({}) = 0
        BY FS_EmptySet
      <4> QED BY <2>2, <2>5, <4>2, <4>3 DEF CountsRight
    <3>3. BusyUntilTold'
      BY <2>2, <2>4 DEF BusyUntilTold
    <3>4. LinesExact'
      BY DEF LinesExact, EndLines, Once, SavedOf
    <3> QED BY <3>1, <3>2, <3>3, <3>4
  <2>7. \A u \in Session : request'[u] = "pending" => request[u] = "pending" /\ u # s
    BY <2>1 DEF TypeOK
  <2>8. request' \in [Session -> {"none", "pending", "yes", "no", "active", "gone", "closed"}]
    BY <2>1 DEF TypeOK
  <2>9. \A u \in Session : request'[u] \in {"pending", "yes", "no"} => slot' = u
    BY <1>2, <2>1 DEF TypeOK
  <2> QED BY <2>2, <2>3, <2>6, <2>7, <2>8, <2>9
<1> QED BY <1>1, <1>2

\* The request that is put to the user, or accepted, is the last that was told.
LEMMA PrepareTaken ==
    ASSUME IInv, NEW s \in Session, Takes("prepare", s, None),
           \A u \in Session : request'[u] = "pending" => request[u] = "pending" /\ (u = s => pending' = s)
    PROVE  AskedLast'
<1> USE DEF IInv, ServerInv
<1>1. serverRx # <<>> /\ serverRx' = Tail(serverRx) /\ Head(serverRx) = Event("prepare", s, None)
  BY DEF Takes
<1>2. serverRx[1] = Event("prepare", s, None) /\ 1 \in DOMAIN serverRx /\ serverRx[1].kind = "prepare"
  <2>1. serverRx[1] = Event("prepare", s, None) /\ 1 \in DOMAIN serverRx
    BY <1>1, TailEvents
  <2>2. Event("prepare", s, None).kind = "prepare"
    BY DEF Event
  <2> QED BY <2>1, <2>2
<1>3. SUFFICES ASSUME NEW u \in Session, request'[u] = "pending"
               PROVE  \/ pending' = u /\ \A j \in DOMAIN Tail(serverRx) : Tail(serverRx)[j].kind # "prepare"
                      \/ \E i \in DOMAIN Tail(serverRx) :
                            /\ Tail(serverRx)[i] = Event("prepare", u, None)
                            /\ \A j \in DOMAIN Tail(serverRx) : Tail(serverRx)[j].kind = "prepare" => j <= i
  BY <1>1 DEF AskedLast
<1>4. PICK i \in DOMAIN serverRx :
        /\ serverRx[i] = Event("prepare", u, None)
        /\ \A j \in DOMAIN serverRx : serverRx[j].kind = "prepare" => j <= i
  BY <1>2, <1>3 DEF AskedLast
<1>5. \A j \in DOMAIN Tail(serverRx) :
        j \in Nat /\ (Tail(serverRx)[j].kind = "prepare" => j + 1 <= i /\ j + 1 # 1)
  BY <1>1, <1>4, TailEvents
<1>6. i \in Nat
  BY <1>4 DEF QueuesTyped
<1>7. CASE i = 1
  <2>1. u = s
    BY <1>2, <1>4, <1>7 DEF Event
  <2>2. \A j \in DOMAIN Tail(serverRx) : Tail(serverRx)[j].kind # "prepare"
    BY <1>5, <1>7
  <2> QED BY <1>3, <2>1, <2>2
<1>8. CASE i # 1
  <2>1. i - 1 \in DOMAIN Tail(serverRx) /\ Tail(serverRx)[i - 1] = Event("prepare", u, None)
    BY <1>1, <1>4, <1>8, TailEvents
  <2>2. \A j \in DOMAIN Tail(serverRx) : Tail(serverRx)[j].kind = "prepare" => j <= i - 1
    BY <1>5, <1>6
  <2> QED BY <2>1, <2>2
<1> QED BY <1>7, <1>8

LEMMA Declined ==
    ASSUME TypeOK, DeclinePending, UNCHANGED slot
    PROVE  /\ Moves /\ KeepsAsking /\ pending' = None
           /\ request' \in [Session -> {"none", "pending", "yes", "no", "active", "gone", "closed"}]
           /\ \A u \in Session : request'[u] \in {"pending", "yes", "no"} => slot' = u
<1>1. CASE pending = None
  BY <1>1, ConstantsAssumption DEF DeclinePending, TypeOK, Moves, KeepsAsking
<1>2. CASE pending # None
  <2>1. /\ pending \in Session /\ pending' = None
        /\ request' = [request EXCEPT ![pending] = IF request[pending] = "pending" THEN "no" ELSE request[pending]]
    BY <1>2 DEF DeclinePending, TypeOK
  <2>2. /\ request'[pending] = IF request[pending] = "pending" THEN "no" ELSE request[pending]
        /\ \A u \in Session : u # pending => request'[u] = request[u]
    BY <2>1 DEF TypeOK
  <2> QED BY <2>1, <2>2 DEF TypeOK, Moves, KeepsAsking
<1> QED BY <1>1, <1>2

\* The line of a session that the user cancelled does not claim to be exact.
LEMMA Cancelled ==
    ASSUME IInv, CancelReceive, Moves, UNCHANGED <<up, tries, results, saved>>
    PROVE  /\ AppInv' /\ summary' \in [Session -> Seq(Lines)] /\ telling' \in SUBSET Session
           /\ receive' \in [session : Session \cup {None}, finished : 0..Cardinality(File),
                            failed : 0..Cardinality(Key) * MaxTries,
                            busy : SUBSET File, ended : {"none", "finished", "cancelled"}]
<1> USE DEF IInv
<1>1. CASE receive = NoReceive
  <2>1. UNCHANGED <<receive, summary, telling>>
    BY <1>1 DEF CancelReceive
  <2>2. AppInv'
    BY <2>1, AppKept
  <2> QED BY <2>1, <2>2 DEF TypeOK, QueuesTyped
<1>2. CASE receive # NoReceive
  <2> DEFINE s == receive.session
             line == Line(receive, "cancelled here")
  <2>1. /\ receive' = NoReceive /\ telling' = telling \cup {s}
        /\ summary' = [summary EXCEPT ![s] = Append(summary[s], line)]
    BY <1>2 DEF CancelReceive, Says
  <2>2. s \in Session /\ summary[s] = <<>> /\ request[s] \notin {"none", "pending"}
    BY <1>2 DEF AppInv, ReceivedOnce, TypeOK
  <2>3. line \in Lines /\ line.how = "cancelled here"
    <3>1. receive.finished \in Nat
      BY KeysFinite DEF TypeOK
    <3> QED BY <3>1 DEF Line, Lines
  <2> HIDE DEF line
  <2>4. /\ Append(<<>>, line) = <<line>> /\ <<line>> \in Seq(Lines) /\ DOMAIN <<line>> = {1}
        /\ <<line>>[1] = line /\ Len(<<line>>) = 1
    <3>1. line \in Lines
      BY <2>3
    <3> HIDE DEF Lines
    <3> QED BY <3>1
  <2>5. /\ summary'[s] = <<line>> /\ \A u \in Session : u # s => summary'[u] = summary[u]
        /\ summary' \in [Session -> Seq(Lines)]
    BY <2>1, <2>2, <2>4 DEF QueuesTyped
  <2>6. receive' \in [session : Session \cup {None}, finished : 0..Cardinality(File),
                      failed : 0..Cardinality(Key) * MaxTries,
                      busy : SUBSET File, ended : {"none", "finished", "cancelled"}]
    <3>1. 0 \in 0..Cardinality(File) /\ 0 \in 0..Cardinality(Key) * MaxTries
      BY KeysFinite, ConstantsAssumption
    <3> QED BY <2>1, <3>1 DEF NoReceive
  <2>7. receive'.session = None /\ receive'.failed = 0 /\ None \notin Session
    BY <2>1, ConstantsAssumption DEF NoReceive
  <2>8. ReceivedOnce'
    <3>1. \A u \in Session : request'[u] \in {"none", "pending"} => request[u] \in {"none", "pending"}
      BY DEF Moves
    <3>2. \A u \in Session : request'[u] \in {"none", "pending"} => summary'[u] = <<>>
      BY <2>2, <2>5, <3>1 DEF AppInv, ReceivedOnce
    <3>3. \A u \in Session : Len(summary'[u]) <= 1
      <4>1. \A u \in Session : u # s => Len(summary'[u]) <= 1
        BY <2>5 DEF AppInv, ReceivedOnce
      <4>2. Len(summary'[s]) <= 1
        BY <2>4, <2>5
      <4> QED BY <4>1, <4>2
    <3> QED BY <2>1, <2>7, <3>2, <3>3 DEF ReceivedOnce
  <2>9. CountsRight' /\ BusyUntilTold'
    <3>1. \A k \in Key : receive'.session # k[1]
      BY <2>7, KeyPairs
    <3>2. Told' \in SUBSET (Key \X (1..MaxTries))
      BY DEF Told
    <3>3. 0 <= Cardinality(Told')
      BY <3>2, AttemptsFinite
    <3> QED BY <2>7, <3>1, <3>3 DEF CountsRight, BusyUntilTold
  <2>10. LinesExact'
    <3>1. \A u \in Session : \A i \in EndLines(u)' : i \in EndLines(u) /\ summary'[u] = summary[u]
      BY <2>3, <2>4, <2>5 DEF EndLines
    <3>2. \A u : SavedOf(u)' = SavedOf(u) /\ Once(u)' = Once(u)
      BY DEF SavedOf, Once
    <3> QED BY <3>1, <3>2 DEF AppInv, LinesExact
  <2>11. telling' \in SUBSET Session
    BY <2>1, <2>2 DEF TypeOK
  <2> QED BY <2>5, <2>6, <2>8, <2>9, <2>10, <2>11 DEF AppInv
<1> QED BY <1>1, <1>2

LEMMA DecisionInv == ASSUME IInv, Decision PROVE IInv'
<1> USE DEF IInv, ServerInv
<1>1. /\ UNCHANGED <<slot, status, up, tries, ending, results, saved>>
      /\ paired' \in BOOLEAN /\ cancels' \in 0..MaxCancels
  <2>1. paired \in BOOLEAN /\ cancels \in 0..MaxCancels /\ MaxCancels \in Nat
    BY ConstantsAssumption DEF TypeOK
  <2>2. cancels' \in {cancels, cancels + 1} /\ (cancels' # cancels => cancels < MaxCancels)
    BY DEF Decision, TakePrepare, PressYes, PressNo, CtrlC
  <2>3. cancels' \in 0..MaxCancels
    BY <2>1, <2>2
  <2>4. paired' \in BOOLEAN
    BY <2>1 DEF Decision, TakePrepare, PressYes, PressNo, CtrlC, Pairs
  <2>5. UNCHANGED <<slot, status, up, tries, ending, results, saved>>
    BY DEF Decision, TakePrepare, PressYes, PressNo, CtrlC
  <2> QED BY <2>3, <2>4, <2>5
<1>2. KeepsWaiting({})
  BY <1>1 DEF KeepsWaiting
<1>3. ASSUME NEW s \in Session, TakePrepare(s) PROVE IInv'
  <2>1. Takes("prepare", s, None) /\ UNCHANGED <<paired, summary, telling, cancels>>
    BY <1>3 DEF TakePrepare
  <2>2. serverRx # <<>> /\ serverRx' = Tail(serverRx)
    BY <2>1 DEF Takes
  <2>3. ASSUME Moves
        PROVE  serverRx' \in Seq(Events) /\ AbortedIsClosed' /\ AnnouncedOnce' /\ UploadsStarted' /\ ResultsOnce'
    <3>1. {} \in SUBSET Key /\ \A k \in {} : Head(serverRx) = Event("upload", k[1], k[2])
      OBVIOUS
    <3> QED BY <1>1, <1>2, <2>2, <2>3, <3>1, QueueTaken, ServerKept
  <2>4. CASE paired
    <3>1. Accepts(s) /\ UNCHANGED pending
      BY <1>3, <2>4 DEF TakePrepare
    <3>2. AskedLast'
      BY <1>1, <2>1, <3>1, Accepted, PrepareTaken
    <3> QED BY <1>1, <2>1, <2>3, <3>1, <3>2, Accepted DEF TypeOK, QueuesTyped
  <2>5. CASE ~paired
    <3>1. pending' = s /\ UNCHANGED <<request, receive>>
      BY <1>3, <2>5 DEF TakePrepare
    <3>2. Moves
      BY <3>1 DEF Moves
    <3>3. AskedLast'
      BY <2>1, <3>1, PrepareTaken
    <3>4. AppInv'
      BY <1>1, <2>1, <3>1, <3>2, AppKept
    <3> QED BY <1>1, <2>1, <2>3, <3>1, <3>2, <3>3, <3>4 DEF TypeOK, QueuesTyped
  <2> QED BY <2>4, <2>5
<1>4. CASE PressYes
  <2>1. /\ pending \in Session /\ pending' = None /\ Accepts(pending)
        /\ UNCHANGED <<serverRx, summary, telling, cancels>>
    BY <1>4 DEF PressYes, TypeOK
  <2>2. KeepsAsking
    BY <1>1, <2>1, Accepted DEF KeepsAsking
  <2>3. Moves /\ AppInv'
    BY <1>1, <2>1, Accepted
  <2>4. AbortedIsClosed' /\ AnnouncedOnce' /\ AskedLast' /\ UploadsStarted' /\ ResultsOnce'
    BY <1>1, <1>2, <2>1, <2>2, <2>3, QueueKept, ServerKept
  <2> QED BY <1>1, <2>1, <2>3, <2>4, Accepted DEF TypeOK, QueuesTyped
<1>5. CASE PressNo \/ CtrlC
  <2>1. DeclinePending /\ UNCHANGED serverRx
    BY <1>5 DEF PressNo, CtrlC
  <2>2. Moves /\ KeepsAsking
    BY <1>1, <2>1, Declined
  <2>3. AbortedIsClosed' /\ AnnouncedOnce' /\ AskedLast' /\ UploadsStarted' /\ ResultsOnce'
    BY <1>1, <1>2, <2>1, <2>2, QueueKept, ServerKept
  <2>4. /\ AppInv' /\ summary' \in [Session -> Seq(Lines)] /\ telling' \in SUBSET Session
        /\ receive' \in [session : Session \cup {None}, finished : 0..Cardinality(File),
                         failed : 0..Cardinality(Key) * MaxTries,
                         busy : SUBSET File, ended : {"none", "finished", "cancelled"}]
    <3>1. CASE PressNo
      BY <1>1, <2>2, <3>1, AppKept DEF PressNo, TypeOK, QueuesTyped
    <3>2. CASE CtrlC
      BY <1>1, <2>2, <3>2, Cancelled DEF CtrlC
    <3> QED BY <1>5, <3>1, <3>2
  <2> QED BY <1>1, <2>1, <2>3, <2>4, Declined DEF TypeOK, QueuesTyped
<1> QED BY <1>3, <1>4, <1>5 DEF Decision

-----------------------------------------------------------------------------
(* The theorems.                                                           *)

LEMMA StutterInv == ASSUME IInv, UNCHANGED vars PROVE IInv'
<1>1. UNCHANGED <<slot, request, status, up, tries, ending, serverRx, paired, pending, receive,
                  summary, telling, cancels, results, saved>>
  BY DEF vars, serverVars, appVars
<1>2. Moves /\ KeepsAsking /\ KeepsWaiting({})
  BY <1>1 DEF Moves, KeepsAsking, KeepsWaiting
<1>3. AbortedIsClosed' /\ AnnouncedOnce' /\ AskedLast' /\ UploadsStarted' /\ ResultsOnce' /\ AppInv'
  BY <1>1, <1>2, QueueKept, ServerKept, AppKept DEF IInv, ServerInv
<1> QED BY <1>1, <1>3 DEF IInv, TypeOK, QueuesTyped, ServerInv

LEMMA InvStep == IInv /\ [Next]_vars => IInv'
<1> SUFFICES ASSUME IInv, [Next]_vars PROVE IInv'
  OBVIOUS
<1>1. CASE Server
  BY <1>1, SessionInv, UploadInv DEF Server, SessionStep, UploadStep
<1>2. CASE Senders
  BY <1>2, SessionInv, UploadInv DEF Senders, SessionStep, UploadStep
<1>3. CASE TakesEvent
  BY <1>3, DecisionInv, SessionInv, TakeEndInv, TakeUploadInv DEF TakesEvent, Decision, SessionStep
<1>4. CASE TakesResult
  BY <1>4, TakeResultInv DEF TakesResult
<1>5. CASE User
  BY <1>5, DecisionInv DEF User, Decision
<1>6. CASE UNCHANGED vars
  BY <1>6, StutterInv
<1> QED BY <1>1, <1>2, <1>3, <1>4, <1>5, <1>6 DEF Next

LEMMA Invariant == Spec => []IInv
<1> QED BY InitInv, InvStep, PTL DEF Spec

\* Every session has at most one closing line, and one that the server ended
\* counts the files that were saved.
THEOREM SummariesAreExact == Spec => []SummaryExact
<1>1. IInv => SummaryExact
  BY DEF IInv, AppInv, ReceivedOnce, LinesExact, Once, SummaryExact, Exact
<1> QED BY <1>1, Invariant, PTL

\* The user is asked about the request that waits, whatever was aborted before.
THEOREM WaitingRequestsAreAsked == Spec => []WaitingIsAsked
<1>1. IInv => WaitingIsAsked
  BY DEF IInv, AskedLast, WaitingIsAsked
<1> QED BY <1>1, Invariant, PTL

-----------------------------------------------------------------------------
(* The server in CliReceive is the abstract slot of SessionSlot.           *)

Settled == {"finished", "failed"}
Held    == {"pending", "yes", "no", "active"}
Writing(k) == up[k] \notin {"none", "dropped"}

\* Who is in the slot has a request that keeps it there, only files of a
\* session that has started are touched, and a session that is going on has a
\* file to come.
SlotInv ==
    /\ slot # None => request[slot] \in Held
    /\ \A k \in Key :
        /\ request[k[1]] # "active" => status[k] = "pending"
        /\ Writing(k) => status[k] = "progress"
    /\ SlotActive => SlotTodo # {}

\* A step that moves neither the slot nor what is left to do in it.
LEMMA SlotQuiet ==
    ASSUME TypeOK, SlotInv, slot' = slot,
           \A s \in Session : /\ request'[s] = "none" <=> request[s] = "none"
                              /\ request'[s] = "active" <=> request[s] = "active"
                              /\ slot = s => request'[s] \in Held,
           \A k \in Key : /\ status'[k] \in Settled <=> status[k] \in Settled
                          /\ request[k[1]] # "active" => status'[k] = status[k]
                          /\ Writing(k)' => status'[k] = "progress"
    PROVE  SlotInv' /\ UNCHANGED Slot!slotVars
<1>1. slot = None \/ slot \in Session
  BY DEF TypeOK
<1>2. SlotActive' <=> SlotActive
  BY <1>1 DEF SlotActive
<1>3. SlotPhase' = SlotPhase
  BY <1>2 DEF SlotPhase
<1>4. SlotTodo' = SlotTodo
  <2>1. ASSUME SlotActive, NEW f \in FilesOf[slot]
        PROVE  status'[<<slot, f>>] \in Settled <=> status[<<slot, f>>] \in Settled
    BY <1>1, <2>1, KeyPairs DEF SlotActive
  <2> QED BY <1>2, <2>1 DEF SlotTodo, Settled
<1>5. {s \in Session : request'[s] # "none"} = {s \in Session : request[s] # "none"}
  OBVIOUS
<1>6. SlotInv'
  <2>1. slot' # None => request'[slot'] \in Held
    BY <1>1
  <2>2. \A k \in Key : request'[k[1]] # "active" => status'[k] = "pending"
    BY KeyPairs DEF SlotInv
  <2> QED BY <1>2, <1>4, <2>1, <2>2 DEF SlotInv
<1> QED BY <1>3, <1>4, <1>5, <1>6 DEF Slot!slotVars

\* A step that empties the slot.
LEMMA SlotFreed ==
    ASSUME TypeOK, SlotInv, slot' = None,
           \A s \in Session : /\ request'[s] = "none" <=> request[s] = "none"
                              /\ request[s] = "active" => request'[s] = "active",
           \A k \in Key : /\ request[k[1]] # "active" => status'[k] = status[k]
                          /\ Writing(k)' => status'[k] = "progress"
    PROVE  /\ SlotInv' /\ SlotPhase' = "Free" /\ SlotTodo' = {} /\ {slot'} \ {None} = {}
           /\ {s \in Session : request'[s] # "none"} = {s \in Session : request[s] # "none"}
<1>1. ~SlotActive' /\ SlotPhase' = "Free" /\ SlotTodo' = {}
  BY DEF SlotActive, SlotPhase, SlotTodo
<1>2. \A k \in Key : request'[k[1]] # "active" => status'[k] = "pending"
  BY KeyPairs DEF SlotInv
<1> QED BY <1>1, <1>2 DEF SlotInv

LEMMA SessionRefines ==
    ASSUME IInv, SlotInv, NEW s \in Session, SessionStep(s)
    PROVE  SlotInv' /\ [Slot!Next]_Slot!slotVars
<1> USE DEF IInv
<1>1. UNCHANGED <<status, up>>
  BY SessionFrame
<1>2. \A k \in Key : Writing(k)' <=> Writing(k)
  BY <1>1 DEF Writing
<1>3. s # None
  BY ConstantsAssumption
<1>4. CASE AsksToSend(s)
  <2>1. /\ request[s] = "none" /\ slot = None /\ slot' = s
        /\ request' = [request EXCEPT ![s] = "pending"]
    BY <1>4 DEF AsksToSend
  <2>2. \A u \in Session : request'[u] = IF u = s THEN "pending" ELSE request[u]
    BY <2>1 DEF TypeOK
  <2>3. SlotPhase = "Free" /\ SlotPhase' = "Pending" /\ ~SlotActive'
    BY <1>3, <2>1, <2>2 DEF SlotPhase, SlotActive
  <2>4. SlotTodo = {} /\ SlotTodo' = {}
    BY <2>1, <2>3 DEF SlotTodo, SlotActive
  <2>5. \A k \in Key : request'[k[1]] # "active" => status'[k] = "pending"
    BY <1>1, <2>1, <2>2, KeyPairs DEF SlotInv
  <2>6. SlotInv'
    BY <1>1, <1>2, <2>1, <2>2, <2>3, <2>5 DEF SlotInv, Held
  <2>7. s \notin {u \in Session : request[u] # "none"}
        /\ {u \in Session : request'[u] # "none"} = {u \in Session : request[u] # "none"} \cup {s}
    BY <2>1, <2>2
  <2>8. {slot'} \ {None} = {s}
    BY <1>3, <2>1
  <2>9. Slot!Claim(s)
    BY <2>3, <2>4, <2>7, <2>8 DEF Slot!Claim
  <2> QED BY <2>6, <2>9 DEF Slot!Next
<1>5. CASE Answers(s) /\ request[s] = "yes"
  <2>1. slot = s /\ slot' = s /\ request' = [request EXCEPT ![s] = "active"]
    BY <1>5 DEF Answers, TypeOK
  <2>2. \A u \in Session : request'[u] = IF u = s THEN "active" ELSE request[u]
    BY <2>1 DEF TypeOK
  <2>3. SlotPhase = "Pending" /\ SlotPhase' = "Active" /\ ~SlotActive /\ SlotActive'
    BY <1>3, <1>5, <2>1, <2>2 DEF SlotPhase, SlotActive
  <2>4. \A f \in FilesOf[s] : status'[<<s, f>>] = "pending"
    BY <1>1, <1>5, KeyPairs DEF SlotInv
  <2>5. SlotTodo' = FilesOf[s]
    BY <2>1, <2>3, <2>4 DEF SlotTodo
  <2>6. FilesOf[s] # {} /\ FilesOf[s] \in SUBSET File
    BY ConstantsAssumption
  <2>7. \A k \in Key : request'[k[1]] # "active" => status'[k] = "pending"
    BY <1>1, <2>2, KeyPairs DEF SlotInv
  <2>8. SlotInv'
    BY <1>1, <1>2, <2>1, <2>2, <2>5, <2>6, <2>7 DEF SlotInv, Held
  <2>9. {u \in Session : request'[u] # "none"} = {u \in Session : request[u] # "none"}
    BY <1>5, <2>2
  <2>10. Slot!Accept(FilesOf[s])
    BY <2>1, <2>3, <2>5, <2>6, <2>9 DEF Slot!Accept
  <2> QED BY <2>6, <2>8, <2>10 DEF Slot!Next
<1>6. CASE (Answers(s) /\ request[s] # "yes") \/ DropPrepare(s)
  <2>1. /\ request[s] \in {"pending", "yes", "no"} /\ slot' = None
        /\ request' = [request EXCEPT ![s] = "closed"] \/ request' = [request EXCEPT ![s] = "gone"]
    BY <1>6 DEF Answers, DropPrepare
  <2>2. \A u \in Session : u # s => request'[u] = request[u]
    BY <2>1 DEF TypeOK
  <2>3. request'[s] \in {"closed", "gone"}
    BY <2>1 DEF TypeOK
  <2>4. slot = s
    BY <2>1 DEF TypeOK
  <2>5. SlotPhase = "Pending" /\ SlotTodo = {}
    BY <1>3, <2>1, <2>4 DEF SlotPhase, SlotActive, SlotTodo
  <2>6. /\ \A u \in Session : /\ request'[u] = "none" <=> request[u] = "none"
                              /\ request[u] = "active" => request'[u] = "active"
        /\ \A k \in Key : /\ request[k[1]] # "active" => status'[k] = status[k]
                          /\ Writing(k)' => status'[k] = "progress"
    BY <1>1, <1>2, <2>1, <2>2, <2>3 DEF SlotInv
  <2>7. /\ SlotInv' /\ SlotPhase' = "Free" /\ SlotTodo' = {} /\ {slot'} \ {None} = {}
        /\ {u \in Session : request'[u] # "none"} = {u \in Session : request[u] # "none"}
    BY <2>1, <2>6, SlotFreed
  <2>8. Slot!GiveUp
    BY <2>5, <2>7 DEF Slot!GiveUp
  <2> QED BY <2>7, <2>8 DEF Slot!Next
<1>7. CASE CancelBySender(s) \/ (CancelSession(s) /\ Cancellable(s))
  <2>1. slot = s /\ request[s] = "active" /\ slot' = None /\ request' = request
    BY <1>7 DEF CancelBySender, CancelSession, Cancellable
  <2>2. SlotPhase = "Active"
    BY <1>3, <2>1 DEF SlotPhase, SlotActive
  <2>3. \A k \in Key : /\ request[k[1]] # "active" => status'[k] = status[k]
                       /\ Writing(k)' => status'[k] = "progress"
    BY <1>1, <1>2 DEF SlotInv
  <2>4. /\ SlotInv' /\ SlotPhase' = "Free" /\ SlotTodo' = {} /\ {slot'} \ {None} = {}
        /\ {u \in Session : request'[u] # "none"} = {u \in Session : request[u] # "none"}
    BY <2>1, <2>3, SlotFreed
  <2>5. Slot!EndEarly
    BY <2>2, <2>4 DEF Slot!EndEarly
  <2> QED BY <2>4, <2>5 DEF Slot!Next
<1>8. CASE TellAborted(s) \/ TellEnd(s) \/ TakeAborted(s) \/ (CancelSession(s) /\ ~Cancellable(s))
  <2>1. slot' = slot
    BY <1>8 DEF TellAborted, TellEnd, TakeAborted, CancelSession, serverVars
  <2>2. request' = request \/ (request[s] = "gone" /\ request' = [request EXCEPT ![s] = "closed"])
    BY <1>8 DEF TellAborted, TellEnd, TakeAborted, CancelSession, serverVars
  <2>3. \A u \in Session : slot = u => request[u] \in Held
    BY ConstantsAssumption DEF SlotInv
  <2>4. \A u \in Session : /\ request'[u] = "none" <=> request[u] = "none"
                           /\ request'[u] = "active" <=> request[u] = "active"
                           /\ slot = u => request'[u] \in Held
    BY <2>2, <2>3 DEF TypeOK, Held
  <2>5. \A k \in Key : /\ status'[k] \in Settled <=> status[k] \in Settled
                       /\ request[k[1]] # "active" => status'[k] = status[k]
                       /\ Writing(k)' => status'[k] = "progress"
    BY <1>1, <1>2 DEF SlotInv
  <2> QED BY <2>1, <2>4, <2>5, SlotQuiet
<1> QED BY <1>4, <1>5, <1>6, <1>7, <1>8 DEF SessionStep

\* An upload whose file is settled, in the session it belongs to.
LEMMA SettleRefines ==
    ASSUME IInv, SlotInv, NEW k \in Key, NEW r \in {"ok", "failed", "mismatch"},
           Writing(k), slot = k[1], Finalizes(k, r), UNCHANGED request,
           \A j \in Key : Writing(j)' => Writing(j) /\ j # k
    PROVE  SlotInv' /\ [Slot!Next]_Slot!slotVars
<1> USE DEF IInv, ServerInv
<1> DEFINE f == k[2]
<1>1. f \in FilesOf[slot] /\ f \in File /\ slot \in Session /\ slot # None /\ k = <<slot, f>>
  BY KeyPairs, ConstantsAssumption
<1>2. request[slot] = "active" /\ SlotActive /\ SlotPhase = "Active"
  BY <1>1 DEF UploadsStarted, Writing, SlotActive, SlotPhase
<1>3. status[k] = "progress" /\ status' = [status EXCEPT ![k] = FinalStatus(k, r)]
  BY DEF SlotInv, Finalizes
<1>4. status'[k] = FinalStatus(k, r) /\ \A j \in Key \ {k} : status'[j] = status[j]
  BY <1>3 DEF TypeOK
<1>5. FinalStatus(k, r) \in {"pending", "finished", "failed"}
  BY DEF FinalStatus
<1>6. \A j \in Key : /\ request[j[1]] # "active" => status'[j] = status[j]
                     /\ Writing(j)' => status'[j] = "progress"
  BY <1>2, <1>4 DEF SlotInv
<1>7. \A s \in Session : /\ request'[s] = "none" <=> request[s] = "none"
                         /\ request'[s] = "active" <=> request[s] = "active"
                         /\ slot = s => request'[s] \in Held
  BY <1>2 DEF Held
<1>8. CASE FinalStatus(k, r) = "pending"
  <2>1. ~\A g \in FilesOf[k[1]] : status'[<<k[1], g>>] \in {"finished", "failed"}
    BY <1>1, <1>4, <1>8
  <2>2. slot' = slot
    BY <2>1 DEF Finalizes
  <2>3. \A j \in Key : status'[j] \in Settled <=> status[j] \in Settled
    BY <1>3, <1>4, <1>8 DEF Settled
  <2> QED BY <1>6, <1>7, <2>2, <2>3, SlotQuiet
<1>9. CASE FinalStatus(k, r) # "pending"
  <2> DEFINE left == {g \in FilesOf[slot] : status'[<<slot, g>>] \notin {"finished", "failed"}}
  <2>1. status'[k] \in {"finished", "failed"} /\ status[k] \notin {"finished", "failed"}
    BY <1>3, <1>4, <1>5, <1>9
  <2>2. \A g \in FilesOf[slot] : <<slot, g>> \in Key /\ (g # f => status'[<<slot, g>>] = status[<<slot, g>>])
    BY <1>1, <1>4, KeyPairs
  <2>3. f \in SlotTodo /\ left = SlotTodo \ {f}
    BY <1>1, <1>2, <2>1, <2>2 DEF SlotTodo
  <2>4. CASE left = {}
    <3>1. slot' = None
      BY <2>4 DEF Finalizes
    <3>2. /\ SlotInv' /\ SlotPhase' = "Free" /\ SlotTodo' = {} /\ {slot'} \ {None} = {}
          /\ {s \in Session : request'[s] # "none"} = {s \in Session : request[s] # "none"}
      BY <1>6, <1>7, <3>1, SlotFreed
    <3>3. SlotTodo = {f}
      BY <2>3, <2>4
    <3>4. Slot!Settle(f)
      BY <1>2, <2>3, <3>2, <3>3 DEF Slot!Settle
    <3> QED BY <1>1, <3>2, <3>4 DEF Slot!Next
  <2>5. CASE left # {}
    <3>1. slot' = slot
      BY <2>5 DEF Finalizes
    <3>2. SlotActive' /\ SlotPhase' = "Active" /\ SlotTodo' = left
      BY <1>1, <1>2, <3>1 DEF SlotActive, SlotPhase, SlotTodo
    <3>3. SlotInv'
      BY <1>2, <1>6, <2>5, <3>1, <3>2 DEF SlotInv, Held
    <3>4. SlotTodo # {f}
      BY <2>3, <2>5
    <3>5. Slot!Settle(f)
      BY <1>2, <2>3, <3>1, <3>2, <3>4 DEF Slot!Settle
    <3> QED BY <1>1, <3>3, <3>5 DEF Slot!Next
  <2> QED BY <2>4, <2>5
<1> QED BY <1>8, <1>9

LEMMA UploadRefines ==
    ASSUME IInv, SlotInv, NEW k \in Key, UploadStep(k) \/ TakeUpload(k)
    PROVE  SlotInv' /\ [Slot!Next]_Slot!slotVars
<1> USE DEF IInv, ServerInv
<1>1. request' = request
  BY UploadFrame DEF TakeUpload
<1>2. \A s \in Session : slot = s => request[s] \in Held
  BY ConstantsAssumption DEF SlotInv
<1>3. up[k] # "none" => request[k[1]] = "active"
  BY DEF UploadsStarted
<1>4. CASE Upload(k)
  <2>1. /\ slot' = slot /\ request[k[1]] = "active" /\ status[k] = "pending"
        /\ status' = [status EXCEPT ![k] = "progress"] /\ up' = [up EXCEPT ![k] = "admitted"]
    BY <1>4, Zenon DEF Upload
  <2>2. \A j \in Key : /\ status'[j] = IF j = k THEN "progress" ELSE status[j]
                       /\ j # k => up'[j] = up[j]
    BY <2>1 DEF TypeOK
  <2>3. \A j \in Key : /\ status'[j] \in Settled <=> status[j] \in Settled
                       /\ request[j[1]] # "active" => status'[j] = status[j]
                       /\ Writing(j)' => status'[j] = "progress"
    BY <2>1, <2>2 DEF SlotInv, Writing, Settled
  <2> QED BY <1>1, <1>2, <2>1, <2>3, SlotQuiet
<1>5. CASE Announce(k) \/ Save(k) \/ TakeUpload(k)
  <2>1. slot' = slot /\ status' = status
    BY <1>5 DEF Announce, Save, TakeUpload
  <2>2. \A j \in Key : j # k => up'[j] = up[j]
    BY <1>5 DEF Announce, Save, TakeUpload, TypeOK
  <2>3. Writing(k)' => Writing(k)
    BY <1>5 DEF Announce, Save, TakeUpload, TypeOK, Writing
  <2>4. \A j \in Key : /\ status'[j] \in Settled <=> status[j] \in Settled
                       /\ request[j[1]] # "active" => status'[j] = status[j]
                       /\ Writing(j)' => status'[j] = "progress"
    BY <2>1, <2>2, <2>3 DEF SlotInv, Writing
  <2> QED BY <1>1, <1>2, <2>1, <2>4, SlotQuiet
<1>6. CASE Finish(k) \/ DropUpload(k)
  <2>1. PICK r \in {"ok", "failed", "mismatch"} : Finalizes(k, r)
    BY <1>6 DEF Finish, DropUpload
  <2>2. Writing(k) /\ \A j \in Key : Writing(j)' => Writing(j) /\ j # k
    BY <1>6 DEF Finish, DropUpload, Writing, TypeOK
  <2>3. CASE slot = k[1]
    BY <1>1, <2>1, <2>2, <2>3, SettleRefines
  <2>4. CASE slot # k[1]
    <3>1. slot' = slot /\ status' = status
      BY <2>1, <2>4 DEF Finalizes
    <3>2. \A j \in Key : /\ status'[j] \in Settled <=> status[j] \in Settled
                         /\ request[j[1]] # "active" => status'[j] = status[j]
                         /\ Writing(j)' => status'[j] = "progress"
      BY <2>2, <3>1 DEF SlotInv
    <3> QED BY <1>1, <1>2, <3>1, <3>2, SlotQuiet
  <2> QED BY <2>3, <2>4
<1> QED BY <1>4, <1>5, <1>6 DEF UploadStep

\* The application moves a request only between the answers that are waited for.
LEMMA AppRefines ==
    ASSUME IInv, SlotInv, UNCHANGED <<slot, status, up>>,
           request' = request
               \/ \E s \in Session, a \in {"yes", "no"} :
                    request[s] = "pending" /\ request' = [request EXCEPT ![s] = a]
    PROVE  SlotInv' /\ [Slot!Next]_Slot!slotVars
<1> USE DEF IInv
<1>1. \A s \in Session : slot = s => request[s] \in Held
  BY ConstantsAssumption DEF SlotInv
<1>2. \A s \in Session : /\ request'[s] = "none" <=> request[s] = "none"
                         /\ request'[s] = "active" <=> request[s] = "active"
                         /\ slot = s => request'[s] \in Held
  BY <1>1 DEF TypeOK, Held
<1>3. \A k \in Key : /\ status'[k] \in Settled <=> status[k] \in Settled
                     /\ request[k[1]] # "active" => status'[k] = status[k]
                     /\ Writing(k)' => status'[k] = "progress"
  BY DEF SlotInv, Writing
<1> QED BY <1>2, <1>3, SlotQuiet

LEMMA SlotStep == IInv /\ SlotInv /\ [Next]_vars => SlotInv' /\ [Slot!Next]_Slot!slotVars
<1> SUFFICES ASSUME IInv, SlotInv, [Next]_vars PROVE SlotInv' /\ [Slot!Next]_Slot!slotVars
  OBVIOUS
<1>1. ASSUME NEW s \in Session, SessionStep(s) PROVE SlotInv' /\ [Slot!Next]_Slot!slotVars
  BY <1>1, SessionRefines
<1>2. ASSUME NEW k \in Key, UploadStep(k) \/ TakeUpload(k)
      PROVE  SlotInv' /\ [Slot!Next]_Slot!slotVars
  BY <1>2, UploadRefines
<1>3. ASSUME TakesResult \/ (\E s \in Session : TakeEnd(s)) \/ UNCHANGED vars
      PROVE  SlotInv' /\ [Slot!Next]_Slot!slotVars
  <2>1. UNCHANGED <<slot, status, up, request>>
    <3>1. CASE TakesResult
      BY <3>1, Zenon DEF TakesResult, TakeResult, serverVars
    <3>2. CASE \E s \in Session : TakeEnd(s)
      BY <3>2, Zenon DEF TakeEnd, serverVars
    <3>3. CASE UNCHANGED vars
      BY <3>3 DEF vars, serverVars
    <3> QED BY <1>3, <3>1, <3>2, <3>3
  <2> QED BY <2>1, AppRefines
<1>4. ASSUME Decision PROVE SlotInv' /\ [Slot!Next]_Slot!slotVars
  <2>1. UNCHANGED <<slot, status, up>>
    BY <1>4 DEF Decision, TakePrepare, PressYes, PressNo, CtrlC
  <2>2. pending \in Session \cup {None}
    BY DEF IInv, TypeOK
  <2>3. \/ request' = request
        \/ \E s \in Session, a \in {"yes", "no"} :
              request[s] = "pending" /\ request' = [request EXCEPT ![s] = a]
    <3>1. ASSUME NEW s \in Session, TakePrepare(s)
          PROVE  request' = request \/ (request[s] = "pending" /\ request' = [request EXCEPT ![s] = "yes"])
      BY <3>1 DEF TakePrepare, Accepts
    <3>2. ASSUME PressYes
          PROVE  /\ pending \in Session
                 /\ request' = request \/ (request[pending] = "pending" /\ request' = [request EXCEPT ![pending] = "yes"])
      BY <2>2, <3>2 DEF PressYes, Accepts
    <3>3. ASSUME DeclinePending
          PROVE  \/ request' = request
                 \/ /\ pending \in Session /\ request[pending] = "pending"
                    /\ request' = [request EXCEPT ![pending] = "no"]
      BY <2>2, <3>3 DEF DeclinePending, IInv, TypeOK
    <3> QED BY <1>4, <3>1, <3>2, <3>3 DEF Decision, PressNo, CtrlC
  <2> QED BY <2>1, <2>3, AppRefines
<1> QED BY <1>1, <1>2, <1>3, <1>4
        DEF Next, Server, Senders, TakesEvent, User, SessionStep, UploadStep, Decision

\* Seen from outside, the server under the application is the abstract session
\* slot, the one that UploadServer implements with handlers, locks and drops.
THEOREM Refinement == Spec => ImplementsSlot
<1>1. Init => SlotInv /\ Slot!Init
  <2> SUFFICES ASSUME Init PROVE SlotInv /\ Slot!Init
    OBVIOUS
  <2>1. slot = None /\ ~SlotActive /\ SlotPhase = "Free" /\ SlotTodo = {} /\ {slot} \ {None} = {}
    BY DEF Init, SlotActive, SlotPhase, SlotTodo
  <2>2. {s \in Session : request[s] # "none"} = {}
    BY DEF Init
  <2>3. SlotInv
    BY <2>1 DEF Init, SlotInv, Writing
  <2> QED BY <2>1, <2>2, <2>3 DEF Slot!Init
<1>2. IInv /\ SlotInv /\ [Next]_vars => SlotInv' /\ [Slot!Next]_Slot!slotVars
  BY SlotStep
<1> QED BY <1>1, <1>2, Invariant, PTL DEF Spec, ImplementsSlot, Slot!Spec

-----------------------------------------------------------------------------
(* What ReceivingEnds rests on: a session that is waited for has its end,   *)
(* or the result of each file that keeps it open, on the way.               *)

\* The SessionEnd that is being sent, or waits for the application.
EndSent(s, ends, rx) ==
    \/ ends[s] # "none"
    \/ \E i \in DOMAIN rx : rx[i].kind \in {"finished", "cancelled"} /\ rx[i].session = s

\* The file is being written, or its result waits for the application.
ResultSent(k, ups, res) == ups[k] = "target" \/ \E m \in res : m.key = k

EndIsComing ==
    \A s \in Session :
        receive.session = s =>
            /\ \A f \in receive.busy : <<s, f>> \in Key /\ ResultSent(<<s, f>>, up, results)
            /\ receive.ended # "none" => receive.busy # {}
            /\ receive.ended = "none" /\ request[s] = "active" /\ slot # s => EndSent(s, ending, serverRx)

\* A session that the server is told to cancel is closed here.
ToldIsClosed == \A s \in telling : summary[s] # <<>>

ClosingInv == EndIsComing /\ ToldIsClosed

\* What is under way to the application arrives there.
LEMMA EndKept ==
    ASSUME IInv, NEW s \in Session, EndSent(s, ending, serverRx),
           \/ UNCHANGED <<ending, serverRx>>
           \/ /\ UNCHANGED ending
              /\ \E e \in Events : serverRx' = Append(serverRx, e)
           \/ \E u \in Session :
                 /\ ending[u] \in {"finished", "cancelled"}
                 /\ ending' = [ending EXCEPT ![u] = "none"]
                 /\ serverRx' = Append(serverRx, Event(ending[u], u, None))
           \/ /\ UNCHANGED ending
              /\ serverRx # <<>> /\ serverRx' = Tail(serverRx)
              /\ Head(serverRx).kind \in {"finished", "cancelled"} => Head(serverRx).session # s
    PROVE  EndSent(s, ending', serverRx')
<1> USE DEF IInv
<1>1. \A e : \A i \in DOMAIN serverRx :
          i \in DOMAIN Append(serverRx, e) /\ Append(serverRx, e)[i] = serverRx[i]
  BY DEF QueuesTyped
<1>2. \A e : LET n == Len(serverRx) + 1 IN n \in DOMAIN Append(serverRx, e) /\ Append(serverRx, e)[n] = e
  BY DEF QueuesTyped
<1>3. CASE UNCHANGED <<ending, serverRx>>
  BY <1>3 DEF EndSent
<1>4. ASSUME UNCHANGED ending, NEW e \in Events, serverRx' = Append(serverRx, e) PROVE EndSent(s, ending', serverRx')
  BY <1>1, <1>4 DEF EndSent
<1>5. ASSUME NEW u \in Session, ending[u] \in {"finished", "cancelled"},
             ending' = [ending EXCEPT ![u] = "none"],
             serverRx' = Append(serverRx, Event(ending[u], u, None))
      PROVE  EndSent(s, ending', serverRx')
  <2>1. CASE u = s
    <3> DEFINE n == Len(serverRx) + 1
    <3>1. n \in DOMAIN serverRx' /\ serverRx'[n] = Event(ending[u], u, None)
      BY <1>2, <1>5
    <3> HIDE DEF n
    <3> QED BY <1>5, <2>1, <3>1 DEF EndSent, Event
  <2>2. CASE u # s
    <3>1. ending'[s] = ending[s]
      BY <1>5, <2>2 DEF TypeOK
    <3> QED BY <1>1, <1>5, <3>1 DEF EndSent
  <2> QED BY <2>1, <2>2
<1>6. ASSUME UNCHANGED ending, serverRx # <<>>, serverRx' = Tail(serverRx),
             Head(serverRx).kind \in {"finished", "cancelled"} => Head(serverRx).session # s
      PROVE  EndSent(s, ending', serverRx')
  BY <1>6, TailEvents DEF EndSent
<1> QED BY <1>3, <1>4, <1>5, <1>6

LEMMA SessionCloses == ASSUME IInv, ClosingInv, NEW u \in Session, SessionStep(u) PROVE ClosingInv'
<1> USE DEF IInv, ClosingInv
<1>1. UNCHANGED <<status, up, tries, receive, summary, results, saved>>
  BY SessionFrame
<1>2. telling' \subseteq telling
  BY DEF SessionStep, AsksToSend, Answers, DropPrepare, TellAborted, CancelBySender, TellEnd,
         CancelSession, TakeAborted, appVars
<1>3. ToldIsClosed'
  BY <1>1, <1>2 DEF ToldIsClosed
<1>4. ASSUME NEW s \in Session, receive.session = s, receive.ended = "none", request'[s] = "active",
             slot' # s
      PROVE  EndSent(s, ending', serverRx')
  <2>1. s # None /\ summary[s] = <<>>
    BY <1>4, ConstantsAssumption DEF AppInv, ReceivedOnce
  <2>2. s \notin telling
    BY <2>1 DEF ToldIsClosed
  <2>3. request[s] = "active"
    BY <1>4 DEF SessionStep, AsksToSend, Answers, DropPrepare, TellAborted, CancelBySender, TellEnd,
       CancelSession, TakeAborted, serverVars, TypeOK
  <2>4. CASE CancelBySender(u) /\ slot = s
    <3>1. u = s /\ ending' = [ending EXCEPT ![s] = "cancelled"]
      BY <2>4 DEF CancelBySender
    <3> QED BY <3>1 DEF EndSent, TypeOK
  <2>5. CASE ~(CancelBySender(u) /\ slot = s)
    <3>1. slot # s
      BY <1>4, <2>1, <2>2, <2>3, <2>5 DEF SessionStep, AsksToSend, Answers, DropPrepare, TellAborted,
         CancelBySender, TellEnd, CancelSession, Cancellable, TakeAborted, serverVars, TypeOK
    <3>2. EndSent(s, ending, serverRx)
      BY <1>4, <2>3, <3>1 DEF EndIsComing
    <3>3. CASE AsksToSend(u) \/ TellAborted(u)
      <4>1. UNCHANGED ending /\ \E k \in {"prepare", "aborted"} : serverRx' = Append(serverRx, Event(k, u, None))
        BY <3>3 DEF AsksToSend, TellAborted, Pushes
      <4>2. \A k \in {"prepare", "aborted"} : Event(k, u, None) \in Events
        BY DEF Event, Events, Kinds
      <4> QED BY <3>2, <4>1, <4>2, EndKept
    <3>4. CASE Answers(u) \/ DropPrepare(u) \/ CancelSession(u)
      <4>1. UNCHANGED <<ending, serverRx>>
        BY <3>4 DEF Answers, DropPrepare, CancelSession
      <4> QED BY <3>2, <4>1, EndKept
    <3>5. CASE CancelBySender(u)
      <4>1. /\ UNCHANGED serverRx /\ ending' = [ending EXCEPT ![u] = "cancelled"]
            /\ ending[s] # "none" => ending'[s] # "none"
        BY <3>5 DEF CancelBySender, TypeOK
      <4> QED BY <3>2, <4>1 DEF EndSent
    <3>6. CASE TellEnd(u)
      <4>1. /\ ending[u] \in {"finished", "cancelled"} /\ ending' = [ending EXCEPT ![u] = "none"]
            /\ serverRx' = Append(serverRx, Event(ending[u], u, None))
        BY <3>6 DEF TellEnd, Pushes, TypeOK
      <4> QED BY <3>2, <4>1, EndKept
    <3>7. CASE TakeAborted(u)
      <4>1. /\ UNCHANGED ending /\ serverRx # <<>> /\ serverRx' = Tail(serverRx)
            /\ Head(serverRx).kind = "aborted"
        BY <3>7 DEF TakeAborted, Takes, Event, serverVars
      <4> QED BY <3>2, <4>1, EndKept
    <3> QED BY <3>3, <3>4, <3>5, <3>6, <3>7 DEF SessionStep
  <2> QED BY <2>4, <2>5
<1>5. EndIsComing'
  BY <1>1, <1>4 DEF EndIsComing, ResultSent
<1> QED BY <1>3, <1>5

LEMMA UploadCloses ==
    ASSUME IInv, ClosingInv, NEW k \in Key, UploadStep(k)
    PROVE  ClosingInv'
<1> USE DEF IInv, ServerInv, ClosingInv
<1>1. UNCHANGED <<request, receive, summary, telling>>
  BY UploadFrame
<1>u. Upload(k) => /\ up[k] = "none" /\ up' = [up EXCEPT ![k] = "admitted"]
                   /\ UNCHANGED <<slot, ending, serverRx, results>>
  BY Zenon DEF Upload
<1>2. ASSUME NEW j \in Key, ResultSent(j, up, results) PROVE ResultSent(j, up', results')
  <2>1. results \subseteq results'
    BY <1>u DEF UploadStep, Announce, Save, Finish, DropUpload, Aborts
  <2>2. CASE j # k
    BY <1>u, <1>2, <2>1, <2>2 DEF UploadStep, Announce, Save, Finish, DropUpload, TypeOK, ResultSent
  <2>3. CASE up[k] # "target" /\ j = k
    BY <1>2, <2>1, <2>3 DEF ResultSent
  <2>4. CASE up[k] = "target" /\ j = k
    <3>1. \E r \in {"ok", "err"} : Result(k, r) \in results'
      BY <1>u, <2>4 DEF UploadStep, Announce, Save, Finish, DropUpload, Aborts
    <3> QED BY <2>4, <3>1 DEF ResultSent, Result
  <2> QED BY <2>2, <2>3, <2>4
<1>3. ASSUME NEW s \in Session, receive.session = s, receive.ended = "none", request[s] = "active",
             slot' # s
      PROVE  EndSent(s, ending', serverRx')
  <2>1. CASE slot = s
    <3>1. PICK r \in {"ok", "failed", "mismatch"} : Finalizes(k, r)
      BY <1>u, <1>3, <2>1 DEF UploadStep, Announce, Save, Finish, DropUpload
    <3>2. slot = k[1] /\ ending' = [ending EXCEPT ![k[1]] = "finished"]
      BY <1>3, <2>1, <3>1 DEF Finalizes
    <3> QED BY <2>1, <3>2 DEF EndSent, TypeOK
  <2>2. CASE slot # s
    <3>1. EndSent(s, ending, serverRx)
      BY <1>3, <2>2 DEF EndIsComing
    <3>2. CASE Upload(k) \/ Save(k)
      <4>1. UNCHANGED <<ending, serverRx>>
        BY <1>u, <3>2 DEF Save
      <4> QED BY <3>1, <4>1, EndKept
    <3>3. CASE Announce(k)
      <4>1. UNCHANGED ending /\ serverRx' = Append(serverRx, Event("upload", k[1], k[2]))
        BY <3>3 DEF Announce, Pushes
      <4>2. Event("upload", k[1], k[2]) \in Events
        BY KeyPairs DEF Event, Events, Kinds
      <4> QED BY <3>1, <4>1, <4>2, EndKept
    <3>4. CASE Finish(k) \/ DropUpload(k)
      <4>1. PICK r \in {"ok", "failed", "mismatch"} : Finalizes(k, r)
        BY <3>4 DEF Finish, DropUpload
      <4>2. ending' = ending \/ ending' = [ending EXCEPT ![k[1]] = "finished"]
        BY <4>1 DEF Finalizes
      <4>3. UNCHANGED serverRx /\ (ending[s] # "none" => ending'[s] # "none")
        BY <3>4, <4>2, KeyPairs DEF Finish, DropUpload, TypeOK
      <4> QED BY <3>1, <4>3 DEF EndSent
    <3> QED BY <3>2, <3>3, <3>4 DEF UploadStep
  <2> QED BY <2>1, <2>2
<1>4. EndIsComing'
  BY <1>1, <1>2, <1>3 DEF EndIsComing
<1>5. ToldIsClosed'
  BY <1>1 DEF ToldIsClosed
<1> QED BY <1>4, <1>5

\* The application takes an event that does not end what it receives.
LEMMA EventCloses ==
    ASSUME IInv, ClosingInv, UNCHANGED <<slot, request, ending, summary, telling>>,
           serverRx # <<>>, serverRx' = Tail(serverRx),
           Head(serverRx).kind \in {"finished", "cancelled"} => Head(serverRx).session # receive.session,
           receive'.session = receive.session, receive'.ended = receive.ended,
           receive.busy \subseteq receive'.busy,
           \A f \in receive'.busy :
               receive.session \in Session
               => <<receive.session, f>> \in Key /\ ResultSent(<<receive.session, f>>, up', results')
    PROVE  ClosingInv'
<1> USE DEF IInv, ClosingInv
<1>1. ASSUME NEW s \in Session, receive.session = s, receive.ended = "none", request[s] = "active",
             slot # s
      PROVE  EndSent(s, ending', serverRx')
  <2>1. EndSent(s, ending, serverRx)
    BY <1>1 DEF EndIsComing
  <2> QED BY <1>1, <2>1, EndKept
<1>2. EndIsComing'
  <2> SUFFICES ASSUME NEW s \in Session, receive'.session = s
               PROVE  /\ \A f \in receive'.busy : <<s, f>> \in Key /\ ResultSent(<<s, f>>, up', results')
                      /\ receive'.ended # "none" => receive'.busy # {}
                      /\ receive'.ended = "none" /\ request'[s] = "active" /\ slot' # s
                         => EndSent(s, ending', serverRx')
    BY DEF EndIsComing
  <2>1. receive.session = s /\ (receive.ended # "none" => receive.busy # {})
    BY DEF EndIsComing
  <2> QED BY <1>1, <2>1
<1> QED BY <1>2 DEF ToldIsClosed

LEMMA TakeUploadCloses == ASSUME IInv, ClosingInv, NEW k \in Key, TakeUpload(k) PROVE ClosingInv'
<1> USE DEF IInv, ClosingInv
<1>1. /\ serverRx # <<>> /\ serverRx' = Tail(serverRx) /\ Head(serverRx).kind = "upload"
      /\ up[k] \in {"asked", "dropped"}
      /\ UNCHANGED <<slot, request, ending, summary, telling>>
  BY UploadTold DEF TakeUpload, Takes, Event
<1>2. /\ \A j \in Key \ {k} : up'[j] = up[j]
      /\ results \subseteq results'
      /\ receive' = IF Receiving(k[1]) THEN [receive EXCEPT !.busy = @ \cup {k[2]}] ELSE receive
      /\ Receiving(k[1]) => up'[k] = "target" \/ Result(k, "err") \in results'
  BY <1>1 DEF TakeUpload, TypeOK
<1>3. \A j \in Key \ {k} : ResultSent(j, up, results) => ResultSent(j, up', results')
  BY <1>2 DEF ResultSent
<1>4. Receiving(k[1]) => ResultSent(k, up', results')
  BY <1>2 DEF ResultSent, Result
<1>5. /\ receive'.session = receive.session /\ receive'.ended = receive.ended
      /\ receive'.busy = IF Receiving(k[1]) THEN receive.busy \cup {k[2]} ELSE receive.busy
  BY <1>2 DEF TypeOK
<1>6. ASSUME NEW f \in receive'.busy, receive.session \in Session
      PROVE  <<receive.session, f>> \in Key /\ ResultSent(<<receive.session, f>>, up', results')
  <2> DEFINE j == <<receive.session, f>>
  <2>1. CASE Receiving(k[1]) /\ f = k[2]
    BY <1>4, <2>1, KeyPairs DEF Receiving
  <2>2. CASE ~(Receiving(k[1]) /\ f = k[2])
    <3>1. f \in receive.busy
      BY <1>5, <1>6, <2>2
    <3>2. j \in Key /\ ResultSent(j, up, results)
      BY <1>6, <3>1 DEF EndIsComing
    <3>3. j # k
      BY <2>2 DEF Receiving
    <3> QED BY <1>3, <3>2, <3>3
  <2> QED BY <2>1, <2>2
<1> QED BY <1>1, <1>5, <1>6, EventCloses

\* The session ends here, or is open and has results to come.
LEMMA FinishCloses ==
    ASSUME IInv, ClosingInv, NEW r, FinishIfDone(r), r.session \in Session, r.session = receive.session,
           UNCHANGED <<slot, request, telling>>,
           \A f \in r.busy : <<r.session, f>> \in Key /\ ResultSent(<<r.session, f>>, up', results'),
           r.ended = "none" =>
               receive.ended = "none" /\ (EndSent(r.session, ending, serverRx) => EndSent(r.session, ending', serverRx'))
    PROVE  ClosingInv'
<1> USE DEF IInv, ClosingInv
<1>1. None \notin Session /\ NoReceive.session = None
  BY ConstantsAssumption DEF NoReceive
<1>2. \A s \in Session : summary[s] # <<>> => summary'[s] # <<>>
  <2>1. summary' = summary
        \/ summary' = [summary EXCEPT ![r.session] = Append(summary[r.session], Line(r, r.ended))]
    BY DEF FinishIfDone, Says
  <2>2. \A line : Append(summary[r.session], line) # <<>>
    <3>1. summary[r.session] \in Seq(Lines)
      BY DEF QueuesTyped
    <3> QED BY <3>1
  <2> HIDE DEF Line
  <2> QED BY <2>1, <2>2 DEF QueuesTyped
<1>3. telling \subseteq Session
  BY DEF TypeOK
<1>4. ToldIsClosed'
  BY <1>2, <1>3 DEF ToldIsClosed
<1>5. CASE Done(r)
  <2>1. receive' = NoReceive
    BY <1>5 DEF FinishIfDone
  <2>2. EndIsComing'
    BY <1>1, <2>1 DEF EndIsComing
  <2> QED BY <1>4, <2>2
<1>6. CASE ~Done(r)
  <2>1. receive' = r
    BY <1>6 DEF FinishIfDone
  <2>2. r.ended # "none" => r.busy # {}
    BY <1>6 DEF Done
  <2>3. r.ended = "none" /\ request[r.session] = "active" /\ slot # r.session => EndSent(r.session, ending', serverRx')
    BY DEF EndIsComing
  <2>4. EndIsComing'
    BY <2>1, <2>2, <2>3 DEF EndIsComing
  <2> QED BY <1>4, <2>4
<1> QED BY <1>5, <1>6

LEMMA TakeEndCloses == ASSUME IInv, ClosingInv, NEW s \in Session, TakeEnd(s) PROVE ClosingInv'
<1> USE DEF IInv, ClosingInv
<1>1. PICK reason \in {"finished", "cancelled"} :
          /\ Takes(reason, s, None)
          /\ IF receive.session = s THEN FinishIfDone([receive EXCEPT !.ended = reason])
             ELSE UNCHANGED <<receive, summary>>
  BY DEF TakeEnd
<1>2. /\ serverRx # <<>> /\ serverRx' = Tail(serverRx) /\ Head(serverRx).session = s
      /\ UNCHANGED <<slot, request, up, ending, telling, results>>
  BY <1>1 DEF TakeEnd, Takes, Event, serverVars
<1>3. \A k \in Key : ResultSent(k, up', results') <=> ResultSent(k, up, results)
  BY <1>2 DEF ResultSent
<1>4. CASE receive.session = s
  <2> DEFINE r == [receive EXCEPT !.ended = reason]
  <2>1. r.session = s /\ r.ended = reason /\ r.busy = receive.busy
    BY <1>4 DEF TypeOK
  <2>2. FinishIfDone(r)
    BY <1>1, <1>4
  <2> HIDE DEF r
  <2>3. \A f \in r.busy : <<r.session, f>> \in Key /\ ResultSent(<<r.session, f>>, up', results')
    BY <1>3, <1>4, <2>1 DEF EndIsComing
  <2> QED BY <1>2, <1>4, <2>1, <2>2, <2>3, FinishCloses
<1>5. CASE receive.session # s
  <2>1. UNCHANGED <<receive, summary>>
    BY <1>1, <1>5
  <2>2. \A f \in receive'.busy :
            receive.session \in Session
            => <<receive.session, f>> \in Key /\ ResultSent(<<receive.session, f>>, up', results')
    BY <1>3, <2>1 DEF EndIsComing
  <2> QED BY <1>2, <1>5, <2>1, <2>2, EventCloses
<1> QED BY <1>4, <1>5

LEMMA TakeResultCloses == ASSUME IInv, ClosingInv, NEW m \in results, TakeResult(m) PROVE ClosingInv'
<1> USE DEF IInv, ClosingInv
<1>1. /\ results' = results \ {m} /\ m.key \in Key
      /\ UNCHANGED <<slot, request, up, ending, serverRx, telling>>
  BY DEF TakeResult, serverVars, QueuesTyped, Results
<1>2. \A k \in Key : k # m.key /\ ResultSent(k, up, results) => ResultSent(k, up', results')
  BY <1>1 DEF ResultSent
<1>3. \A s : EndSent(s, ending', serverRx') <=> EndSent(s, ending, serverRx)
  BY <1>1 DEF EndSent
<1>4. CASE receive.session = m.key[1]
  <2> DEFINE r == [receive EXCEPT
                !.busy = @ \ {m.key[2]},
                !.finished = IF m.result = "ok" THEN @ + 1 ELSE @,
                !.failed = IF m.result = "ok" THEN @ ELSE @ + 1]
  <2>1. r.session = m.key[1] /\ r.ended = receive.ended /\ r.busy = receive.busy \ {m.key[2]}
    BY <1>4 DEF TypeOK
  <2>2. FinishIfDone(r)
    BY <1>4 DEF TakeResult
  <2> HIDE DEF r
  <2>3. m.key[1] \in Session
    BY <1>1, KeyPairs
  <2>4. ASSUME NEW f \in r.busy
        PROVE  <<r.session, f>> \in Key /\ ResultSent(<<r.session, f>>, up', results')
    <3>1. f \in receive.busy /\ f # m.key[2]
      BY <2>1, <2>4
    <3>2. <<r.session, f>> \in Key /\ ResultSent(<<r.session, f>>, up, results) /\ <<r.session, f>> # m.key
      BY <1>4, <2>1, <2>3, <3>1 DEF EndIsComing
    <3> QED BY <1>2, <3>2
  <2> QED BY <1>1, <1>3, <1>4, <2>1, <2>2, <2>3, <2>4, FinishCloses
<1>5. CASE receive.session # m.key[1]
  <2>1. UNCHANGED <<receive, summary>>
    BY <1>5 DEF TakeResult
  <2>2. ASSUME NEW f \in receive.busy, receive.session \in Session
        PROVE  <<receive.session, f>> \in Key /\ ResultSent(<<receive.session, f>>, up', results')
    BY <1>2, <1>5, <2>2 DEF EndIsComing
  <2>3. EndIsComing'
    BY <1>1, <1>3, <2>1, <2>2 DEF EndIsComing
  <2> QED BY <1>1, <2>1, <2>3 DEF ToldIsClosed
<1> QED BY <1>4, <1>5

LEMMA DecisionCloses == ASSUME IInv, ClosingInv, Decision PROVE ClosingInv'
<1> USE DEF IInv, ClosingInv
<1>1. UNCHANGED <<slot, up, ending, results>>
  BY DEF Decision, TakePrepare, PressYes, PressNo, CtrlC
<1>2. None \notin Session /\ NoReceive.session = None
  BY ConstantsAssumption DEF NoReceive
<1>3. \/ UNCHANGED serverRx
      \/ serverRx # <<>> /\ serverRx' = Tail(serverRx) /\ Head(serverRx).kind = "prepare"
  BY DEF Decision, TakePrepare, Takes, Event, PressYes, PressNo, CtrlC
<1>4. \A s \in Session : EndSent(s, ending, serverRx) => EndSent(s, ending', serverRx')
  BY <1>1, <1>3, EndKept
<1>5. ASSUME UNCHANGED receive, \A s \in Session : request'[s] = "active" => request[s] = "active"
      PROVE  EndIsComing'
  <2> SUFFICES ASSUME NEW s \in Session, receive.session = s
               PROVE  /\ \A f \in receive.busy : <<s, f>> \in Key /\ ResultSent(<<s, f>>, up, results)
                      /\ receive.ended # "none" => receive.busy # {}
                      /\ receive.ended = "none" /\ request'[s] = "active" /\ slot # s
                         => EndSent(s, ending', serverRx')
    BY <1>1, <1>5 DEF EndIsComing
  <2> QED BY <1>4, <1>5 DEF EndIsComing
<1>6. ASSUME NEW s \in Session, receive' = ReceiveSession(s), request' = [request EXCEPT ![s] = "yes"]
      PROVE  EndIsComing'
  <2>1. receive'.session = s /\ receive'.busy = {} /\ receive'.ended = "none"
    BY <1>6 DEF ReceiveSession, NoReceive
  <2>2. request'[s] = "yes"
    BY <1>6 DEF TypeOK
  <2> QED BY <2>1, <2>2 DEF EndIsComing
<1>7. ASSUME receive' = NoReceive PROVE EndIsComing'
  BY <1>2, <1>7 DEF EndIsComing
<1>8. ASSUME NEW s \in Session, Accepts(s) PROVE EndIsComing'
  <2>1. CASE request[s] = "pending"
    BY <1>6, <1>8, <2>1 DEF Accepts
  <2>2. CASE request[s] # "pending"
    BY <1>5, <1>8, <2>2 DEF Accepts
  <2> QED BY <2>1, <2>2
<1>9. CASE (\E s \in Session : TakePrepare(s)) \/ PressYes
  <2>1. pending \in Session \cup {None}
    BY DEF TypeOK
  <2>2. EndIsComing'
    BY <1>5, <1>8, <1>9, <2>1 DEF TakePrepare, PressYes
  <2>3. UNCHANGED <<telling, summary>>
    BY <1>9 DEF TakePrepare, PressYes
  <2> QED BY <2>2, <2>3 DEF ToldIsClosed
<1>10. CASE PressNo \/ CtrlC
  <2>1. \A s \in Session : request'[s] = "active" => request[s] = "active"
    BY <1>10 DEF PressNo, CtrlC, DeclinePending, TypeOK
  <2>2. CASE UNCHANGED <<receive, summary, telling>>
    BY <1>5, <2>1, <2>2 DEF ToldIsClosed
  <2>3. CASE CancelReceive /\ receive # NoReceive
    <3> DEFINE s == receive.session
               line == Line(receive, "cancelled here")
    <3>1. /\ receive' = NoReceive /\ telling' = telling \cup {s}
          /\ summary' = [summary EXCEPT ![s] = Append(summary[s], line)]
      BY <2>3, Zenon DEF CancelReceive, Says
    <3>2. s \in Session /\ summary \in [Session -> Seq(Lines)]
      BY <2>3 DEF AppInv, ReceivedOnce, TypeOK, QueuesTyped
    <3> HIDE DEF line, s
    <3>3. summary'[s] # <<>> /\ \A u \in Session : u # s => summary'[u] = summary[u]
      <4>1. summary[s] \in Seq(Lines)
        BY <3>2
      <4>2. Append(summary[s], line) # <<>>
        BY <4>1
      <4> QED BY <3>1, <3>2, <4>2
    <3>4. telling \subseteq Session
      BY DEF TypeOK
    <3>5. ToldIsClosed'
      BY <3>1, <3>3, <3>4 DEF ToldIsClosed
    <3> QED BY <1>7, <3>1, <3>5
  <2>4. CASE PressNo
    BY <2>2, <2>4 DEF PressNo
  <2>5. CASE CtrlC
    <3>1. CancelReceive
      BY <2>5 DEF CtrlC
    <3>2. receive # NoReceive \/ UNCHANGED <<receive, summary, telling>>
      BY <3>1, Zenon DEF CancelReceive
    <3> QED BY <2>2, <2>3, <3>1, <3>2
  <2> QED BY <1>10, <2>4, <2>5
<1> QED BY <1>9, <1>10 DEF Decision

\* While the application waits for the end of a session that is over at the
\* server, the end, or the result of each file that keeps the session open, is
\* on its way: what ReceivingEnds needs beyond fairness.
THEOREM EndsAreComing == Spec => []EndIsComing
<1>1. Init => ClosingInv
  <2>1. ASSUME Init PROVE receive.session = None /\ telling = {} /\ None \notin Session
    BY <2>1, ConstantsAssumption DEF Init, NoReceive
  <2> QED BY <2>1 DEF ClosingInv, EndIsComing, ToldIsClosed
<1>2. IInv /\ ClosingInv /\ [Next]_vars => ClosingInv'
  <2> SUFFICES ASSUME IInv, ClosingInv, [Next]_vars PROVE ClosingInv'
    OBVIOUS
  <2>1. CASE UNCHANGED vars
    <3>1. UNCHANGED <<slot, request, up, ending, serverRx, receive, results, summary, telling>>
      BY <2>1 DEF vars, serverVars, appVars
    <3> QED BY <3>1 DEF ClosingInv, EndIsComing, ToldIsClosed
  <2>2. CASE Server \/ Senders
    BY <2>2, SessionCloses, UploadCloses DEF Server, Senders, SessionStep, UploadStep
  <2>3. CASE TakesEvent \/ TakesResult \/ User
    BY <2>3, DecisionCloses, SessionCloses, TakeEndCloses, TakeUploadCloses, TakeResultCloses
       DEF TakesEvent, TakesResult, User, Decision, SessionStep
  <2> QED BY <2>1, <2>2, <2>3 DEF Next
<1>3. ClosingInv => EndIsComing
  BY DEF ClosingInv
<1> QED BY <1>1, <1>2, <1>3, Invariant, PTL DEF Spec
=============================================================================
