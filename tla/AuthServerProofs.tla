--------------------------- MODULE AuthServerProofs ---------------------------
(***************************************************************************)
(* The authentication server, for any number of workers, clients, records,   *)
(* removals, crashes and failing file operations: its type invariant, that a  *)
(* request logs in once, that the file and its temporary copy keep what was   *)
(* registered, that who logs in is registered, and that on Windows every      *)
(* registered id is found until the file is rewritten.                        *)
(***************************************************************************)
EXTENDS AuthServer, Induction, SequenceTheorems

(***************************************************************************)
(* Sessions.  What the file holds plays no part: a nonce is drawn for one    *)
(* session, and a session answers one request.                               *)
(***************************************************************************)

InLogin(w) == call[w].pc = "login"

\* A session's nonce is its own, and nobody logged in with it yet.
OwnNonces ==
    \A w \in Workers : InLogin(w) =>
        /\ call[w].nonce \in 1 .. issued
        /\ \A v \in Workers \ {w} : InLogin(v) => call[v].nonce # call[w].nonce
        /\ \A i \in DOMAIN accepted : accepted[i].nonce # call[w].nonce

OneLoginPerNonce ==
    /\ \A i \in DOMAIN accepted : accepted[i].nonce \in 1 .. issued
    /\ \A i, j \in DOMAIN accepted : accepted[i].nonce = accepted[j].nonce => i = j

\* The part of the type invariant that the argument needs.
SessionsTyped ==
    /\ issued \in 0 .. MaxNonces
    /\ call \in [Workers -> Calls]
    /\ sent \subseteq LoginRequests
    /\ accepted \in Seq(LoginRequests)

SessionInv == SessionsTyped /\ OwnNonces /\ OneLoginPerNonce

LEMMA SessionInit == Init => SessionInv
<1> SUFFICES ASSUME Init PROVE SessionInv
  OBVIOUS
<1>1. SessionsTyped
  BY AuthServerAssumption DEF Init, SessionsTyped, Calls, AuthServerAssumption
<1>2. OwnNonces /\ OneLoginPerNonce
  BY DEF Init, OwnNonces, OneLoginPerNonce, InLogin, Idle
<1> QED
  BY <1>1, <1>2 DEF SessionInv

-----------------------------------------------------------------------------
\* A worker that does something other than a login leaves the sessions alone.
LEMMA OtherWork ==
  ASSUME SessionInv, UNCHANGED session,
         NEW w \in Workers, NEW next \in Calls, Goto(w, next), next.pc # "login"
  PROVE  SessionInv'
<1>1. call' = [call EXCEPT ![w] = next] /\ call \in [Workers -> Calls]
  BY DEF Goto, SessionInv, SessionsTyped
<1>2. SessionsTyped'
  BY <1>1 DEF session, SessionInv, SessionsTyped
<1>3. OwnNonces'
  BY <1>1 DEF session, SessionInv, OwnNonces, InLogin
<1>4. OneLoginPerNonce'
  BY DEF session, SessionInv, OneLoginPerNonce
<1> QED
  BY <1>2, <1>3, <1>4 DEF SessionInv

LEMMA IdleCall == Idle \in Calls /\ Idle.pc # "login"
BY DEF Idle, Calls

LEMMA FinishWork ==
  ASSUME SessionInv, UNCHANGED session, NEW w \in Workers, Finish(w)
  PROVE  SessionInv'
BY IdleCall, OtherWork DEF Finish

LEMMA Sessionless ==
  ASSUME SessionInv, UNCHANGED <<session, call>>
  PROVE  SessionInv'
BY DEF session, SessionInv, SessionsTyped, OwnNonces, OneLoginPerNonce, InLogin

\* The nonce that is drawn is larger than all before.
LEMMA LogInStartStep ==
  ASSUME SessionInv, NEW w \in Workers, LogInStart(w)
  PROVE  SessionInv'
<1> DEFINE next == [pc |-> "login", nonce |-> issued + 1]
<1>0. MaxNonces \in Nat
  BY AuthServerAssumption DEF AuthServerAssumption
<1>1. /\ issued' = issued + 1 /\ issued \in 0 .. MaxNonces /\ issued' \in 0 .. MaxNonces
      /\ issued + 1 \in 1 .. MaxNonces /\ accepted' = accepted
  BY <1>0 DEF LogInStart, SessionInv, SessionsTyped
<1>2. call' = [call EXCEPT ![w] = next] /\ call \in [Workers -> Calls]
  BY <1>1 DEF LogInStart, Goto, SessionInv, SessionsTyped
<1>3. next \in Calls /\ next.pc = "login" /\ next.nonce = issued + 1
  BY <1>1 DEF Calls
<1>4. sent' \subseteq LoginRequests
  <2>1. PICK auth \in Auths :
          sent' = sent \cup {coreIdPswLogInRequestMsgGenProcess(auth.id, auth.psw, issued')}
    BY DEF LogInStart
  <2> QED
    BY <1>1, <2>1 DEF LoginRequests, SessionInv, SessionsTyped
<1> HIDE DEF next
<1>5. SessionsTyped'
  BY <1>1, <1>2, <1>3, <1>4 DEF SessionInv, SessionsTyped
<1>6. ASSUME NEW v \in Workers, InLogin(v)'
      PROVE  \/ v = w /\ call'[v].nonce = issued + 1
             \/ v # w /\ InLogin(v) /\ call'[v] = call[v] /\ call[v].nonce \in 1 .. issued
  BY <1>2, <1>3, <1>6 DEF InLogin, SessionInv, OwnNonces
<1>7. \A i \in DOMAIN accepted : accepted[i].nonce \in 1 .. issued
  BY DEF SessionInv, OneLoginPerNonce
<1>8. OwnNonces'
  <2> SUFFICES ASSUME NEW v \in Workers, InLogin(v)'
               PROVE  /\ call'[v].nonce \in 1 .. issued'
                      /\ \A u \in Workers \ {v} : InLogin(u)' => call'[u].nonce # call'[v].nonce
                      /\ \A i \in DOMAIN accepted' : accepted'[i].nonce # call'[v].nonce
    BY DEF OwnNonces, InLogin
  <2>1. call'[v].nonce \in 1 .. issued'
    BY <1>1, <1>6
  <2>2. ASSUME NEW u \in Workers \ {v}, InLogin(u)'
        PROVE  call'[u].nonce # call'[v].nonce
    BY <1>1, <1>6, <2>2 DEF SessionInv, OwnNonces
  <2>3. \A i \in DOMAIN accepted' : accepted'[i].nonce # call'[v].nonce
    BY <1>1, <1>6, <1>7 DEF SessionInv, OwnNonces
  <2> QED
    BY <2>1, <2>2, <2>3
<1>9. OneLoginPerNonce'
  BY <1>1, <1>7 DEF SessionInv, OneLoginPerNonce
<1> QED
  BY <1>5, <1>8, <1>9 DEF SessionInv

\* A session answers one request, which must carry its nonce.
LEMMA LogInStep ==
  ASSUME SessionInv, NEW w \in Workers, LogIn(w)
  PROVE  SessionInv'
<1>1. CASE accepted' = accepted
  BY <1>1, FinishWork DEF LogIn, session
<1>2. CASE accepted' # accepted
  <2>1. PICK request \in sent : /\ accepted' = Append(accepted, request)
                                /\ request.nonce = call[w].nonce
    BY <1>2 DEF LogIn, NonceVerified
  <2>2. /\ UNCHANGED <<issued, sent>> /\ InLogin(w)
        /\ call' = [call EXCEPT ![w] = Idle] /\ call \in [Workers -> Calls]
        /\ accepted \in Seq(LoginRequests) /\ request \in LoginRequests
    BY DEF LogIn, Finish, Goto, InLogin, SessionInv, SessionsTyped
  <2>3. SessionsTyped'
    BY <2>1, <2>2, IdleCall DEF SessionInv, SessionsTyped
  <2>4. /\ DOMAIN accepted = 1 .. Len(accepted) /\ Len(accepted) \in Nat
        /\ DOMAIN accepted' = 1 .. Len(accepted) + 1
        /\ \A i \in DOMAIN accepted : accepted'[i] = accepted[i]
        /\ accepted'[Len(accepted) + 1] = request
    BY <2>1, <2>2
  <2>5. /\ call[w].nonce \in 1 .. issued
        /\ \A i \in DOMAIN accepted : accepted[i].nonce # call[w].nonce
    BY <2>2 DEF SessionInv, OwnNonces
  <2>6. OneLoginPerNonce'
    <3>1. ASSUME NEW i \in DOMAIN accepted'
          PROVE  i \in DOMAIN accepted \/ i = Len(accepted) + 1
      BY <2>4
    <3> QED
      BY <2>1, <2>2, <2>4, <2>5, <3>1 DEF SessionInv, OneLoginPerNonce
  <2>7. OwnNonces'
    <3>1. ASSUME NEW v \in Workers, InLogin(v)'
          PROVE  v # w /\ InLogin(v) /\ call'[v] = call[v]
      BY <2>2, <3>1, IdleCall DEF InLogin
    <3>2. ASSUME NEW v \in Workers, InLogin(v)', NEW i \in DOMAIN accepted'
          PROVE  accepted'[i].nonce # call'[v].nonce
      <4>1. v # w /\ InLogin(v) /\ call'[v] = call[v]
        BY <3>1, <3>2
      <4>2. CASE i \in DOMAIN accepted
        BY <2>4, <4>1, <4>2 DEF SessionInv, OwnNonces
      <4>3. CASE i = Len(accepted) + 1
        BY <2>1, <2>2, <2>4, <4>1, <4>3 DEF SessionInv, OwnNonces
      <4> QED
        BY <2>4, <4>2, <4>3
    <3> QED
      BY <2>2, <3>1, <3>2 DEF SessionInv, OwnNonces, InLogin
  <2> QED
    BY <2>3, <2>6, <2>7 DEF SessionInv
<1> QED
  BY <1>1, <1>2

LEMMA RemovalStep ==
  ASSUME SessionInv, NEW w \in Workers, UnRegist(w) \/ RemoveDelete(w) \/ RemoveRename(w)
  PROVE  SessionInv'
<1>1. UNCHANGED session
  BY DEF UnRegist, RemoveDelete, RemoveRename
<1>2. CASE Finish(w)
  BY <1>1, <1>2, FinishWork
<1>3. ASSUME UnRegist(w), ~Finish(w)
      PROVE  SessionInv'
  <2>1. PICK i \in Ids :
          Goto(w, [pc |-> "delete", id |-> i, found |-> \E r \in RecordsIn(file) : r.id = i])
    BY <1>3 DEF UnRegist, coreIdPswUnRegistRequestMsgGenProcess
  <2> DEFINE next == [pc |-> "delete", id |-> i, found |-> \E r \in RecordsIn(file) : r.id = i]
  <2>2. next \in Calls /\ next.pc = "delete"
    BY DEF Calls
  <2> HIDE DEF next
  <2>3. Goto(w, next)
    BY <2>1 DEF next
  <2> QED
    BY <1>1, <2>2, <2>3, OtherWork
<1>4. ASSUME RemoveDelete(w), ~Finish(w)
      PROVE  SessionInv'
  <2> DEFINE next == [call[w] EXCEPT !.pc = "rename"]
  <2>1. Goto(w, next) /\ call[w].pc = "delete" /\ call[w] \in Calls
    BY <1>4 DEF RemoveDelete, SessionInv, SessionsTyped
  <2>2. call[w] \in [pc : {"delete", "rename"}, id : Ids, found : BOOLEAN]
    BY <2>1 DEF Calls, Idle
  <2>3. next \in Calls /\ next.pc = "rename"
    BY <2>2 DEF Calls
  <2> HIDE DEF next
  <2> QED
    BY <1>1, <2>1, <2>3, OtherWork
<1> QED
  BY <1>2, <1>3, <1>4 DEF RemoveRename

LEMMA RegistrationStep ==
  ASSUME SessionInv, NEW w \in Workers, IdExist(w) \/ FileExists(w) \/ WriteRecord(w)
  PROVE  SessionInv'
<1>1. UNCHANGED session
  BY DEF IdExist, FileExists, WriteRecord
<1>2. CASE IdExist(w)
  <2>1. PICK auth \in Auths : Goto(w, [pc |-> "exists", auth |-> auth])
    BY <1>2 DEF IdExist
  <2>2. [pc |-> "exists", auth |-> auth] \in Calls
    BY DEF Calls
  <2> QED
    BY <1>1, <2>1, <2>2, OtherWork
<1>3. CASE FileExists(w)
  <2>1. call[w].pc = "exists" /\ call[w] \in Calls
    BY <1>3 DEF FileExists, SessionInv, SessionsTyped
  <2>2. call[w].auth \in Auths
    BY <2>1 DEF Calls, Idle
  <2>3. PICK pc \in {"create", "append"} : Goto(w, [pc |-> pc, auth |-> call[w].auth])
    BY <1>3 DEF FileExists
  <2> DEFINE next == [pc |-> pc, auth |-> call[w].auth]
  <2>4. next \in Calls /\ next.pc # "login"
    BY <2>2 DEF Calls
  <2> HIDE DEF next
  <2>5. Goto(w, next)
    BY <2>3 DEF next
  <2> QED
    BY <1>1, <2>4, <2>5, OtherWork
<1>4. CASE WriteRecord(w)
  BY <1>1, <1>4, FinishWork DEF WriteRecord
<1> QED
  BY <1>2, <1>3, <1>4

LEMMA SessionStep == SessionInv /\ [Next]_vars => SessionInv'
<1> SUFFICES ASSUME SessionInv, [Next]_vars PROVE SessionInv'
  OBVIOUS
<1>1. CASE UNCHANGED vars
  BY <1>1, Sessionless DEF vars, session
<1>2. CASE Crash
  <2>1. UNCHANGED session /\ call' = [w \in Workers |-> Idle]
    BY <1>2 DEF Crash
  <2> QED
    BY <2>1, IdleCall DEF session, SessionInv, SessionsTyped, OwnNonces, OneLoginPerNonce, InLogin
<1>3. ASSUME NEW w \in Workers, ChangePsw(w)
      PROVE  SessionInv'
  BY <1>3, Sessionless DEF ChangePsw, vars, session
<1> QED
  BY <1>1, <1>2, <1>3, RegistrationStep, LogInStartStep, LogInStep, RemovalStep DEF Next, Step

\* A login request logs in once, however often and whenever the network
\* delivers it; indeed no nonce is logged in with twice.
THEOREM AuthLoginOnce == Spec => []LoginOnce
<1>1. SessionInv => LoginOnce
  BY DEF SessionInv, OneLoginPerNonce, LoginOnce, IsInjective
<1>2. Init => SessionInv
  BY SessionInit
<1>3. SessionInv /\ [Next]_vars => SessionInv'
  BY SessionStep
<1> QED
  BY <1>1, <1>2, <1>3, PTL DEF Spec

-----------------------------------------------------------------------------
(***************************************************************************)
(* The file.  A reader goes through the tokens of a file, a rewrite through*)
(* its lines: both are recursive functions, and what is said of them is said*)
(* of each of their steps.                                                 *)
(***************************************************************************)

NewReader == [lines |-> <<>>, line |-> <<>>, skip |-> FALSE]
Readers == [lines : Seq(Seq(Records)), line : Seq(Records), skip : BOOLEAN]

LEMMA Distinct == LF # CR /\ LF \notin Records /\ CR \notin Records
<1>1. LF.t = "lf" /\ CR.t = "cr"
  BY DEF LF, CR
<1>2. \A r \in Records : r.t = "rec"
  BY DEF Records, Record
<1> QED
  BY <1>1, <1>2

\* A token takes a reader to a reader.
LEMMA ReadTokenType ==
  ASSUME NEW s \in Readers, NEW token \in Tokens
  PROVE  ReadToken(s, token) \in Readers
<1>1. s.lines \in Seq(Seq(Records)) /\ s.line \in Seq(Records) /\ s.skip \in BOOLEAN
      /\ DOMAIN s = {"lines", "line", "skip"}
  BY DEF Readers
<1>2. ASSUME NEW skip \in BOOLEAN PROVE EndLine(s, skip) \in Readers
  <2>1. <<>> \in Seq(Records) /\ Append(s.lines, s.line) \in Seq(Seq(Records))
    BY <1>1
  <2> QED
    BY <2>1 DEF EndLine, Readers
<1>3. CASE token = CR
  <2>1. ReadToken(s, token) = EndLine(s, TRUE)
    BY <1>3, Distinct DEF ReadToken
  <2> QED
    BY <1>2, <2>1
<1>4. CASE token = LF
  <2>1. CASE s.skip
    <3>1. ReadToken(s, token) = [s EXCEPT !.skip = FALSE]
      BY <1>4, <2>1, Distinct DEF ReadToken
    <3> QED
      BY <3>1 DEF Readers
  <2>2. CASE ~s.skip
    <3>1. ReadToken(s, token) = EndLine(s, FALSE)
      BY <1>4, <2>2, Distinct DEF ReadToken
    <3> QED
      BY <1>2, <3>1
  <2> QED
    BY <2>1, <2>2
<1>5. CASE token \in Records
  <2>1. ReadToken(s, token) = [s EXCEPT !.line = Append(s.line, token), !.skip = FALSE]
    BY <1>5, Distinct DEF ReadToken
  <2>2. Append(s.line, token) \in Seq(Records)
    BY <1>1, <1>5
  <2> QED
    BY <2>1, <2>2 DEF Readers
<1> QED
  BY <1>3, <1>4, <1>5 DEF Tokens

LEMMA NewReaderType == NewReader \in Readers
BY DEF NewReader, Readers

\* The reader is well defined ...
LEMMA ReadingDef ==
  ASSUME NEW f \in Seq(Tokens)
  PROVE  Reading(f) = [i \in 0 .. Len(f) |->
                         IF i = 0 THEN NewReader ELSE ReadToken(Reading(f)[i - 1], f[i])]
<1> DEFINE n == Len(f)
           step == [x \in Readers \X (1 .. n) |-> ReadToken(x[1], f[x[2]])]
<1>1. n \in Nat /\ \A i \in 1 .. n : f[i] \in Tokens
  OBVIOUS
<1>2. NewReader \in Readers
  BY NewReaderType
<1>3. Steps(step, Readers, n)
  BY <1>1, ReadTokenType DEF Steps
<1> HIDE DEF step, n
<1>4. PICK g : Iterates(g, step, NewReader, Readers, n)
  BY <1>1, <1>2, <1>3, Iterated
<1>5. \A i \in 1 .. n : g[i] = ReadToken(g[i - 1], f[i])
  BY <1>1, <1>4 DEF step, Iterates
<1>6. g = [i \in 0 .. n |-> IF i = 0 THEN NewReader ELSE ReadToken(g[i - 1], f[i])]
  BY <1>4, <1>5 DEF Iterates
<1> QED
  BY <1>6 DEF Reading, NewReader, n

LEMMA ReadingSteps ==
  ASSUME NEW f \in Seq(Tokens)
  PROVE  /\ Reading(f)[0] = NewReader
         /\ \A i \in 1 .. Len(f) : Reading(f)[i] = ReadToken(Reading(f)[i - 1], f[i])
BY ReadingDef

\* ... and goes from reader to reader.
LEMMA ReadingType ==
  ASSUME NEW f \in Seq(Tokens)
  PROVE  \A i \in 0 .. Len(f) : Reading(f)[i] \in Readers
<1> DEFINE A == {i \in 0 .. Len(f) : Reading(f)[i] \in Readers}
<1>1. 0 \in A
  BY ReadingSteps, NewReaderType
<1>2. ASSUME NEW i \in 0 .. Len(f) - 1, i \in A
      PROVE  i + 1 \in A
  <2>1. i + 1 \in 1 .. Len(f) /\ f[i + 1] \in Tokens /\ (i + 1) - 1 = i
    OBVIOUS
  <2> QED
    BY <1>2, <2>1, ReadingSteps, ReadTokenType
<1> HIDE DEF A
<1>3. \A i \in 0 .. Len(f) : i \in A
  BY <1>1, <1>2, UpTo
<1> QED
  BY <1>3 DEF A

-----------------------------------------------------------------------------
(* Nothing is lost in reading. *)

\* The records a reader has read.
Has(s, r) == \/ \E j \in DOMAIN s.line : s.line[j] = r
             \/ \E k \in DOMAIN s.lines : \E j \in DOMAIN s.lines[k] : s.lines[k][j] = r

LEMMA EndLineHas ==
  ASSUME NEW s \in Readers, NEW skip \in BOOLEAN, NEW r \in Records
  PROVE  Has(EndLine(s, skip), r) <=> Has(s, r)
<1> DEFINE e == EndLine(s, skip)
<1>1. s.lines \in Seq(Seq(Records)) /\ s.line \in Seq(Records)
  BY DEF Readers
<1>2. e.lines = Append(s.lines, s.line) /\ e.line = <<>>
  BY DEF EndLine
<1>3. /\ DOMAIN e.line = {} /\ DOMAIN e.lines = 1 .. Len(s.lines) + 1
      /\ DOMAIN s.lines = 1 .. Len(s.lines) /\ Len(s.lines) \in Nat
      /\ \A k \in 1 .. Len(s.lines) : e.lines[k] = s.lines[k]
      /\ e.lines[Len(s.lines) + 1] = s.line
  BY <1>1, <1>2
<1> HIDE DEF e
<1>4. \A k \in DOMAIN e.lines : k \in DOMAIN s.lines \/ k = Len(s.lines) + 1
  BY <1>3
<1>5. DOMAIN s.lines \subseteq DOMAIN e.lines /\ Len(s.lines) + 1 \in DOMAIN e.lines
  BY <1>3
<1>6. Has(e, r) <=> Has(s, r)
  BY <1>3, <1>4, <1>5 DEF Has
<1> QED
  BY <1>6 DEF e

LEMMA ReadTokenHas ==
  ASSUME NEW s \in Readers, NEW token \in Tokens, NEW r \in Records
  PROVE  Has(ReadToken(s, token), r) <=> Has(s, r) \/ token = r
<1> USE Distinct
<1>1. s.lines \in Seq(Seq(Records)) /\ s.line \in Seq(Records) /\ s.skip \in BOOLEAN
  BY DEF Readers
<1>2. CASE token = CR
  <2>1. ReadToken(s, token) = EndLine(s, TRUE)
    BY <1>2 DEF ReadToken
  <2> QED
    BY <1>2, <2>1, EndLineHas
<1>3. CASE token = LF /\ s.skip
  <2>1. ReadToken(s, token) = [s EXCEPT !.skip = FALSE]
    BY <1>3 DEF ReadToken
  <2>2. ReadToken(s, token).line = s.line /\ ReadToken(s, token).lines = s.lines
    BY <2>1 DEF Readers
  <2> QED
    BY <1>3, <2>2 DEF Has
<1>4. CASE token = LF /\ ~s.skip
  <2>1. ReadToken(s, token) = EndLine(s, FALSE)
    BY <1>4 DEF ReadToken
  <2> QED
    BY <1>4, <2>1, EndLineHas
<1>5. CASE token \in Records
  <2>1. ReadToken(s, token) = [s EXCEPT !.line = Append(s.line, token), !.skip = FALSE]
    BY <1>5 DEF ReadToken
  <2>2. /\ ReadToken(s, token).line = Append(s.line, token)
        /\ ReadToken(s, token).lines = s.lines
    BY <2>1 DEF Readers
  <2>3. \A j \in DOMAIN Append(s.line, token) :
           \/ j \in DOMAIN s.line /\ Append(s.line, token)[j] = s.line[j]
           \/ j = Len(s.line) + 1 /\ Append(s.line, token)[j] = token
    BY <1>1, <1>5
  <2>4. /\ \A j \in DOMAIN s.line : /\ j \in DOMAIN Append(s.line, token)
                                     /\ Append(s.line, token)[j] = s.line[j]
        /\ Len(s.line) + 1 \in DOMAIN Append(s.line, token)
        /\ Append(s.line, token)[Len(s.line) + 1] = token
    BY <1>1, <1>5
  <2> QED
    BY <2>2, <2>3, <2>4 DEF Has
<1> QED
  BY <1>2, <1>3, <1>4, <1>5 DEF Tokens

\* What was read of a file is what it holds up to there.
LEMMA ReadingHas ==
  ASSUME NEW f \in Seq(Tokens), NEW r \in Records
  PROVE  \A i \in 0 .. Len(f) : Has(Reading(f)[i], r) <=> \E j \in 1 .. i : f[j] = r
<1> DEFINE A == {i \in 0 .. Len(f) : Has(Reading(f)[i], r) <=> \E j \in 1 .. i : f[j] = r}
<1>1. 0 \in A
  <2>1. ~Has(NewReader, r)
    BY DEF Has, NewReader
  <2> QED
    BY <2>1, ReadingSteps
<1>2. ASSUME NEW i \in 0 .. Len(f) - 1, i \in A
      PROVE  i + 1 \in A
  <2>1. /\ i + 1 \in 1 .. Len(f) /\ f[i + 1] \in Tokens /\ (i + 1) - 1 = i
        /\ Reading(f)[i] \in Readers
    BY ReadingType
  <2>2. Has(Reading(f)[i + 1], r) <=> Has(Reading(f)[i], r) \/ f[i + 1] = r
    BY <2>1, ReadingSteps, ReadTokenHas
  <2>3. (\E j \in 1 .. i + 1 : f[j] = r) <=> (\E j \in 1 .. i : f[j] = r) \/ f[i + 1] = r
    <3>1. \A j \in 1 .. i + 1 : j \in 1 .. i \/ j = i + 1
      OBVIOUS
    <3>2. 1 .. i \subseteq 1 .. i + 1 /\ i + 1 \in 1 .. i + 1
      OBVIOUS
    <3> QED
      BY <3>1, <3>2
  <2> QED
    BY <1>2, <2>1, <2>2, <2>3
<1> HIDE DEF A
<1>3. \A i \in 0 .. Len(f) : i \in A
  BY <1>1, <1>2, UpTo
<1> QED
  BY <1>3 DEF A

\* No record follows another one immediately.
Single(f) == \A i \in 1 .. Len(f) - 1 : ~(f[i] \in Records /\ f[i + 1] \in Records)

\* A reader of such a file has no line of more than a record.
OneEach(s, last) ==
    /\ \A k \in DOMAIN s.lines : Len(s.lines[k]) <= 1
    /\ Len(s.line) <= 1
    /\ s.line # <<>> => last \in Records /\ ~s.skip

LEMMA EndLineOneEach ==
  ASSUME NEW s \in Readers, NEW skip \in BOOLEAN, NEW last, NEW token \in Tokens,
         OneEach(s, last)
  PROVE  OneEach(EndLine(s, skip), token)
<1> DEFINE e == EndLine(s, skip)
<1>1. s.lines \in Seq(Seq(Records)) /\ s.line \in Seq(Records)
  BY DEF Readers
<1>2. e.lines = Append(s.lines, s.line) /\ e.line = <<>>
  BY DEF EndLine
<1>3. \A k \in DOMAIN e.lines : e.lines[k] = s.line \/ (k \in DOMAIN s.lines /\ e.lines[k] = s.lines[k])
  BY <1>1, <1>2
<1>4. Len(e.line) = 0
  BY <1>2
<1> HIDE DEF e
<1>5. OneEach(e, token)
  BY <1>2, <1>3, <1>4 DEF OneEach
<1> QED
  BY <1>5 DEF e

LEMMA ReadTokenOneEach ==
  ASSUME NEW s \in Readers, NEW token \in Tokens, NEW last, OneEach(s, last),
         ~(last \in Records /\ token \in Records)
  PROVE  OneEach(ReadToken(s, token), token)
<1> USE Distinct
<1>1. s.lines \in Seq(Seq(Records)) /\ s.line \in Seq(Records) /\ s.skip \in BOOLEAN
  BY DEF Readers
<1>2. CASE token = CR
  <2>1. ReadToken(s, token) = EndLine(s, TRUE)
    BY <1>2 DEF ReadToken
  <2>2. OneEach(EndLine(s, TRUE), token)
    BY EndLineOneEach
  <2> QED
    BY <2>1, <2>2
<1>3. CASE token = LF /\ s.skip
  <2>1. ReadToken(s, token) = [s EXCEPT !.skip = FALSE]
    BY <1>3 DEF ReadToken
  <2>2. ReadToken(s, token).line = s.line /\ ReadToken(s, token).lines = s.lines
    BY <2>1 DEF Readers
  <2> QED
    BY <1>3, <2>2 DEF OneEach
<1>4. CASE token = LF /\ ~s.skip
  <2>1. ReadToken(s, token) = EndLine(s, FALSE)
    BY <1>4 DEF ReadToken
  <2>2. OneEach(EndLine(s, FALSE), token)
    BY EndLineOneEach
  <2> QED
    BY <2>1, <2>2
<1>5. CASE token \in Records
  <2>1. ReadToken(s, token) = [s EXCEPT !.line = Append(s.line, token), !.skip = FALSE]
    BY <1>5 DEF ReadToken
  <2>2. /\ ReadToken(s, token).line = Append(s.line, token)
        /\ ReadToken(s, token).lines = s.lines
        /\ ReadToken(s, token).skip = FALSE
    BY <2>1 DEF Readers
  <2>3. s.line = <<>> /\ Len(Append(s.line, token)) = 1
    BY <1>1, <1>5 DEF OneEach
  <2> QED
    BY <1>5, <2>2, <2>3 DEF OneEach
<1> QED
  BY <1>2, <1>3, <1>4, <1>5 DEF Tokens

LEMMA ReadingOneEach ==
  ASSUME NEW f \in Seq(Tokens), Single(f)
  PROVE  \A i \in 1 .. Len(f) : OneEach(Reading(f)[i], f[i])
<1> DEFINE A == {i \in 0 .. Len(f) : i # 0 => OneEach(Reading(f)[i], f[i])}
<1>1. 0 \in A
  OBVIOUS
<1>2. ASSUME NEW i \in 0 .. Len(f) - 1, i \in A
      PROVE  i + 1 \in A
  <2>1. /\ i + 1 \in 1 .. Len(f) /\ f[i + 1] \in Tokens /\ (i + 1) - 1 = i
        /\ Reading(f)[i] \in Readers
        /\ Reading(f)[i + 1] = ReadToken(Reading(f)[i], f[i + 1])
    BY ReadingType, ReadingSteps
  <2>2. CASE i = 0
    <3>1. OneEach(Reading(f)[0], LF)
      BY ReadingSteps DEF NewReader, OneEach
    <3>2. OneEach(ReadToken(Reading(f)[0], f[1]), f[1])
      BY <2>1, <2>2, <3>1, Distinct, ReadTokenOneEach
    <3> QED
      BY <2>1, <2>2, <3>2
  <2>3. CASE i # 0
    <3>1. OneEach(Reading(f)[i], f[i]) /\ ~(f[i] \in Records /\ f[i + 1] \in Records)
      BY <1>2, <2>3 DEF Single
    <3>2. OneEach(ReadToken(Reading(f)[i], f[i + 1]), f[i + 1])
      BY <2>1, <3>1, ReadTokenOneEach
    <3> QED
      BY <2>1, <3>2
  <2> QED
    BY <2>2, <2>3
<1> HIDE DEF A
<1>3. \A i \in 0 .. Len(f) : i \in A
  BY <1>1, <1>2, UpTo
<1> QED
  BY <1>3 DEF A

-----------------------------------------------------------------------------
(* Lines *)

\* A file's lines hold what the file holds.
LEMMA LinesType ==
  ASSUME NEW f \in Seq(Tokens)
  PROVE  Lines(f) \in Seq(Seq(Records))
<1> DEFINE s == Reading(f)[Len(f)]
<1>1. s \in Readers
  BY ReadingType
<1> HIDE DEF s
<1>2. s.lines \in Seq(Seq(Records)) /\ s.line \in Seq(Records)
  BY <1>1 DEF Readers
<1>3. Lines(f) = IF s.line = <<>> THEN s.lines ELSE Append(s.lines, s.line)
  BY DEF Lines, s
<1> QED
  BY <1>2, <1>3

LEMMA LinesHave ==
  ASSUME NEW f \in Seq(Tokens), NEW r \in Records
  PROVE  r \in RecordsIn(f) <=>
           \E k \in DOMAIN Lines(f) : \E j \in DOMAIN Lines(f)[k] : Lines(f)[k][j] = r
<1> DEFINE s == Reading(f)[Len(f)]
<1>1. s \in Readers /\ Len(f) \in Nat
  BY ReadingType
<1>2. Has(s, r) <=> \E j \in 1 .. Len(f) : f[j] = r
  BY <1>1, ReadingHas
<1>3. r \in RecordsIn(f) <=> \E j \in 1 .. Len(f) : f[j] = r
  BY AuthFileAssumption DEF AuthFileAssumption, RecordsIn, Range
<1> HIDE DEF s
<1>4. s.lines \in Seq(Seq(Records)) /\ s.line \in Seq(Records)
  BY <1>1 DEF Readers
<1>5. Lines(f) = IF s.line = <<>> THEN s.lines ELSE Append(s.lines, s.line)
  BY DEF Lines, s
<1>6. CASE s.line = <<>>
  BY <1>2, <1>3, <1>5, <1>6 DEF Has, s
<1>7. CASE s.line # <<>>
  <2>1. /\ \A k \in DOMAIN Lines(f) : \/ k \in DOMAIN s.lines /\ Lines(f)[k] = s.lines[k]
                                      \/ k = Len(s.lines) + 1 /\ Lines(f)[k] = s.line
        /\ \A k \in DOMAIN s.lines : k \in DOMAIN Lines(f) /\ Lines(f)[k] = s.lines[k]
        /\ Len(s.lines) + 1 \in DOMAIN Lines(f) /\ Lines(f)[Len(s.lines) + 1] = s.line
    BY <1>4, <1>5, <1>7
  <2>2. Has(s, r) <=>
           \E k \in DOMAIN Lines(f) : \E j \in DOMAIN Lines(f)[k] : Lines(f)[k][j] = r
    BY <2>1 DEF Has
  <2> QED
    BY <1>2, <1>3, <2>2 DEF s
<1> QED
  BY <1>6, <1>7

LEMMA LinesOneEach ==
  ASSUME NEW f \in Seq(Tokens), Single(f)
  PROVE  \A k \in DOMAIN Lines(f) : Len(Lines(f)[k]) <= 1
<1> DEFINE s == Reading(f)[Len(f)]
<1>1. s \in Readers /\ Len(f) \in Nat
  BY ReadingType
<1>2. (\A k \in DOMAIN s.lines : Len(s.lines[k]) <= 1) /\ Len(s.line) <= 1
  <2>1. CASE Len(f) = 0
    <3>1. s = NewReader
      BY <2>1, ReadingSteps
    <3> HIDE DEF s
    <3> QED
      BY <3>1 DEF NewReader
  <2>2. CASE Len(f) # 0
    BY <1>1, <2>2, ReadingOneEach DEF OneEach
  <2> QED
    BY <2>1, <2>2
<1> HIDE DEF s
<1>3. s.lines \in Seq(Seq(Records)) /\ s.line \in Seq(Records)
  BY <1>1 DEF Readers
<1>4. Lines(f) = IF s.line = <<>> THEN s.lines ELSE Append(s.lines, s.line)
  BY DEF Lines, s
<1>5. \A k \in DOMAIN Lines(f) : Lines(f)[k] = s.line \/ (k \in DOMAIN s.lines /\ Lines(f)[k] = s.lines[k])
  BY <1>3, <1>4
<1> QED
  BY <1>2, <1>5

-----------------------------------------------------------------------------
(* Concatenation *)

LEMMA RecordsConcat ==
  ASSUME NEW s \in Seq(Tokens), NEW t \in Seq(Tokens)
  PROVE  s \o t \in Seq(Tokens) /\ RecordsIn(s \o t) = RecordsIn(s) \cup RecordsIn(t)
<1>1. s \o t \in Seq(Tokens) /\ Range(s \o t) = Range(s) \cup Range(t)
  BY RangeConcatenation
<1> QED
  BY <1>1, AuthFileAssumption DEF AuthFileAssumption, RecordsIn

Ends(s) == s # <<>> => s[Len(s)] \notin Records

LEMMA SingleConcat ==
  ASSUME NEW s \in Seq(Tokens), NEW t \in Seq(Tokens), Single(s), Single(t),
         Ends(s) \/ (t # <<>> => t[1] \notin Records)
  PROVE  Single(s \o t)
<1> DEFINE u == s \o t
<1>1. /\ Len(u) = Len(s) + Len(t) /\ Len(s) \in Nat /\ Len(t) \in Nat
      /\ \A i \in 1 .. Len(s) : u[i] = s[i]
      /\ \A i \in 1 .. Len(t) : u[Len(s) + i] = t[i]
  OBVIOUS
<1> HIDE DEF u
<1>2. ASSUME NEW i \in 1 .. Len(u) - 1
      PROVE  ~(u[i] \in Records /\ u[i + 1] \in Records)
  <2>1. CASE i < Len(s)
    <3>1. i \in 1 .. Len(s) - 1 /\ u[i] = s[i] /\ u[i + 1] = s[i + 1]
      BY <1>1, <2>1
    <3> QED
      BY <3>1 DEF Single
  <2>2. CASE i = Len(s)
    <3>1. s # <<>> /\ t # <<>> /\ u[i] = s[Len(s)] /\ u[i + 1] = t[1]
      BY <1>1, <2>2
    <3> QED
      BY <3>1 DEF Ends
  <2>3. CASE i > Len(s)
    <3> DEFINE j == i - Len(s)
    <3>1. j \in 1 .. Len(t) - 1 /\ i = Len(s) + j /\ i + 1 = Len(s) + (j + 1)
      BY <1>1, <2>3
    <3> HIDE DEF j
    <3>2. u[i] = t[j] /\ u[i + 1] = t[j + 1]
      BY <1>1, <3>1
    <3> QED
      BY <3>1, <3>2 DEF Single
  <2> QED
    BY <1>1, <2>1, <2>2, <2>3
<1> QED
  BY <1>2 DEF Single, u

LEMMA EndsConcat ==
  ASSUME NEW s \in Seq(Tokens), NEW t \in Seq(Tokens), t # <<>>, Ends(t)
  PROVE  Ends(s \o t)
<1>1. Len(s \o t) = Len(s) + Len(t) /\ (s \o t)[Len(s) + Len(t)] = t[Len(t)]
  OBVIOUS
<1> QED
  BY <1>1 DEF Ends

LEMMA LineSeparatorHas ==
  /\ LineSeparator \in Seq(Tokens) /\ LineSeparator # <<>> /\ LineSeparator[1] \notin Records
  /\ \A i \in 1 .. Len(LineSeparator) : LineSeparator[i] \notin Records
  /\ RecordsIn(LineSeparator) = {} /\ Single(LineSeparator) /\ Ends(LineSeparator)
<1>1. LineSeparator \in Seq({CR, LF}) /\ Len(LineSeparator) \in 1 .. 2
  BY DEF LineSeparator
<1> HIDE DEF LineSeparator
<1>2. LineSeparator \in Seq(Tokens) /\ LineSeparator # <<>>
  BY <1>1 DEF Tokens
<1>3. \A i \in 1 .. Len(LineSeparator) : LineSeparator[i] \notin Records
  BY <1>1, Distinct
<1>4. RecordsIn(LineSeparator) = {}
  BY <1>2, <1>3 DEF RecordsIn, Range
<1>5. Single(LineSeparator) /\ Ends(LineSeparator) /\ LineSeparator[1] \notin Records
  BY <1>1, <1>3 DEF Single, Ends
<1> QED
  BY <1>2, <1>3, <1>4, <1>5

-----------------------------------------------------------------------------
(* The rewrite *)

Skips(lines, id, i) == HasId(lines[i], id) \/ \E j \in 1 .. i : Blank(lines[j])

\* What was printed after another line.
Prints(lines, id, out, i) ==
    IF Skips(lines, id, i) THEN out ELSE out \o lines[i] \o LineSeparator

LEMMA CopyingSteps ==
  ASSUME NEW lines \in Seq(Seq(Records)), NEW id
  PROVE  /\ Copying(lines, id)[0] = <<>>
         /\ \A i \in 1 .. Len(lines) :
               Copying(lines, id)[i] = Prints(lines, id, Copying(lines, id)[i - 1], i)
<1> DEFINE n == Len(lines)
           step == [x \in Seq(Tokens) \X (1 .. n) |-> Prints(lines, id, x[1], x[2])]
<1>1. n \in Nat /\ \A i \in 1 .. n : lines[i] \in Seq(Tokens)
  BY DEF Tokens
<1>2. <<>> \in Seq(Tokens)
  OBVIOUS
<1>3. Steps(step, Seq(Tokens), n)
  <2>1. ASSUME NEW out \in Seq(Tokens), NEW i \in 1 .. n
        PROVE  Prints(lines, id, out, i) \in Seq(Tokens)
    BY <1>1, LineSeparatorHas, RecordsConcat DEF Prints
  <2> QED
    BY <2>1 DEF Steps
<1> HIDE DEF step, n
<1>4. PICK g : Iterates(g, step, <<>>, Seq(Tokens), n)
  BY <1>1, <1>2, <1>3, Iterated
<1>5. ASSUME NEW i \in 1 .. n
      PROVE  g[i] = Prints(lines, id, g[i - 1], i)
  <2>1. i - 1 \in 0 .. n /\ g \in [0 .. n -> Seq(Tokens)] /\ g[i] = step[<<g[i - 1], i>>]
    BY <1>1, <1>4 DEF Iterates
  <2>2. <<g[i - 1], i>> \in Seq(Tokens) \X (1 .. n)
    BY <2>1
  <2> QED
    BY <2>1, <2>2 DEF step
<1>6. g = [i \in 0 .. n |-> IF i = 0 THEN <<>> ELSE Prints(lines, id, g[i - 1], i)]
  BY <1>4, <1>5 DEF Iterates
<1>7. Copying(lines, id) = [i \in 0 .. n |-> IF i = 0 THEN <<>>
                                  ELSE Prints(lines, id, Copying(lines, id)[i - 1], i)]
  BY <1>6 DEF Copying, Prints, Skips, n
<1>8. /\ Copying(lines, id)[0] = <<>>
      /\ \A i \in 1 .. n :
            Copying(lines, id)[i] = Prints(lines, id, Copying(lines, id)[i - 1], i)
  BY <1>1, <1>7
<1> QED
  BY <1>8 DEF n

\* What is printed of lines of a record at most: the record of each line that
\* is not skipped, and nothing that would run together with what follows.
Printed(lines, id, i) == {lines[k][1] : k \in {j \in 1 .. i : ~Skips(lines, id, j)}}

LEMMA PrintLine ==
  ASSUME NEW out \in Seq(Tokens), NEW line \in Seq(Records), Len(line) = 1,
         Single(out), Ends(out)
  PROVE  LET new == out \o line \o LineSeparator
         IN  /\ new \in Seq(Tokens) /\ Single(new) /\ Ends(new)
             /\ RecordsIn(new) = RecordsIn(out) \cup {line[1]}
<1>0. line \in Seq(Tokens)
  BY DEF Tokens
<1>1. line[1] \in Records /\ DOMAIN line = {1} /\ Single(line)
  <2>1. DOMAIN line = 1 .. 1 /\ line[1] \in Records
    BY LenProperties
  <2>2. Single(line)
    BY DEF Single
  <2> QED
    BY <2>1, <2>2
<1>2. RecordsIn(line) = {line[1]}
  <2>1. Range(line) = {line[1]}
    BY <1>1 DEF Range
  <2> QED
    BY <1>0, <1>1, <2>1, AuthFileAssumption DEF AuthFileAssumption, RecordsIn
<1> DEFINE printed == out \o line
<1>3. /\ printed \in Seq(Tokens) /\ Single(printed)
      /\ RecordsIn(printed) = RecordsIn(out) \cup {line[1]}
  BY <1>0, <1>1, <1>2, RecordsConcat, SingleConcat
<1>4. LineSeparator \in Seq(Tokens) /\ LineSeparator # <<>> /\ LineSeparator[1] \notin Records
      /\ RecordsIn(LineSeparator) = {} /\ Single(LineSeparator) /\ Ends(LineSeparator)
  BY LineSeparatorHas
<1> HIDE DEF printed
<1>5. /\ printed \o LineSeparator \in Seq(Tokens)
      /\ RecordsIn(printed \o LineSeparator) = RecordsIn(out) \cup {line[1]}
  BY <1>3, <1>4, RecordsConcat
<1>6. Single(printed \o LineSeparator)
  BY <1>3, <1>4, SingleConcat
<1>7. Ends(printed \o LineSeparator)
  BY <1>3, <1>4, EndsConcat
<1> QED
  BY <1>5, <1>6, <1>7 DEF printed

LEMMA OneRecord ==
  ASSUME NEW line \in Seq(Records), Len(line) <= 1, line # <<>>
  PROVE  Len(line) = 1
<1>1. Len(line) \in Nat
  BY LenProperties
<1>2. Len(line) # 0
  <2>1. PICK s \in Seq(Records), r \in Records : line = Append(s, r)
    BY SequenceEmptyOrAppend
  <2>2. Len(line) = Len(s) + 1 /\ Len(s) \in Nat
    BY <2>1, AppendProperties, LenProperties
  <2> QED
    BY <2>2
<1> QED
  BY <1>1, <1>2

LEMMA CopyingPrints ==
  ASSUME NEW lines \in Seq(Seq(Records)), NEW id,
         \A k \in 1 .. Len(lines) : Len(lines[k]) <= 1
  PROVE  \A i \in 0 .. Len(lines) :
           LET out == Copying(lines, id)[i]
           IN  /\ out \in Seq(Tokens) /\ Single(out) /\ Ends(out)
               /\ RecordsIn(out) = Printed(lines, id, i)
<1> DEFINE C == Copying(lines, id)
           Good(i) == /\ C[i] \in Seq(Tokens) /\ Single(C[i]) /\ Ends(C[i])
                      /\ RecordsIn(C[i]) = Printed(lines, id, i)
           A == {i \in 0 .. Len(lines) : Good(i)}
<1>0. Len(lines) \in Nat
  OBVIOUS
<1>1. 0 \in A
  <2>1. C[0] = <<>>
    BY CopyingSteps
  <2> HIDE DEF C
  <2>2. <<>> \in Seq(Tokens) /\ Single(<<>>) /\ Ends(<<>>) /\ RecordsIn(<<>>) = {}
    BY AuthFileAssumption DEF Single, Ends, RecordsIn, Range
  <2>3. Printed(lines, id, 0) = {}
    BY DEF Printed
  <2>4. Good(0)
    BY <2>1, <2>2, <2>3
  <2> HIDE DEF Good
  <2> QED
    BY <1>0, <2>4
<1>2. ASSUME NEW i \in 0 .. Len(lines) - 1, i \in A
      PROVE  i + 1 \in A
  <2> DEFINE k == i + 1
  <2>1. /\ k \in 1 .. Len(lines) /\ k - 1 = i /\ k \in 0 .. Len(lines) /\ Good(i)
        /\ lines[k] \in Seq(Records) /\ Len(lines[k]) <= 1
    BY <1>2
  <2>2. C[k] = IF Skips(lines, id, k) THEN C[i] ELSE C[i] \o lines[k] \o LineSeparator
    BY <2>1, CopyingSteps DEF Prints
  <2>3. 1 .. k = (1 .. i) \cup {k}
    OBVIOUS
  <2> HIDE DEF k, C
  <2>4. CASE Skips(lines, id, k)
    <3>1. Printed(lines, id, k) = Printed(lines, id, i)
      BY <2>3, <2>4 DEF Printed
    <3> QED
      BY <2>1, <2>2, <2>4, <3>1 DEF k
  <2>5. CASE ~Skips(lines, id, k)
    <3>1. Printed(lines, id, k) = Printed(lines, id, i) \cup {lines[k][1]}
      BY <2>3, <2>5 DEF Printed
    <3>2. ~Blank(lines[k])
      BY <2>1, <2>5 DEF Skips
    <3>3. Len(lines[k]) = 1
      BY <2>1, <3>2, OneRecord DEF Blank
    <3>4. C[k] = C[i] \o lines[k] \o LineSeparator
      BY <2>2, <2>5
    <3>5. Good(k)
      BY <2>1, <3>1, <3>3, <3>4, PrintLine
    <3> QED
      BY <2>1, <3>5 DEF k
  <2> QED
    BY <2>4, <2>5
<1> HIDE DEF A
<1>3. \A i \in 0 .. Len(lines) : i \in A
  BY <1>0, <1>1, <1>2, UpTo
<1> QED
  BY <1>3 DEF A

\* Whatever the lines are, a copy is a file.
LEMMA CopyingType ==
  ASSUME NEW lines \in Seq(Seq(Records)), NEW id
  PROVE  \A i \in 0 .. Len(lines) : Copying(lines, id)[i] \in Seq(Tokens)
<1> DEFINE A == {i \in 0 .. Len(lines) : Copying(lines, id)[i] \in Seq(Tokens)}
<1>1. Len(lines) \in Nat /\ 0 \in A
  <2>1. Copying(lines, id)[0] = <<>> /\ <<>> \in Seq(Tokens) /\ Len(lines) \in Nat
    BY CopyingSteps
  <2>2. Copying(lines, id)[0] \in Seq(Tokens) /\ 0 \in 0 .. Len(lines)
    BY <2>1
  <2> QED
    BY <2>1, <2>2
<1>2. ASSUME NEW i \in 0 .. Len(lines) - 1, i \in A
      PROVE  i + 1 \in A
  <2> DEFINE out == Copying(lines, id)[i]
  <2>1. i + 1 \in 1 .. Len(lines) /\ (i + 1) - 1 = i /\ out \in Seq(Tokens)
    BY <1>2
  <2>2. lines[i + 1] \in Seq(Tokens)
    BY <2>1 DEF Tokens
  <2>3. Copying(lines, id)[i + 1] = Prints(lines, id, out, i + 1)
    BY <2>1, CopyingSteps
  <2> HIDE DEF out
  <2>4. Prints(lines, id, out, i + 1) \in Seq(Tokens)
    BY <2>1, <2>2, RecordsConcat, LineSeparatorHas DEF Prints
  <2> QED
    BY <2>1, <2>3, <2>4
<1> HIDE DEF A
<1>3. \A i \in 0 .. Len(lines) : i \in A
  BY <1>1, <1>2, UpTo
<1> QED
  BY <1>3 DEF A

LEMMA CopyWithoutType ==
  ASSUME NEW f \in Seq(Tokens), NEW id
  PROVE  CopyWithout(f, id) \in Seq(Tokens)
<1>1. Lines(f) \in Seq(Seq(Records)) /\ Len(Lines(f)) \in Nat
  BY LinesType
<1> QED
  BY <1>1, CopyingType DEF CopyWithout

\* The rewrite of a file whose records are on lines of their own has the
\* records of all other ids and puts them on lines of their own.
LEMMA CopyWithoutKeeps ==
  ASSUME NEW f \in Seq(Tokens), NEW id, Single(f)
  PROVE  /\ Single(CopyWithout(f, id))
         /\ CanCopy(f) => RecordsIn(CopyWithout(f, id)) = {r \in RecordsIn(f) : r.id # id}
<1> DEFINE L == Lines(f)
           n == Len(L)
<1>1. L \in Seq(Seq(Records)) /\ n \in Nat /\ DOMAIN L = 1 .. n
  BY LinesType
<1>2. \A k \in 1 .. n : Len(L[k]) <= 1
  BY <1>1, LinesOneEach
<1>3. /\ Single(CopyWithout(f, id))
      /\ RecordsIn(CopyWithout(f, id)) = Printed(L, id, n)
  <2>1. n \in 0 .. n /\ CopyWithout(f, id) = Copying(L, id)[n]
    BY <1>1 DEF CopyWithout
  <2> HIDE DEF L
  <2> QED
    BY <1>1, <1>2, <2>1, CopyingPrints
<1>4. ASSUME CanCopy(f)
      PROVE  Printed(L, id, n) = {r \in RecordsIn(f) : r.id # id}
  <2>1. \A k \in 1 .. n : ~Blank(L[k])
    BY <1>1, <1>4 DEF CanCopy
  <2>2. ASSUME NEW k \in 1 .. n
        PROVE  /\ L[k][1] \in Records /\ DOMAIN L[k] = {1}
               /\ Skips(L, id, k) <=> L[k][1].id = id
    <3>1. L[k] \in Seq(Records) /\ Len(L[k]) = 1
      BY <1>1, <1>2, <2>1, OneRecord DEF Blank
    <3>2. DOMAIN L[k] = 1 .. 1 /\ L[k][1] \in Records
      BY <3>1, LenProperties
    <3>3. Skips(L, id, k) <=> L[k][1].id = id
      <4>1. ~ \E j \in 1 .. k : Blank(L[j])
        BY <1>1, <2>1
      <4> QED
        BY <2>1, <4>1 DEF Skips, HasId
    <3> QED
      BY <3>2, <3>3
  <2>3. \A r \in Records : r \in RecordsIn(f) <=> \E k \in 1 .. n : L[k][1] = r
    <3>1. \A r \in Records : r \in RecordsIn(f) <=>
             \E k \in DOMAIN L : \E j \in DOMAIN L[k] : L[k][j] = r
      BY LinesHave
    <3>2. DOMAIN L = 1 .. n
      BY <1>1
    <3>3. \A k \in 1 .. n : DOMAIN L[k] = {1}
      BY <2>2
    <3> HIDE DEF L, n
    <3>4. \A r \in Records : \A k \in 1 .. n :
             (\E j \in DOMAIN L[k] : L[k][j] = r) <=> L[k][1] = r
      BY <3>3
    <3> QED
      BY <3>1, <3>2, <3>4
  <2>4. RecordsIn(f) \subseteq Records
    BY DEF RecordsIn
  <2> HIDE DEF L, n
  <2> QED
    BY <2>2, <2>3, <2>4 DEF Printed
<1> QED
  BY <1>3, <1>4

-----------------------------------------------------------------------------
(* The search *)

\* A record that is found is one of the file's and has the id.
LEMMA GetFound ==
  ASSUME NEW f \in Files, NEW id \in Ids, Get(f, id).end = "0x6010"
  PROVE  Get(f, id).rec \in RecordsIn(f) /\ Get(f, id).rec.id = id
<1> DEFINE L == Lines(f)
           stop == StopsAt(L, id)
           line == L[CHOOSE i \in stop : TRUE]
<1>1. f # NoFile
  <2> SUFFICES ASSUME f = NoFile PROVE FALSE
    OBVIOUS
  <2>1. Get(f, id) = [end |-> "null"]
    BY DEF Get
  <2> QED
    BY <2>1
<1>2. f \in Seq(Tokens)
  BY <1>1 DEF Files
<1>3. L \in Seq(Seq(Records))
  BY <1>2, LinesType
<1> HIDE DEF L
<1>4. Get(f, id) = IF stop = {} THEN [end |-> "0x6011"]
                   ELSE IF Blank(line) THEN [end |-> "exception"]
                   ELSE [end |-> "0x6010", rec |-> line[1]]
  BY <1>1 DEF Get, L
<1>5. stop # {} /\ ~Blank(line) /\ Get(f, id).rec = line[1]
  BY <1>4
<1>6. PICK i \in stop : line = L[i]
  BY <1>5
<1>7. i \in DOMAIN L /\ HasId(line, id)
  BY <1>5, <1>6 DEF StopsAt
<1>8. line \in Seq(Records) /\ line # <<>> /\ line[1].id = id
  BY <1>3, <1>5, <1>6, <1>7 DEF Blank, HasId
<1>9. 1 \in DOMAIN line /\ line[1] \in Records
  BY <1>8
<1>10. line[1] \in RecordsIn(f)
  BY <1>2, <1>6, <1>7, <1>9, LinesHave DEF L
<1> QED
  BY <1>5, <1>8, <1>10

\* A file without an empty line: every line feed ends a line with a record.
Spaced(f) == \A i \in 1 .. Len(f) : /\ f[i] # CR
                                    /\ f[i] = LF => i > 1 /\ f[i - 1] \in Records

Filled(s, last) ==
    /\ ~s.skip
    /\ \A k \in DOMAIN s.lines : s.lines[k] # <<>>
    /\ last \in Records => s.line # <<>>

LEMMA ReadTokenFilled ==
  ASSUME NEW s \in Readers, NEW token \in Tokens, NEW last, Filled(s, last),
         token # CR, token = LF => last \in Records
  PROVE  Filled(ReadToken(s, token), token)
<1> USE Distinct
<1>1. s.lines \in Seq(Seq(Records)) /\ s.line \in Seq(Records) /\ s.skip \in BOOLEAN
  BY DEF Readers
<1>2. CASE token = LF
  <2>1. ReadToken(s, token) = EndLine(s, FALSE)
    BY <1>2 DEF ReadToken, Filled
  <2> DEFINE e == EndLine(s, FALSE)
  <2>2. e.lines = Append(s.lines, s.line) /\ e.skip = FALSE
    BY DEF EndLine
  <2> HIDE DEF e
  <2>3. \A k \in DOMAIN e.lines : e.lines[k] = s.line \/ (k \in DOMAIN s.lines /\ e.lines[k] = s.lines[k])
    BY <1>1, <2>2
  <2>4. Filled(e, token)
    BY <1>2, <2>2, <2>3 DEF Filled
  <2> QED
    BY <2>1, <2>4 DEF e
<1>3. CASE token \in Records
  <2>1. ReadToken(s, token) = [s EXCEPT !.line = Append(s.line, token), !.skip = FALSE]
    BY <1>3 DEF ReadToken
  <2>2. /\ ReadToken(s, token).line = Append(s.line, token)
        /\ ReadToken(s, token).lines = s.lines
        /\ ReadToken(s, token).skip = FALSE
    BY <2>1 DEF Readers
  <2>3. Append(s.line, token) # <<>>
    BY <1>1, <1>3, AppendProperties
  <2> QED
    BY <2>2, <2>3 DEF Filled
<1> QED
  BY <1>2, <1>3 DEF Tokens

LEMMA LinesFilled ==
  ASSUME NEW f \in Seq(Tokens), Spaced(f)
  PROVE  \A k \in DOMAIN Lines(f) : ~Blank(Lines(f)[k])
<1> DEFINE A == {i \in 0 .. Len(f) : Filled(Reading(f)[i], IF i = 0 THEN LF ELSE f[i])}
<1>1. Len(f) \in Nat /\ 0 \in A
  <2>1. Filled(NewReader, LF) /\ Reading(f)[0] = NewReader /\ Len(f) \in Nat
    BY ReadingSteps, Distinct DEF NewReader, Filled
  <2> QED
    BY <2>1
<1>2. ASSUME NEW i \in 0 .. Len(f) - 1, i \in A
      PROVE  i + 1 \in A
  <2> DEFINE last == IF i = 0 THEN LF ELSE f[i]
  <2>1. /\ i + 1 \in 1 .. Len(f) /\ f[i + 1] \in Tokens /\ (i + 1) - 1 = i
        /\ Reading(f)[i] \in Readers /\ Filled(Reading(f)[i], last)
        /\ Reading(f)[i + 1] = ReadToken(Reading(f)[i], f[i + 1])
    BY <1>2, ReadingType, ReadingSteps
  <2>2. f[i + 1] # CR /\ (f[i + 1] = LF => last \in Records)
    BY <2>1 DEF Spaced
  <2> HIDE DEF last
  <2>3. Filled(ReadToken(Reading(f)[i], f[i + 1]), f[i + 1])
    BY <2>1, <2>2, ReadTokenFilled
  <2> QED
    BY <2>1, <2>3
<1> HIDE DEF A
<1>3. \A i \in 0 .. Len(f) : i \in A
  BY <1>1, <1>2, UpTo
<1> DEFINE s == Reading(f)[Len(f)]
<1>4. s \in Readers /\ \A k \in DOMAIN s.lines : s.lines[k] # <<>>
  BY <1>1, <1>3, ReadingType DEF A, Filled
<1> HIDE DEF s
<1>5. s.lines \in Seq(Seq(Records)) /\ s.line \in Seq(Records)
  BY <1>4 DEF Readers
<1>6. Lines(f) = IF s.line = <<>> THEN s.lines ELSE Append(s.lines, s.line)
  BY DEF Lines, s
<1>7. ASSUME NEW k \in DOMAIN Lines(f)
      PROVE  (s.line # <<>> /\ Lines(f)[k] = s.line)
               \/ (k \in DOMAIN s.lines /\ Lines(f)[k] = s.lines[k])
  <2>1. CASE s.line = <<>>
    BY <1>6, <2>1
  <2>2. CASE s.line # <<>>
    <3>1. Lines(f) = Append(s.lines, s.line)
      BY <1>6, <2>2
    <3> QED
      BY <1>5, <2>2, <3>1
  <2> QED
    BY <2>1, <2>2
<1> QED
  BY <1>4, <1>7 DEF Blank

\* In a file without an empty line, and with one record on each, all are found.
LEMMA SearchFinds ==
  ASSUME NEW f \in Seq(Tokens), Single(f), Spaced(f), NEW r \in RecordsIn(f)
  PROVE  Search(f, r.id) = "0x6010"
<1> DEFINE L == Lines(f)
           stop == StopsAt(L, r.id)
<1>1. L \in Seq(Seq(Records)) /\ DOMAIN L \subseteq Nat \ {0}
  BY LinesType
<1>2. \A k \in DOMAIN L : ~Blank(L[k]) /\ Len(L[k]) <= 1
  BY LinesFilled, LinesOneEach
<1>3. f # NoFile /\ r \in Records
  BY AuthFileAssumption DEF AuthFileAssumption, RecordsIn
<1>4. PICK k \in DOMAIN L : \E j \in DOMAIN L[k] : L[k][j] = r
  BY <1>3, LinesHave
<1> HIDE DEF L
<1>5. L[k] \in Seq(Records) /\ Len(L[k]) = 1
  BY <1>1, <1>2, OneRecord DEF Blank
<1>6. HasId(L[k], r.id)
  <2>1. DOMAIN L[k] = 1 .. 1
    BY <1>5, LenProperties
  <2> QED
    BY <1>2, <1>4, <2>1 DEF HasId
<1> DEFINE T == {i \in DOMAIN L : HasId(L[i], r.id)}
<1>7. T \subseteq Nat /\ T # {}
  BY <1>1, <1>6
<1>8. PICK i \in T : \A j \in T : i <= j
  <2> HIDE DEF T
  <2> QED
    BY <1>7, LeastNumber
<1>9. ASSUME NEW j \in 1 .. i - 1
      PROVE  ~Blank(L[j]) /\ ~HasId(L[j], r.id)
  <2>1. j \in DOMAIN L
    BY <1>1, <1>8
  <2> QED
    BY <1>1, <1>2, <1>8, <2>1
<1>10. i \in stop
  BY <1>8, <1>9 DEF StopsAt
<1>11. (CHOOSE x \in stop : TRUE) \in DOMAIN L
  BY <1>10 DEF StopsAt
<1> HIDE DEF stop
<1>12. Get(f, r.id).end = "0x6010"
  BY <1>2, <1>3, <1>10, <1>11 DEF Get, L, stop
<1> QED
  BY <1>12 DEF Search

-----------------------------------------------------------------------------
(***************************************************************************)
(* Types.                                                                  *)
(***************************************************************************)

\* Both files are files, what logged in was sent, the counters keep their bounds.
FilesTyped ==
    /\ file \in Files /\ tmp \in Files
    /\ Range(accepted) \subseteq sent /\ live \subseteq Records
    /\ rewritten \in BOOLEAN /\ overlapped \in BOOLEAN
    /\ removals \in 0 .. MaxRemovals /\ writes \in 0 .. MaxWrites /\ crashes \in 0 .. MaxCrashes

TypeInv == SessionInv /\ FilesTyped

LEMMA SeparatorHas ==
  /\ Separator \in Seq(Tokens) /\ RecordsIn(Separator) = {} /\ Single(Separator)
  /\ \A i \in 1 .. Len(Separator) : Separator[i] \notin Records
  /\ Platform # "other" => Separator # <<>> /\ Ends(Separator)
<1>1. Separator \in Seq({CR, LF}) /\ Len(Separator) \in 0 .. 2
  <2>1. Separator = <<LF>> \/ Separator = <<LF, CR>> \/ Separator = <<>>
    BY DEF Separator
  <2>2. CASE Separator = <<LF>>
    BY <2>2
  <2>3. CASE Separator = <<LF, CR>>
    BY <2>3
  <2>4. CASE Separator = <<>>
    BY <2>4
  <2> QED
    BY <2>1, <2>2, <2>3, <2>4
<1>2. Platform # "other" => Separator # <<>>
  BY AuthFileAssumption DEF AuthFileAssumption, Separator
<1> HIDE DEF Separator
<1>3. Separator \in Seq(Tokens)
  BY <1>1 DEF Tokens
<1>4. \A i \in 1 .. Len(Separator) : Separator[i] \notin Records
  BY <1>1, Distinct
<1>5. RecordsIn(Separator) = {}
  BY <1>3, <1>4 DEF RecordsIn, Range
<1>6. Single(Separator) /\ (Separator # <<>> => Ends(Separator))
  BY <1>1, <1>4 DEF Single, Ends
<1> QED
  BY <1>2, <1>3, <1>4, <1>5, <1>6

LEMMA OneRecordFile ==
  ASSUME NEW r \in Records
  PROVE  /\ <<r>> \in Seq(Tokens) /\ RecordsIn(<<r>>) = {r} /\ Single(<<r>>)
<1>1. <<r>> \in Seq(Tokens) /\ Range(<<r>>) = {r}
  BY DEF Tokens, Range
<1>2. Single(<<r>>)
  BY DEF Single
<1> QED
  BY <1>1, <1>2, AuthFileAssumption DEF AuthFileAssumption, RecordsIn

LEMMA TypeInit == Init => TypeInv
<1> SUFFICES ASSUME Init PROVE TypeInv
  OBVIOUS
<1>1. PICK r \in Records, r0 \in {FALSE, TRUE} :
         /\ file = IF r0 THEN <<r>> \o LineSeparator ELSE <<r>>
         /\ live = {r} /\ rewritten = r0
  BY DEF Init
<1>2. file \in Seq(Tokens)
  BY <1>1, OneRecordFile, LineSeparatorHas, RecordsConcat
<1>3. /\ file \in Files /\ tmp \in Files /\ live \subseteq Records
      /\ rewritten \in BOOLEAN /\ overlapped \in BOOLEAN
  BY <1>1, <1>2 DEF Init, Files
<1>4. Range(accepted) \subseteq sent
  BY DEF Init, Range
<1>5. removals \in 0 .. MaxRemovals /\ writes \in 0 .. MaxWrites /\ crashes \in 0 .. MaxCrashes
  BY AuthServerAssumption DEF Init, AuthServerAssumption
<1> QED
  BY <1>3, <1>4, <1>5, SessionInit DEF TypeInv, FilesTyped

\* What a registration makes of the file.
Written(w) ==
    AppendTo(file, IF call[w].pc = "create" THEN <<Record(call[w].auth.id, call[w].auth.psw)>>
                   ELSE Separator \o <<Record(call[w].auth.id, call[w].auth.psw)>>)

LEMMA WriteRecordDoes ==
  ASSUME TypeInv, NEW w \in Workers, WriteRecord(w)
  PROVE  LET r == Record(call[w].auth.id, call[w].auth.psw)
         IN  /\ r \in Records /\ file' = Written(w) /\ live' = live \cup {r}
             /\ Written(w) \in Seq(Tokens)
             /\ UNCHANGED <<tmp, session, rewritten>>
             /\ call' = [call EXCEPT ![w] = Idle] /\ call \in [Workers -> Calls]
<1> DEFINE r == Record(call[w].auth.id, call[w].auth.psw)
<1>1. call[w].pc \in {"create", "append"} /\ call[w] \in Calls /\ call \in [Workers -> Calls]
  BY DEF WriteRecord, TypeInv, SessionInv, SessionsTyped
<1>2. call[w].auth \in Auths
  BY <1>1 DEF Calls, Idle
<1>3. r \in Records
  BY <1>2 DEF Records, Auths
<1>4. file' = Written(w) /\ live' = live \cup {r}
  BY DEF WriteRecord, Written, coreIdPswRegistRequestMsgGenProcess, getEncryptedMergeMsg
<1>5. Written(w) \in Seq(Tokens)
  <2>1. <<r>> \in Seq(Tokens) /\ Separator \o <<r>> \in Seq(Tokens)
    BY <1>3, OneRecordFile, SeparatorHas, RecordsConcat
  <2>2. \A t \in Seq(Tokens) : AppendTo(file, t) \in Seq(Tokens)
    BY RecordsConcat DEF AppendTo, TypeInv, FilesTyped, Files
  <2> QED
    BY <2>1, <2>2 DEF Written
<1> QED
  BY <1>1, <1>3, <1>4, <1>5 DEF WriteRecord, Finish, Goto

LEMMA TypeStep == TypeInv /\ [Next]_vars => TypeInv'
<1> SUFFICES ASSUME TypeInv, [Next]_vars PROVE FilesTyped'
  BY SessionStep DEF TypeInv
<1> USE AuthServerAssumption DEF AuthServerAssumption
<1>1. CASE UNCHANGED vars
  BY <1>1 DEF vars, TypeInv, FilesTyped
<1>2. CASE Crash
  BY <1>2 DEF Crash, session, TypeInv, FilesTyped
<1>3. ASSUME NEW w \in Workers, IdExist(w) \/ FileExists(w) \/ ChangePsw(w)
      PROVE  FilesTyped'
  BY <1>3 DEF IdExist, FileExists, ChangePsw, vars, session, history, TypeInv, FilesTyped
<1>4. ASSUME NEW w \in Workers, WriteRecord(w)
      PROVE  FilesTyped'
  <2>1. file' \in Files /\ live' \subseteq Records /\ UNCHANGED <<tmp, session, rewritten>>
    BY <1>4, WriteRecordDoes DEF Files, TypeInv, FilesTyped
  <2>2. writes' \in 0 .. MaxWrites /\ UNCHANGED <<removals, crashes>>
    <3>1. writes < MaxWrites /\ writes' = writes + 1 /\ UNCHANGED <<removals, crashes>>
      BY <1>4 DEF WriteRecord
    <3> QED
      BY <3>1 DEF TypeInv, FilesTyped
  <2>3. overlapped' \in BOOLEAN
    BY <1>4 DEF WriteRecord
  <2> QED
    BY <2>1, <2>2, <2>3 DEF session, TypeInv, FilesTyped
<1>5. ASSUME NEW w \in Workers, LogInStart(w)
      PROVE  FilesTyped'
  BY <1>5 DEF LogInStart, history, TypeInv, FilesTyped
<1>6. ASSUME NEW w \in Workers, LogIn(w)
      PROVE  FilesTyped'
  <2>1. PICK request \in sent : accepted' = accepted \/ accepted' = Append(accepted, request)
    BY <1>6 DEF LogIn
  <2>2. Range(accepted') \subseteq sent
    <3>1. accepted \in Seq(LoginRequests) /\ request \in LoginRequests /\ Range(accepted) \subseteq sent
      BY DEF TypeInv, SessionInv, SessionsTyped, FilesTyped
    <3>2. CASE accepted' = accepted
      BY <3>1, <3>2
    <3>3. CASE accepted' = Append(accepted, request)
      <4>1. \A i \in DOMAIN accepted' : accepted'[i] = request \/ (i \in DOMAIN accepted /\ accepted'[i] = accepted[i])
        BY <3>1, <3>3
      <4> QED
        BY <3>1, <4>1 DEF Range
    <3> QED
      BY <2>1, <3>2, <3>3
  <2> QED
    BY <1>6, <2>2 DEF LogIn, history, TypeInv, FilesTyped
<1>7. ASSUME NEW w \in Workers, UnRegist(w)
      PROVE  FilesTyped'
  <2>1. PICK id \in Ids : tmp' = CopyWithout(file, id)
    BY <1>7 DEF UnRegist, coreIdPswUnRegistRequestMsgGenProcess
  <2>2. file \in Seq(Tokens)
    BY <1>7 DEF UnRegist, TypeInv, FilesTyped, Files
  <2>3. tmp' \in Files
    BY <2>1, <2>2, CopyWithoutType DEF Files
  <2>4. overlapped' \in BOOLEAN /\ removals' \in 0 .. MaxRemovals
        /\ UNCHANGED <<file, session, live, rewritten, writes, crashes>>
    BY <1>7 DEF UnRegist, TypeInv, FilesTyped
  <2> QED
    BY <2>3, <2>4 DEF session, TypeInv, FilesTyped
<1>8. ASSUME NEW w \in Workers, RemoveDelete(w)
      PROVE  FilesTyped'
  BY <1>8 DEF RemoveDelete, session, TypeInv, FilesTyped, Files
<1>9. ASSUME NEW w \in Workers, RemoveRename(w)
      PROVE  FilesTyped'
  BY <1>9 DEF RemoveRename, session, TypeInv, FilesTyped, Files
<1> QED
  BY <1>1, <1>2, <1>3, <1>4, <1>5, <1>6, <1>7, <1>8, <1>9 DEF Next, Step

\* The type invariant of the authentication server.
THEOREM AuthTypes == Spec => []TypeOK
<1>1. TypeInv => TypeOK
  BY DEF TypeInv, FilesTyped, SessionInv, SessionsTyped, TypeOK
<1> QED
  BY <1>1, TypeInit, TypeStep, PTL DEF Spec

-----------------------------------------------------------------------------
(* The registry.  As long as no rewrite was overlapped, one worker at most    *)
(* rewrites, the temporary file is complete when the file is deleted, and     *)
(* every record is on a line of its own.                                      *)

InDelete(w) == call[w].pc = "delete"
InRename(w) == call[w].pc = "rename"

OnlyRewriter == \A v, w \in Workers : Rewriting(v) /\ Rewriting(w) => v = w
Whole(f) == f # NoFile => Single(f)
Others(f, id) == {r \in RecordsIn(f) : r.id # id}

Undisturbed ==
    ~overlapped =>
        /\ OnlyRewriter
        /\ file = NoFile => tmp # NoFile
        /\ Whole(file) /\ Whole(tmp)
        /\ OnDisk \subseteq live
        /\ \A w \in Workers : InDelete(w) =>
              file # NoFile /\ tmp # NoFile /\ RecordsIn(tmp) = Others(file, call[w].id)
        /\ \A w \in Workers : InRename(w) =>
              file = NoFile /\ \A r \in RecordsIn(tmp) : r.id # call[w].id

\* Nothing to do with the files.
LEMMA UndisturbedElsewhere ==
  ASSUME Undisturbed, UNCHANGED <<file, tmp, live, overlapped>>,
         \A v \in Workers : Rewriting(v)' => Rewriting(v) /\ call'[v] = call[v]
  PROVE  Undisturbed'
BY DEF Undisturbed, OnlyRewriter, OnDisk, Rewriting, InDelete, InRename

LEMMA UndisturbedInit == Init => Undisturbed
<1> SUFFICES ASSUME Init PROVE Undisturbed
  OBVIOUS
<1>1. PICK r \in Records, r0 \in {FALSE, TRUE} :
         file = (IF r0 THEN <<r>> \o LineSeparator ELSE <<r>>) /\ live = {r}
  BY DEF Init
<1>2. file \in Seq(Tokens) /\ Single(file) /\ RecordsIn(file) = {r}
  <2>1. CASE r0 = FALSE
    BY <1>1, <2>1, OneRecordFile
  <2>2. CASE r0 = TRUE
    <3>1. LineSeparator[1] \notin Records /\ <<r>> \in Seq(Tokens)
      BY LineSeparatorHas, OneRecordFile
    <3>2. file = <<r>> \o LineSeparator
      BY <1>1, <2>2
    <3> QED
      BY <3>1, <3>2, OneRecordFile, LineSeparatorHas, RecordsConcat, SingleConcat
  <2> QED
    BY <2>1, <2>2
<1>3. file # NoFile
  BY <1>2, AuthFileAssumption DEF AuthFileAssumption
<1>4. \A w \in Workers : ~Rewriting(w) /\ ~InDelete(w) /\ ~InRename(w)
  BY DEF Init, Idle, Rewriting, InDelete, InRename
<1>5. Whole(tmp) /\ OnDisk \subseteq live
  BY <1>1, <1>2, <1>3 DEF Init, Whole, OnDisk
<1> QED
  BY <1>2, <1>3, <1>4, <1>5 DEF Undisturbed, OnlyRewriter, Whole

\* A registration that is not overlapped appends to a file of which no rewrite
\* is under way.
LEMMA WriteUndisturbed ==
  ASSUME TypeInv, Undisturbed, Platform # "other", NEW w \in Workers, WriteRecord(w),
         ~overlapped'
  PROVE  LET r == Record(call[w].auth.id, call[w].auth.psw)
         IN  /\ r \in Records /\ OnDisk' = OnDisk \cup {r} /\ Undisturbed'
<1> DEFINE r == Record(call[w].auth.id, call[w].auth.psw)
<1>1. /\ ~overlapped /\ \A v \in Workers : ~Rewriting(v)
      /\ ~(file = NoFile /\ tmp # NoFile) /\ ~(file # NoFile /\ call[w].pc = "create")
  BY DEF WriteRecord
<1>2. /\ file # NoFile /\ Whole(file) /\ Whole(tmp) /\ OnDisk \subseteq live
  BY <1>1 DEF Undisturbed
<1>3. file \in Seq(Tokens) /\ call[w].pc = "append"
  BY <1>1, <1>2 DEF WriteRecord, TypeInv, FilesTyped, Files
<1>4. /\ r \in Records /\ file' = file \o (Separator \o <<r>>) /\ live' = live \cup {r}
      /\ file' \in Seq(Tokens) /\ tmp' = tmp
      /\ call' = [call EXCEPT ![w] = Idle] /\ call \in [Workers -> Calls]
  BY <1>2, <1>3, WriteRecordDoes DEF Written, AppendTo
<1> HIDE DEF r
<1> DEFINE t == Separator \o <<r>>
<1>5. t \in Seq(Tokens) /\ RecordsIn(t) = {r} /\ Single(t)
  <2>1. /\ <<r>> \in Seq(Tokens) /\ RecordsIn(<<r>>) = {r} /\ Single(<<r>>)
        /\ Separator \in Seq(Tokens) /\ RecordsIn(Separator) = {} /\ Single(Separator)
        /\ Ends(Separator)
    BY <1>4, OneRecordFile, SeparatorHas
  <2>2. t \in Seq(Tokens) /\ RecordsIn(t) = {} \cup {r}
    BY <2>1, RecordsConcat
  <2>3. Single(t)
    BY <2>1, SingleConcat
  <2> QED
    BY <2>2, <2>3
<1>6. t[1] \notin Records
  <2>1. Separator \in Seq(Tokens) /\ Len(Separator) \in Nat /\ Separator # <<>>
    BY SeparatorHas
  <2>2. Len(Separator) >= 1
    BY <2>1
  <2>3. t[1] = Separator[1]
    BY <2>1, <2>2
  <2> QED
    BY <2>2, <2>1, <2>3, SeparatorHas
<1> HIDE DEF t
<1>7. Single(file \o t) /\ RecordsIn(file \o t) = RecordsIn(file) \cup {r}
  BY <1>2, <1>3, <1>5, <1>6, SingleConcat, RecordsConcat DEF Whole
<1>8. file' = file \o t /\ file' # NoFile
  BY <1>4, AuthFileAssumption DEF AuthFileAssumption, t
<1>9. OnDisk' = OnDisk \cup {r}
  BY <1>2, <1>7, <1>8 DEF OnDisk
<1>10. \A v \in Workers : call'[v] = Idle \/ call'[v] = call[v]
  BY <1>4
<1>11. \A v \in Workers : ~Rewriting(v)' /\ ~InDelete(v)' /\ ~InRename(v)'
  BY <1>1, <1>10 DEF Idle, Rewriting, InDelete, InRename
<1>12. Whole(file)' /\ Whole(tmp)' /\ OnDisk' \subseteq live'
  BY <1>2, <1>4, <1>7, <1>8, <1>9 DEF Whole
<1>13. Undisturbed'
  BY <1>8, <1>11, <1>12 DEF Undisturbed, OnlyRewriter
<1> QED
  BY <1>4, <1>9, <1>13 DEF r

\* The copy is made of a file that no other worker rewrites.
LEMMA UnRegistUndisturbed ==
  ASSUME TypeInv, Undisturbed, NEW w \in Workers, UnRegist(w), ~overlapped'
  PROVE  OnDisk' = OnDisk /\ Undisturbed'
<1>1. /\ ~overlapped /\ \A v \in Workers : ~Rewriting(v)
      /\ file # NoFile /\ file' = file /\ live' = live
  BY DEF UnRegist
<1>2. PICK id \in Ids :
        /\ tmp' = CopyWithout(file, id)
        /\ IF CanCopy(file)
           THEN Goto(w, [pc |-> "delete", id |-> id, found |-> \E r \in RecordsIn(file) : r.id = id])
           ELSE Finish(w)
  BY DEF UnRegist, coreIdPswUnRegistRequestMsgGenProcess
<1>3. file \in Seq(Tokens) /\ Single(file) /\ OnDisk \subseteq live
  BY <1>1 DEF Undisturbed, Whole, TypeInv, FilesTyped, Files
<1>4. /\ tmp' \in Seq(Tokens) /\ Single(tmp')
      /\ CanCopy(file) => RecordsIn(tmp') = Others(file, id)
  BY <1>2, <1>3, CopyWithoutType, CopyWithoutKeeps DEF Others
<1>5. tmp' # NoFile
  BY <1>4, AuthFileAssumption DEF AuthFileAssumption
<1>6. OnDisk' = OnDisk
  BY <1>1 DEF OnDisk
<1>7. call \in [Workers -> Calls]
  BY DEF TypeInv, SessionInv, SessionsTyped
<1>8. ASSUME NEW v \in Workers, Rewriting(v)'
      PROVE  v = w /\ CanCopy(file) /\ call'[w].id = id /\ InDelete(w)' /\ ~InRename(w)'
  <2>1. CASE CanCopy(file)
    <3> DEFINE next == [pc |-> "delete", id |-> id, found |-> \E r \in RecordsIn(file) : r.id = id]
    <3>1. next.pc = "delete" /\ next.id = id
      OBVIOUS
    <3>2. call' = [call EXCEPT ![w] = next]
      BY <1>2, <2>1 DEF Goto
    <3> HIDE DEF next
    <3> QED
      BY <1>1, <1>7, <1>8, <2>1, <3>1, <3>2 DEF Rewriting, InDelete, InRename
  <2>2. CASE ~CanCopy(file)
    <3>1. call' = [call EXCEPT ![w] = Idle]
      BY <1>2, <2>2 DEF Finish, Goto
    <3> QED
      BY <1>1, <1>7, <1>8, <3>1 DEF Rewriting, Idle
  <2> QED
    BY <2>1, <2>2
<1>9. \A v \in Workers : InDelete(v)' \/ InRename(v)' => Rewriting(v)'
  BY DEF InDelete, InRename, Rewriting
<1>10. OnlyRewriter'
  BY <1>8 DEF OnlyRewriter
<1>11. Whole(file)' /\ Whole(tmp)' /\ OnDisk' \subseteq live'
  BY <1>1, <1>3, <1>4, <1>6 DEF Whole
<1>12. \A v \in Workers : InDelete(v)' =>
          file' # NoFile /\ tmp' # NoFile /\ RecordsIn(tmp') = Others(file', call'[v].id)
  BY <1>1, <1>4, <1>5, <1>8, <1>9
<1>13. \A v \in Workers : ~InRename(v)'
  BY <1>8, <1>9
<1> QED
  BY <1>1, <1>5, <1>6, <1>10, <1>11, <1>12, <1>13 DEF Undisturbed

\* The delete takes what it holds to the temporary file.
LEMMA DeleteUndisturbed ==
  ASSUME TypeInv, Undisturbed, NEW w \in Workers, RemoveDelete(w), ~overlapped'
  PROVE  /\ OnDisk' = OnDisk \/ OnDisk' = {r \in OnDisk : r.id # call[w].id}
         /\ Undisturbed'
<1>1. ~overlapped /\ InDelete(w) /\ UNCHANGED <<tmp, live>> /\ call \in [Workers -> Calls]
  BY DEF RemoveDelete, InDelete, TypeInv, SessionInv, SessionsTyped
<1>2. /\ file # NoFile /\ tmp # NoFile /\ RecordsIn(tmp) = Others(file, call[w].id)
      /\ Whole(tmp) /\ OnDisk \subseteq live /\ OnlyRewriter
  BY <1>1 DEF Undisturbed
<1>3. \A v \in Workers \ {w} : ~Rewriting(v)
  BY <1>1, <1>2 DEF OnlyRewriter, Rewriting, InDelete
<1>4. CASE Finish(w) /\ file' = file
  <2>1. \A v \in Workers : Rewriting(v)' => Rewriting(v) /\ call'[v] = call[v]
    BY <1>1, <1>4 DEF Finish, Goto, Rewriting, Idle
  <2>2. UNCHANGED <<file, tmp, live, overlapped>>
    BY <1>1, <1>4 DEF RemoveDelete
  <2> QED
    BY <2>1, <2>2, UndisturbedElsewhere DEF OnDisk
<1>5. CASE file' = NoFile /\ Goto(w, [call[w] EXCEPT !.pc = "rename"])
  <2> DEFINE next == [call[w] EXCEPT !.pc = "rename"]
  <2>1. next.pc = "rename" /\ next.id = call[w].id
    <3>1. call[w] \in [pc : {"delete", "rename"}, id : Ids, found : BOOLEAN]
      BY <1>1 DEF InDelete, Calls, Idle
    <3> QED
      BY <3>1
  <2>2. call' = [call EXCEPT ![w] = next]
    BY <1>5 DEF Goto
  <2> HIDE DEF next
  <2>3. /\ OnDisk' = RecordsIn(tmp) /\ OnDisk = RecordsIn(file)
    BY <1>1, <1>2, <1>5 DEF OnDisk
  <2>4. \A v \in Workers : Rewriting(v)' => v = w
    BY <1>1, <1>3, <2>2 DEF Rewriting
  <2>5. ~InDelete(w)' /\ call'[w].id = call[w].id
    BY <1>1, <2>1, <2>2 DEF InDelete
  <2>6. \A v \in Workers : InDelete(v)' \/ InRename(v)' => v = w
    BY <2>4 DEF InDelete, InRename, Rewriting
  <2>7. OnDisk' = {r \in OnDisk : r.id # call[w].id} /\ OnDisk' \subseteq live'
    BY <1>1, <1>2, <2>3 DEF Others
  <2>8. \A v \in Workers : InRename(v)' => \A r \in RecordsIn(tmp') : r.id # call'[v].id
    BY <1>1, <1>2, <2>5, <2>6 DEF Others
  <2>9. Whole(file)' /\ Whole(tmp)' /\ OnlyRewriter' /\ tmp' # NoFile
    BY <1>1, <1>2, <1>5, <2>4 DEF Whole, OnlyRewriter
  <2> QED
    BY <1>5, <2>5, <2>6, <2>7, <2>8, <2>9 DEF Undisturbed
<1> QED
  BY <1>4, <1>5 DEF RemoveDelete

\* The rename moves what the temporary file holds, and the records that are no
\* longer promised are not there.
LEMMA RenameUndisturbed ==
  ASSUME TypeInv, Undisturbed, NEW w \in Workers, RemoveRename(w), ~overlapped'
  PROVE  OnDisk' = OnDisk /\ Undisturbed'
<1>1. ~overlapped /\ InRename(w) /\ call' = [call EXCEPT ![w] = Idle] /\ call \in [Workers -> Calls]
  BY DEF RemoveRename, Finish, Goto, InRename, TypeInv, SessionInv, SessionsTyped
<1>2. /\ file = NoFile /\ tmp # NoFile /\ Whole(tmp) /\ OnDisk \subseteq live /\ OnlyRewriter
      /\ \A r \in RecordsIn(tmp) : r.id # call[w].id
  BY <1>1 DEF Undisturbed
<1>3. \A v \in Workers : ~Rewriting(v)' /\ ~InDelete(v)' /\ ~InRename(v)'
  <2>1. \A v \in Workers \ {w} : ~Rewriting(v)
    BY <1>1, <1>2 DEF OnlyRewriter, Rewriting, InRename
  <2> QED
    BY <1>1, <2>1 DEF Rewriting, InDelete, InRename, Idle
<1>4. (file' = tmp /\ tmp' = NoFile) \/ (file' = file /\ tmp' = tmp)
  BY DEF RemoveRename
<1>5. OnDisk' = OnDisk /\ OnDisk = RecordsIn(tmp)
  BY <1>2, <1>4 DEF OnDisk
<1>6. OnDisk' \subseteq live'
  <2>1. live' = live \/ live' = {r \in live : r.id # call[w].id}
    BY DEF RemoveRename
  <2> QED
    BY <1>2, <1>5, <2>1
<1>7. Whole(file)' /\ Whole(tmp)' /\ (file' = NoFile => tmp' # NoFile)
  BY <1>2, <1>4 DEF Whole
<1> QED
  BY <1>3, <1>5, <1>6, <1>7 DEF Undisturbed, OnlyRewriter

LEMMA UndisturbedStep ==
  ASSUME Platform # "other", TypeInv, Undisturbed, [Next]_vars
  PROVE  Undisturbed'
<1> SUFFICES ASSUME ~overlapped' PROVE Undisturbed'
  BY DEF Undisturbed
<1>0. call \in [Workers -> Calls]
  BY DEF TypeInv, SessionInv, SessionsTyped
<1>1. CASE UNCHANGED vars
  BY <1>1, UndisturbedElsewhere DEF vars, Rewriting
<1>2. CASE Crash
  BY <1>2, UndisturbedElsewhere DEF Crash, Rewriting, Idle
<1>3. ASSUME NEW w \in Workers, NEW next, next.pc \notin {"delete", "rename"}, Goto(w, next),
             UNCHANGED <<file, tmp, history>>
      PROVE  Undisturbed'
  BY <1>0, <1>3, UndisturbedElsewhere DEF Goto, Rewriting, history
<1>4. ASSUME NEW w \in Workers, IdExist(w)
      PROVE  Undisturbed'
  <2>1. PICK auth \in Auths : Goto(w, [pc |-> "exists", auth |-> auth])
    BY <1>4 DEF IdExist
  <2> QED
    BY <1>3, <1>4, <2>1 DEF IdExist
<1>5. ASSUME NEW w \in Workers, FileExists(w)
      PROVE  Undisturbed'
  BY <1>3, <1>5 DEF FileExists
<1>6. ASSUME NEW w \in Workers, WriteRecord(w)
      PROVE  Undisturbed'
  BY <1>6, WriteUndisturbed
<1>7. ASSUME NEW w \in Workers, LogInStart(w)
      PROVE  Undisturbed'
  BY <1>3, <1>7 DEF LogInStart
<1>8. ASSUME NEW w \in Workers, LogIn(w)
      PROVE  Undisturbed'
  BY <1>3, <1>8 DEF LogIn, Finish, Idle
<1>9. ASSUME NEW w \in Workers, ChangePsw(w)
      PROVE  Undisturbed'
  BY <1>1, <1>9 DEF ChangePsw
<1>10. ASSUME NEW w \in Workers, UnRegist(w)
       PROVE  Undisturbed'
  BY <1>10, UnRegistUndisturbed
<1>11. ASSUME NEW w \in Workers, RemoveDelete(w)
       PROVE  Undisturbed'
  BY <1>11, DeleteUndisturbed
<1>12. ASSUME NEW w \in Workers, RemoveRename(w)
       PROVE  Undisturbed'
  BY <1>12, RenameUndisturbed
<1> QED
  BY <1>1, <1>2, <1>4, <1>5, <1>6, <1>7, <1>8, <1>9, <1>10, <1>11, <1>12 DEF Next, Step

-----------------------------------------------------------------------------
\* What the files hold is a set of records, whatever happened.
LEMMA OnDiskRecords == OnDisk \subseteq Records
BY DEF OnDisk, RecordsIn

LEMMA RegistryInit == Init => Registry!Init
BY OnDiskRecords DEF Init, Registry!Init

\* A step that leaves the two files and the ghost alone.
LEMMA RegistryElsewhere ==
  ASSUME UNCHANGED <<file, tmp, overlapped>>
  PROVE  UNCHANGED Registry!vars
BY DEF OnDisk, Registry!vars

\* A registration, a delete that moves the records to the temporary file, or
\* nothing that the registry can see.
LEMMA RegistryStep ==
  ASSUME Platform # "other", TypeInv, Undisturbed, [Next]_vars
  PROVE  [Registry!Next]_(Registry!vars)
<1>1. OnDisk' \subseteq Records
  BY DEF OnDisk, RecordsIn
<1>2. overlapped \in BOOLEAN /\ overlapped' \in BOOLEAN
  BY TypeStep, Zenon DEF TypeInv, FilesTyped
<1>3. CASE overlapped'
  <2>1. overlapped' = TRUE
    BY <1>2, <1>3
  <2> QED
    BY <1>1, <2>1 DEF Registry!Next, Registry!Overlap
<1>4. CASE ~overlapped'
  <2>1. CASE UNCHANGED vars
    BY <2>1, RegistryElsewhere DEF vars
  <2>2. CASE Crash
    BY <2>2, RegistryElsewhere DEF Crash
  <2>3. ASSUME NEW w \in Workers, IdExist(w) \/ FileExists(w) \/ LogInStart(w) \/ LogIn(w)
                                    \/ ChangePsw(w)
        PROVE  UNCHANGED Registry!vars
    BY <2>3, RegistryElsewhere DEF IdExist, FileExists, LogInStart, LogIn, ChangePsw, vars, history
  <2>4. ASSUME NEW w \in Workers, WriteRecord(w)
        PROVE  Registry!Next
    <3>1. /\ Record(call[w].auth.id, call[w].auth.psw) \in Records
          /\ OnDisk' = OnDisk \cup {Record(call[w].auth.id, call[w].auth.psw)}
      BY <1>4, <2>4, WriteUndisturbed
    <3>2. ~overlapped
      BY <1>4, <2>4 DEF WriteRecord
    <3>3. overlapped' = overlapped
      BY <1>2, <1>4, <3>2
    <3>4. Registry!Register
      BY <3>1 DEF Registry!Register
    <3> QED
      BY <3>2, <3>3, <3>4 DEF Registry!Next, Registry!Kept
  <2>5. ASSUME NEW w \in Workers, UnRegist(w)
        PROVE  UNCHANGED Registry!vars
    <3>1. OnDisk' = OnDisk /\ ~overlapped
      BY <1>4, <2>5, UnRegistUndisturbed DEF UnRegist
    <3>2. overlapped' = overlapped
      BY <1>2, <1>4, <3>1
    <3> QED
      BY <3>1, <3>2 DEF Registry!vars
  <2>6. ASSUME NEW w \in Workers, RemoveDelete(w)
        PROVE  [Registry!Next]_(Registry!vars)
    <3>1. /\ OnDisk' = OnDisk \/ OnDisk' = {r \in OnDisk : r.id # call[w].id}
          /\ overlapped' = overlapped /\ ~overlapped
      BY <1>4, <2>6, DeleteUndisturbed DEF RemoveDelete
    <3>2. call[w].id \in Ids
      <4>1. call[w] \in Calls /\ call[w].pc = "delete"
        BY <2>6 DEF RemoveDelete, TypeInv, SessionInv, SessionsTyped
      <4> QED
        BY <4>1 DEF Calls, Idle
    <3>3. CASE OnDisk' = OnDisk
      BY <3>1, <3>3 DEF Registry!vars
    <3>4. CASE OnDisk' = {r \in OnDisk : r.id # call[w].id}
      BY <3>1, <3>2, <3>4 DEF Registry!Next, Registry!Kept, Registry!Unregister
    <3> QED
      BY <3>1, <3>3, <3>4
  <2>7. ASSUME NEW w \in Workers, RemoveRename(w)
        PROVE  UNCHANGED Registry!vars
    <3>1. OnDisk' = OnDisk /\ overlapped' = overlapped
      BY <1>4, <2>7, RenameUndisturbed DEF RemoveRename
    <3> QED
      BY <3>1 DEF Registry!vars
  <2> QED
    BY <2>1, <2>2, <2>3, <2>4, <2>5, <2>6, <2>7 DEF Next, Step
<1> QED
  BY <1>3, <1>4

LEMMA FilesInvariant ==
  ASSUME Platform # "other"
  PROVE  Spec => [](TypeInv /\ Undisturbed)
<1>1. Init => TypeInv /\ Undisturbed
  BY TypeInit, UndisturbedInit
<1>2. TypeInv /\ Undisturbed /\ [Next]_vars => (TypeInv /\ Undisturbed)'
  BY TypeStep, UndisturbedStep
<1> QED
  BY <1>1, <1>2, PTL DEF Spec

\* Whatever crashes and whatever file operation fails, for any number of
\* workers, of registrations and of removals: the file and its temporary copy
\* hold together what was registered and not removed.
THEOREM AuthKeepsRegistry ==
  ASSUME Platform # "other"
  PROVE  Spec => KeepsRegistry
<1>1. TypeInv /\ Undisturbed /\ [Next]_vars => [Registry!Next]_(Registry!vars)
  BY RegistryStep
<1> QED
  BY <1>1, RegistryInit, FilesInvariant, PTL DEF Spec, KeepsRegistry, Registry!Spec

-----------------------------------------------------------------------------
\* Who logs in is registered.
LEMMA LoginStep ==
  ASSUME TypeInv, Undisturbed, [Next]_vars, accepted' # accepted
  PROVE  LET auth == Last(accepted').auth
         IN  overlapped \/ Record(auth.id, auth.psw) \in live
<1>1. PICK w \in Workers : LogIn(w)
  <2>1. ~(UNCHANGED vars) /\ ~Crash
    BY DEF vars, Crash, session
  <2>2. PICK w \in Workers : Step(w)
    BY <2>1 DEF Next
  <2>3. ~(IdExist(w) \/ FileExists(w) \/ WriteRecord(w) \/ LogInStart(w) \/ ChangePsw(w)
            \/ UnRegist(w) \/ RemoveDelete(w) \/ RemoveRename(w))
    BY DEF IdExist, FileExists, WriteRecord, LogInStart, ChangePsw, UnRegist, RemoveDelete,
           RemoveRename, vars, session
  <2> QED
    BY <2>2, <2>3 DEF Step
<1>2. PICK request \in sent :
        accepted' = Append(accepted, request) /\ Verified(request.auth)
  BY <1>1 DEF LogIn
<1>3. /\ accepted \in Seq(LoginRequests) /\ request \in LoginRequests /\ file \in Files
      /\ overlapped \in BOOLEAN
  BY DEF TypeInv, SessionInv, SessionsTyped, FilesTyped
<1>4. Last(accepted') = request
  BY <1>2, <1>3, AppendProperties DEF Last
<1> DEFINE auth == request.auth
           rec == Get(file, auth.id).rec
<1>5. auth.id \in Ids
  <2>1. PICK a \in Auths, n \in 1 .. MaxNonces :
          request = coreIdPswLogInRequestMsgGenProcess(a.id, a.psw, n)
    BY <1>3 DEF LoginRequests
  <2>2. request.auth = [id |-> a.id, psw |-> a.psw] /\ a.id \in Ids
    BY <2>1 DEF coreIdPswLogInRequestMsgGenProcess, getEncryptedMergeMsg, Auths
  <2> QED
    BY <2>2
<1>6. Get(file, auth.id).end = "0x6010" /\ rec.psw = auth.psw
  BY <1>2 DEF Verified
<1>7. rec \in RecordsIn(file) /\ rec.id = auth.id
  BY <1>3, <1>5, <1>6, GetFound
<1> HIDE DEF rec, auth
<1>8. rec = Record(auth.id, auth.psw)
  <2>1. rec \in Records
    BY <1>7 DEF RecordsIn
  <2> QED
    BY <1>6, <1>7, <2>1 DEF Records, Record
<1>9. ~overlapped => rec \in live
  <2>1. file # NoFile
    BY <1>7 DEF RecordsIn
  <2> QED
    BY <1>7, <2>1 DEF Undisturbed, OnDisk
<1> QED
  BY <1>4, <1>8, <1>9 DEF auth

\* A login that succeeds carries what a registration wrote and no answered
\* removal took away, for any number of clients and deliveries.
THEOREM AuthLoginSound ==
  ASSUME Platform # "other"
  PROVE  Spec => LoginSound
<1>1. TypeInv /\ Undisturbed /\ [Next]_vars =>
        [accepted' # accepted =>
           LET auth == Last(accepted').auth
           IN  overlapped \/ Record(auth.id, auth.psw) \in live]_vars
  BY LoginStep
<1> QED
  BY <1>1, FilesInvariant, PTL DEF Spec, LoginSound

-----------------------------------------------------------------------------
(* Until the first rewrite.  On Windows a registration writes one line feed   *)
(* before its record, and a file that was never rewritten has no empty line.  *)

Closed(f) == f # NoFile /\ f # <<>> /\ Single(f) /\ Spaced(f) /\ f[Len(f)] \in Records

Unrewritten ==
    ~rewritten =>
        /\ Closed(file) /\ live \subseteq RecordsIn(file)
        /\ \A w \in Workers : call[w].pc # "create"

LEMMA UnrewrittenInit == Init => Unrewritten
<1> SUFFICES ASSUME Init, ~rewritten PROVE Unrewritten
  BY DEF Unrewritten
<1>1. PICK r \in Records : file = <<r>> /\ live = {r}
  BY DEF Init
<1>2. <<r>> \in Seq(Tokens) /\ RecordsIn(<<r>>) = {r} /\ Single(<<r>>)
  BY OneRecordFile
<1>3. Spaced(<<r>>)
  BY Distinct DEF Spaced
<1>4. Closed(file)
  BY <1>1, <1>2, <1>3, AuthFileAssumption DEF AuthFileAssumption, Closed
<1> QED
  BY <1>1, <1>2, <1>4 DEF Unrewritten, Init, Idle

\* A line feed and a record after a record.
LEMMA ClosedAppend ==
  ASSUME NEW f \in Seq(Tokens), Closed(f), NEW r \in Records
  PROVE  /\ Closed(f \o (<<LF>> \o <<r>>))
         /\ RecordsIn(f \o (<<LF>> \o <<r>>)) = RecordsIn(f) \cup {r}
<1> DEFINE t == <<LF>> \o <<r>>
           u == f \o t
           n == Len(f)
<1>1. t \in Seq(Tokens) /\ Len(t) = 2 /\ t[1] = LF /\ t[2] = r
  BY DEF Tokens
<1>2. n \in Nat /\ n >= 1 /\ f[n] \in Records
  <2>1. Len(f) \in Nat /\ Len(f) # 0 /\ f[n] \in Records
    BY DEF Closed
  <2> QED
    BY <2>1
<1>3. r # LF /\ r # CR /\ LF # CR /\ LF \notin Records
  BY Distinct
<1> HIDE DEF t
<1>4. /\ u \in Seq(Tokens) /\ Len(u) = n + 2
      /\ \A i \in 1 .. n : u[i] = f[i]
      /\ u[n + 1] = LF /\ u[n + 2] = r
  <2>1. /\ u \in Seq(Tokens) /\ Len(u) = Len(f) + Len(t)
        /\ \A i \in 1 .. Len(f) + Len(t) :
              u[i] = IF i <= Len(f) THEN f[i] ELSE t[i - Len(f)]
    BY <1>1, ConcatProperties
  <2>2. \A i \in 1 .. n + 2 : u[i] = IF i <= n THEN f[i] ELSE t[i - n]
    BY <1>1, <2>1
  <2>3. Len(u) = n + 2
    BY <1>1, <2>1
  <2> HIDE DEF u, n
  <2>4. u[n + 1] = t[1] /\ u[n + 2] = t[2] /\ \A i \in 1 .. n : u[i] = f[i]
    BY <1>2, <2>2
  <2> QED
    BY <1>1, <2>1, <2>3, <2>4
<1>5. RecordsIn(u) = RecordsIn(f) \cup {r}
  <2>1. RecordsIn(t) = {r}
    <3>1. Range(t) = {LF, r}
      BY <1>1 DEF Range
    <3>2. t # NoFile
      BY <1>1, AuthFileAssumption DEF AuthFileAssumption
    <3> QED
      BY <1>3, <3>1, <3>2 DEF RecordsIn
  <2> QED
    BY <1>1, <2>1, RecordsConcat
<1> HIDE DEF u, n
<1>6. Single(u)
  <2> SUFFICES ASSUME NEW i \in 1 .. Len(u) - 1
               PROVE  ~(u[i] \in Records /\ u[i + 1] \in Records)
    BY DEF Single
  <2>1. CASE i < n
    <3>1. i \in 1 .. n /\ i + 1 \in 1 .. n /\ i \in 1 .. Len(f) - 1
      BY <1>2, <2>1 DEF n
    <3> QED
      BY <1>4, <3>1 DEF Closed, Single
  <2>2. CASE i = n \/ i = n + 1
    BY <1>2, <1>3, <1>4, <2>2
  <2> QED
    BY <1>2, <1>4, <2>1, <2>2
<1>7. Spaced(u)
  <2> SUFFICES ASSUME NEW i \in 1 .. Len(u)
               PROVE  u[i] # CR /\ (u[i] = LF => i > 1 /\ u[i - 1] \in Records)
    BY DEF Spaced
  <2>1. CASE i <= n
    <3>1. i \in 1 .. n /\ u[i] = f[i] /\ (i > 1 => u[i - 1] = f[i - 1])
      BY <1>2, <1>4, <2>1
    <3> QED
      BY <3>1 DEF Closed, Spaced, n
  <2>2. CASE i = n + 1
    BY <1>2, <1>3, <1>4, <2>2
  <2>3. CASE i = n + 2
    BY <1>2, <1>3, <1>4, <2>3
  <2> QED
    BY <1>2, <1>4, <2>1, <2>2, <2>3
<1>8. u # NoFile /\ u # <<>> /\ u[Len(u)] \in Records
  BY <1>2, <1>4, AuthFileAssumption DEF AuthFileAssumption
<1> QED
  BY <1>5, <1>6, <1>7, <1>8 DEF Closed, u, t

LEMMA UnrewrittenElsewhere ==
  ASSUME Unrewritten, UNCHANGED <<file, rewritten>>, live' \subseteq live,
         ~rewritten => \A w \in Workers : call'[w].pc = "create" => call[w].pc = "create"
  PROVE  Unrewritten'
BY DEF Unrewritten, Closed, Single, Spaced, RecordsIn

LEMMA UnrewrittenStep ==
  ASSUME Platform = "windows", TypeInv, Unrewritten, [Next]_vars
  PROVE  Unrewritten'
<1>0. call \in [Workers -> Calls] /\ rewritten \in BOOLEAN
  BY DEF TypeInv, SessionInv, SessionsTyped, FilesTyped
<1>1. CASE UNCHANGED vars
  BY <1>1, UnrewrittenElsewhere DEF vars
<1>2. CASE Crash
  BY <1>2, UnrewrittenElsewhere DEF Crash, Idle
<1>3. ASSUME NEW w \in Workers, NEW next, next.pc # "create", Goto(w, next),
             UNCHANGED <<file, rewritten>>, live' \subseteq live
      PROVE  Unrewritten'
  BY <1>0, <1>3, UnrewrittenElsewhere DEF Goto
<1>4. ASSUME NEW w \in Workers, IdExist(w)
      PROVE  Unrewritten'
  <2>1. PICK auth \in Auths : Goto(w, [pc |-> "exists", auth |-> auth])
    BY <1>4 DEF IdExist
  <2> QED
    BY <1>3, <1>4, <2>1 DEF IdExist, history
<1>5. ASSUME NEW w \in Workers, FileExists(w)
      PROVE  Unrewritten'
  <2>1. ~rewritten => file # NoFile
    BY DEF Unrewritten, Closed
  <2>2. CASE file # NoFile
    BY <1>3, <1>5, <2>2 DEF FileExists, history
  <2>3. CASE rewritten
    BY <1>5, <2>3, UnrewrittenElsewhere DEF FileExists, history
  <2> QED
    BY <2>1, <2>2, <2>3
<1>6. ASSUME NEW w \in Workers, WriteRecord(w)
      PROVE  Unrewritten'
  <2> DEFINE r == Record(call[w].auth.id, call[w].auth.psw)
  <2>1. /\ r \in Records /\ file' = Written(w) /\ live' = live \cup {r}
        /\ rewritten' = rewritten /\ call' = [call EXCEPT ![w] = Idle]
    BY <1>6, WriteRecordDoes
  <2>2. \A v \in Workers : call'[v].pc = "create" => call[v].pc = "create"
    BY <1>0, <2>1 DEF Idle
  <2>3. CASE ~rewritten
    <3>1. Closed(file) /\ live \subseteq RecordsIn(file) /\ call[w].pc = "append"
          /\ \A v \in Workers : call[v].pc # "create"
      BY <1>6, <2>3 DEF Unrewritten, WriteRecord
    <3>2. file \in Seq(Tokens) /\ file # NoFile
      BY <3>1 DEF TypeInv, FilesTyped, Files, Closed
    <3>3. file' = file \o (<<LF>> \o <<r>>)
      BY <2>1, <3>1, <3>2 DEF Written, AppendTo, Separator
    <3> HIDE DEF r
    <3>4. Closed(file') /\ RecordsIn(file') = RecordsIn(file) \cup {r}
      BY <2>1, <3>1, <3>2, <3>3, ClosedAppend
    <3>5. live' \subseteq RecordsIn(file') /\ \A v \in Workers : call'[v].pc # "create"
      BY <2>1, <2>2, <3>1, <3>4
    <3> QED
      BY <3>4, <3>5 DEF Unrewritten, Closed, Single, Spaced, RecordsIn
  <2>4. CASE rewritten
    BY <2>1, <2>4 DEF Unrewritten
  <2> QED
    BY <1>0, <2>3, <2>4
<1>7. ASSUME NEW w \in Workers, LogInStart(w)
      PROVE  Unrewritten'
  BY <1>3, <1>7 DEF LogInStart, history
<1>8. ASSUME NEW w \in Workers, LogIn(w)
      PROVE  Unrewritten'
  BY <1>3, <1>8 DEF LogIn, Finish, Idle, history
<1>9. ASSUME NEW w \in Workers, ChangePsw(w)
      PROVE  Unrewritten'
  BY <1>1, <1>9 DEF ChangePsw
<1>10. ASSUME NEW w \in Workers, UnRegist(w)
       PROVE  Unrewritten'
  <2>1. PICK id : IF CanCopy(file)
                  THEN Goto(w, [pc |-> "delete", id |-> id,
                                found |-> \E r \in RecordsIn(file) : r.id = id])
                  ELSE Finish(w)
    BY <1>10 DEF UnRegist
  <2>2. UNCHANGED <<file, rewritten, live>>
    BY <1>10 DEF UnRegist
  <2>3. CASE CanCopy(file)
    <3> DEFINE next == [pc |-> "delete", id |-> id, found |-> \E r \in RecordsIn(file) : r.id = id]
    <3>1. Goto(w, next) /\ next.pc # "create"
      BY <2>1, <2>3
    <3> HIDE DEF next
    <3> QED
      BY <1>3, <2>2, <3>1
  <2>4. CASE ~CanCopy(file)
    BY <1>3, <2>1, <2>2, <2>4 DEF Finish, Idle
  <2> QED
    BY <2>3, <2>4
<1>11. ASSUME NEW w \in Workers, RemoveDelete(w)
       PROVE  Unrewritten'
  <2>1. CASE rewritten'
    BY <2>1 DEF Unrewritten
  <2>2. CASE ~rewritten'
    BY <1>3, <1>11, <2>2 DEF RemoveDelete, Finish, Idle
  <2> QED
    BY <2>1, <2>2
<1>12. ASSUME NEW w \in Workers, RemoveRename(w)
       PROVE  Unrewritten'
  <2>1. CASE rewritten
    BY <1>12, <2>1 DEF RemoveRename, Unrewritten
  <2>2. CASE ~rewritten
    <3>1. file # NoFile
      BY <2>2 DEF Unrewritten, Closed
    <3>2. file' = file
      BY <1>12, <3>1 DEF RemoveRename, Renames
    <3> QED
      BY <1>3, <1>12, <3>2 DEF RemoveRename, Finish, Idle
  <2> QED
    BY <2>1, <2>2
<1> QED
  BY <1>1, <1>2, <1>4, <1>5, <1>6, <1>7, <1>8, <1>9, <1>10, <1>11, <1>12 DEF Next, Step

\* On Windows every registered id is found until the file is rewritten the
\* first time, for any number of registrations and workers.
THEOREM AuthFound ==
  ASSUME Platform = "windows"
  PROVE  Spec => []FoundUntilRewritten
<1>1. Init => TypeInv /\ Unrewritten
  BY TypeInit, UnrewrittenInit
<1>2. TypeInv /\ Unrewritten /\ [Next]_vars => (TypeInv /\ Unrewritten)'
  BY TypeStep, UnrewrittenStep
<1>3. TypeInv /\ Unrewritten => FoundUntilRewritten
  <2> SUFFICES ASSUME TypeInv, Unrewritten, ~rewritten, NEW r \in live
               PROVE  Search(file, r.id) = "0x6010"
    BY DEF FoundUntilRewritten, RegisteredFound
  <2>1. Single(file) /\ Spaced(file) /\ r \in RecordsIn(file)
    BY DEF Unrewritten, Closed
  <2>2. file \in Seq(Tokens)
    BY DEF TypeInv, FilesTyped, Files, Unrewritten, Closed
  <2> QED
    BY <2>1, <2>2, SearchFinds
<1> QED
  BY <1>1, <1>2, <1>3, PTL DEF Spec
=============================================================================
