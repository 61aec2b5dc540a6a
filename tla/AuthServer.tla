------------------------------ MODULE AuthServer ------------------------------
(***************************************************************************)
(* Registration, login, password change and removal of managers, as the      *)
(* client library, MoaServerCoreAuthLib and ManagerAuthDBProcess carry them   *)
(* out together.  A worker serves one client at a time and is cut at every   *)
(* access to the file or to its temporary copy; workers are threads or       *)
(* processes that share these two files.                                     *)
(***************************************************************************)
EXTENDS AuthFile, AuthClient

CONSTANTS Workers,
          Faults,                                  \* subset of {"delete", "rename"}
          MaxWrites, MaxRemovals, MaxNonces, MaxCrashes   \* bounds of the model

VARIABLES file, tmp,     \* moaMANAGERAuthDB.dat and its .tmp
          call,          \* what each worker is doing
          issued,        \* nonces given out so far
          sent,          \* login requests the network may deliver, again and again
          accepted,      \* the requests that logged in, in order
          live,          \* records whose registration wrote and no removal was answered
          rewritten,     \* the file was rewritten, now or before
          overlapped,    \* a rewrite overlapped a registration or another rewrite
          removals, writes, crashes

vars == <<file, tmp, call, issued, sent, accepted, live, rewritten, overlapped,
          removals, writes, crashes>>
history == <<live, rewritten, overlapped, removals, writes, crashes>>
session == <<issued, sent, accepted>>

AuthServerAssumption ==
    /\ Faults \subseteq {"delete", "rename"}
    /\ {MaxWrites, MaxRemovals, MaxNonces, MaxCrashes} \subseteq Nat
ASSUME AuthServerAssumption

Idle == [pc |-> "idle"]
Auths == [id : Ids, psw : Psws]
LoginRequests == {coreIdPswLogInRequestMsgGenProcess(a.id, a.psw, n) :
                     a \in Auths, n \in 1 .. MaxNonces}
Calls == {Idle}
           \cup [pc : {"exists", "create", "append"}, auth : Auths]
           \cup [pc : {"login"}, nonce : 1 .. MaxNonces]
           \cup [pc : {"delete", "rename"}, id : Ids, found : BOOLEAN]

Goto(w, next) == call' = [call EXCEPT ![w] = next]
Finish(w) == Goto(w, Idle)
Free(w) == call[w] = Idle
Rewriting(w) == call[w].pc \in {"delete", "rename"}

\* The repository's file ends without a line break (nothing was removed since
\* the last registration) or with one (the last change was a removal).
Init == /\ \E r \in Records : \E r0 \in {FALSE, TRUE} :
              /\ file = IF r0 THEN <<r>> \o LineSeparator ELSE <<r>>
              /\ live = {r}
              /\ rewritten = r0
        /\ tmp = NoFile
        /\ call = [w \in Workers |-> Idle]
        /\ issued = 0 /\ sent = {} /\ accepted = <<>>
        /\ overlapped = FALSE /\ removals = 0 /\ writes = 0 /\ crashes = 0

-----------------------------------------------------------------------------
(* Registration                                                              *)

\* A client asks whether its id exists.  The registration ends when it does,
\* when the search threw, and, with a NullPointerException, when there is no
\* file.
IdExist(w) ==
    /\ Free(w)
    /\ \E auth \in Auths :
          LET result == Search(file, coreIdExistRegistRequestMsgGenProcess(auth.id).id)
              ack == [header |-> "IDExistAck", body |-> result]
          IN  /\ result \notin {"null", "exception"} /\ GoesOn(ack)
              /\ Goto(w, [pc |-> "exists", auth |-> auth])
    /\ UNCHANGED <<file, tmp, session, history>>

FileExists(w) ==
    /\ call[w].pc = "exists"
    /\ Goto(w, [pc |-> IF file = NoFile THEN "create" ELSE "append", auth |-> call[w].auth])
    /\ UNCHANGED <<file, tmp, session, history>>

\* The record is written without a separator by the call that found no file.
WriteRecord(w) ==
    /\ call[w].pc \in {"create", "append"}
    /\ writes < MaxWrites
    /\ LET auth == coreIdPswRegistRequestMsgGenProcess(call[w].auth.id, call[w].auth.psw).auth
           rec == Record(auth.id, auth.psw)
       IN  /\ file' = AppendTo(file, IF call[w].pc = "create" THEN <<rec>>
                                     ELSE Separator \o <<rec>>)
           /\ live' = live \cup {rec}
    /\ overlapped' = (overlapped \/ (\E v \in Workers : Rewriting(v))
                                 \/ (file = NoFile /\ tmp # NoFile)
                                 \/ (file # NoFile /\ call[w].pc = "create"))
    /\ writes' = writes + 1
    /\ Finish(w)
    /\ UNCHANGED <<tmp, session, rewritten, removals, crashes>>

-----------------------------------------------------------------------------
(* Login and password change                                                 *)

\* The server draws a nonce, the client builds its request with it.
LogInStart(w) ==
    /\ Free(w)
    /\ issued < MaxNonces
    /\ issued' = issued + 1
    /\ \E auth \in Auths :
          sent' = sent \cup {coreIdPswLogInRequestMsgGenProcess(auth.id, auth.psw, issued')}
    /\ Goto(w, [pc |-> "login", nonce |-> issued'])
    /\ UNCHANGED <<file, tmp, accepted, history>>

\* A mistaken check: any nonce the server ever drew will do.
NonceIssued(request, nonce) == request.nonce <= issued

NonceVerified(request, nonce) == request.nonce = nonce

\* A mistaken check: the id is looked up, the digests are not compared.
VerifiedIdOnly(auth) == Get(file, auth.id).end = "0x6010"

\* coreIdPswLogInAuthInfoGen gives the stored digest
Verified(auth) == LET got == Get(file, auth.id)
                  IN  got.end = "0x6010" /\ got.rec.psw = auth.psw

\* The session is answered with the first request the network delivers to it,
\* which need not be its own.
LogIn(w) ==
    /\ call[w].pc = "login"
    /\ \E request \in sent :
          accepted' = IF NonceVerified(request, call[w].nonce) /\ Verified(request.auth)
                      THEN Append(accepted, request) ELSE accepted
    /\ Finish(w)
    /\ UNCHANGED <<file, tmp, issued, sent, history>>

\* A password change: the current password is verified, the new digest is
\* computed and answered as updated (0x06070), and nothing is stored.
ChangePsw(w) ==
    /\ Free(w)
    /\ \E a \in Auths, new \in Psws :
          Verified(coreIdPswChangePswRequestMsgGenProcess(a.id, a.psw, new).auth)
    /\ UNCHANGED vars

-----------------------------------------------------------------------------
(* Removal                                                                   *)

\* A mistaken removal: the step that answers is not told whether the id was found.
UnRegistForgetsFound(w) ==
    /\ Free(w) /\ removals < MaxRemovals
    /\ file # NoFile
    /\ \E id \in Ids :
          /\ tmp' = CopyWithout(file, id)
          /\ Goto(w, [pc |-> "delete", id |-> id])
    /\ removals' = removals + 1
    /\ UNCHANGED <<file, session, live, rewritten, overlapped, writes, crashes>>

\* The records of other ids are copied to the temporary file; an empty line
\* throws and leaves what was copied so far there.
UnRegist(w) ==
    /\ Free(w) /\ removals < MaxRemovals
    /\ file # NoFile
    /\ \E i \in Ids :
          LET id == coreIdPswUnRegistRequestMsgGenProcess(i).id
          IN  /\ tmp' = CopyWithout(file, id)
              /\ IF CanCopy(file)
                 THEN Goto(w, [pc |-> "delete", id |-> id,
                               found |-> \E r \in RecordsIn(file) : r.id = id])
                 ELSE Finish(w)
    /\ overlapped' = (overlapped \/ \E v \in Workers : Rewriting(v))
    /\ removals' = removals + 1
    /\ UNCHANGED <<file, session, live, rewritten, writes, crashes>>

RemoveDelete(w) ==
    /\ call[w].pc = "delete"
    /\ \/ /\ file = NoFile \/ "delete" \in Faults
          /\ Finish(w)
          /\ UNCHANGED <<file, rewritten>>
       \/ /\ file # NoFile
          /\ file' = NoFile
          /\ rewritten' = TRUE
          /\ Goto(w, [call[w] EXCEPT !.pc = "rename"])
    /\ UNCHANGED <<tmp, session, live, overlapped, removals, writes, crashes>>

\* A rename that fails is printed and the removal answered all the same.
RemoveRename(w) ==
    /\ call[w].pc = "rename"
    /\ \/ /\ Renames(tmp, file)
          /\ file' = tmp /\ tmp' = NoFile
       \/ /\ ~Renames(tmp, file) \/ "rename" \in Faults
          /\ UNCHANGED <<file, tmp>>
    /\ live' = IF call[w].found THEN {r \in live : r.id # call[w].id} ELSE live
    /\ Finish(w)
    /\ UNCHANGED <<session, rewritten, overlapped, removals, writes, crashes>>

-----------------------------------------------------------------------------
\* All workers stop, wherever they are; the files stay.
Crash ==
    /\ crashes < MaxCrashes
    /\ call' = [w \in Workers |-> Idle]
    /\ crashes' = crashes + 1
    /\ UNCHANGED <<file, tmp, session, live, rewritten, overlapped, removals, writes>>

Step(w) ==
    \/ IdExist(w) \/ FileExists(w) \/ WriteRecord(w)
    \/ LogInStart(w) \/ LogIn(w) \/ ChangePsw(w)
    \/ UnRegist(w) \/ RemoveDelete(w) \/ RemoveRename(w)

Next == Crash \/ \E w \in Workers : Step(w)
Spec == Init /\ [][Next]_vars

-----------------------------------------------------------------------------
(* Properties                                                                *)

\* Every variable stays in its set.
TypeOK ==
    /\ file \in Files /\ tmp \in Files
    /\ call \in [Workers -> Calls]
    /\ issued \in 0 .. MaxNonces
    /\ sent \subseteq LoginRequests /\ Range(accepted) \subseteq sent
    /\ live \subseteq Records
    /\ rewritten \in BOOLEAN /\ overlapped \in BOOLEAN
    /\ removals \in 0 .. MaxRemovals /\ writes \in 0 .. MaxWrites /\ crashes \in 0 .. MaxCrashes

\* A login request logs in once, however often and whenever the network
\* delivers it: the nonce of its session is drawn for that session alone.
LoginOnce == IsInjective(accepted)

\* A login that succeeds carries the id and the password of a registration
\* that was written and whose removal was not answered, unless a rewrite was
\* overlapped (two overlapping rewrites can bring a removed record back).
LoginSound ==
    [][accepted' # accepted =>
         LET auth == Last(accepted').auth
         IN  overlapped \/ Record(auth.id, auth.psw) \in live]_vars

\* What the two files hold together: between the delete and the rename of a
\* rewrite, and after a crash there, the records are in the temporary file.
OnDisk == RecordsIn(IF file = NoFile THEN tmp ELSE file)

\* Whatever crashes and whatever file operation fails, the two files hold what
\* was registered and not removed.
Registry == INSTANCE AuthRegistry WITH registered <- OnDisk
KeepsRegistry == Registry!Spec

\* The registered ids are found: the search that precedes a registration, a
\* login and a password change see every record.
RegisteredFound == \A r \in live : Search(file, r.id) = "0x6010"

\* On Windows that is so until the file is rewritten the first time; from then
\* on the next record is preceded by an empty line, behind which no record is
\* found.
FoundUntilRewritten == ~rewritten => RegisteredFound
=============================================================================
