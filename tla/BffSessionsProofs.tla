------------------------- MODULE BffSessionsProofs --------------------------
(***************************************************************************)
(* Proofs about BffSessions, for every number of requests and every value  *)
(* of the time limits and the bounds.                                      *)
(***************************************************************************)
EXTENDS BffSessions, SequenceTheorems, TLAPS

-----------------------------------------------------------------------------
(* Types.                                                                  *)

LEMMA FreeSlotType == FreeSlot \in Request
  BY DEF FreeSlot, Request, Kinds, Phases, Calls, GetSession, Answer, AnswerKinds,
         NoAnswer, None, Keep

LEMMA InitWellTyped == Init => WellTyped
  BY FreeSlotType DEF Init, WellTyped, None

LEMMA ReplyType ==
  ASSUME WellTyped, NEW r \in Requests, NEW s \in Nat \cup {Keep}, Reply(r, s)
  PROVE  req' \in [Requests -> Request]
<1>1. req[r].setLogin \in Nat \cup {Keep}
  BY DEF WellTyped, Request
<1>2. [FreeSlot EXCEPT !.pc = "done", !.setSession = s, !.setLogin = req[r].setLogin] \in Request
  BY <1>1, FreeSlotType DEF Request, Phases
<1>3. QED
  BY <1>2 DEF Reply, WellTyped

LEMMA StoreCookieType ==
  ASSUME WellTyped, NEW r \in Requests
  PROVE  /\ DOMAIN StoreCookie(r) = DOMAIN rows
         /\ \A id \in DOMAIN rows : StoreCookie(r)[id] \in Row
<1>1. req[r].answer.cookie \in Nat
  BY DEF WellTyped, Request, Answer
<1>2. QED
  BY <1>1 DEF StoreCookie, WellTyped, Row

LEMMA MarkedRowType ==
  ASSUME WellTyped, NEW r \in Requests
  PROVE  /\ DOMAIN MarkedRow(r) = DOMAIN rows
         /\ \A id \in DOMAIN rows : MarkedRow(r)[id] \in Row
<1>1. req[r].answer.expires \in Nat /\ req[r].at \in Nat
  BY DEF WellTyped, Request, Answer
<1>2. QED
  BY <1>1 DEF MarkedRow, WellTyped, Row

LEMMA GrantedType == WellTyped => Granted \in Nat
  BY SessionsAssumption DEF WellTyped, Granted

LEMMA NewIdentityType ==
  ASSUME WellTyped, NEW pending \in BOOLEAN PROVE NewIdentity(pending) \in IdentitySession
  BY GrantedType DEF NewIdentity, IdentitySession

LEMMA AnsweredType ==
  ASSUME WellTyped, NEW r \in Requests, NEW kind \in AnswerKinds, NEW cookie \in Nat,
         NEW expires \in Nat, Answered(r, kind, cookie, expires)
  PROVE  req' \in [Requests -> Request]
<1>1. [kind |-> kind, cookie |-> cookie, expires |-> expires] \in Answer
  BY DEF Answer
<1>2. QED
  BY <1>1 DEF Answered, WellTyped, Request

\* A sequence with one element replaced, if there is such an element.
LEMMA ReplaceInSeq ==
  ASSUME NEW S, NEW q \in Seq(S), NEW i, NEW e, i \in DOMAIN q => e \in S
  PROVE  /\ [q EXCEPT ![i] = e] \in Seq(S)
         /\ DOMAIN [q EXCEPT ![i] = e] = DOMAIN q
         /\ Len([q EXCEPT ![i] = e]) = Len(q)
<1>1. DOMAIN q = 1 .. Len(q)
  OBVIOUS
<1>2. CASE i \in DOMAIN q
  BY <1>1, <1>2, ExceptSeq
<1>3. CASE i \notin DOMAIN q
  <2>1. [q EXCEPT ![i] = e] = q
    BY <1>3
  <2>2. QED
    BY <2>1
<1>4. QED
  BY <1>2, <1>3

LEMMA IdentDomain ==
  ASSUME WellTyped
  PROVE  /\ DOMAIN ident = 1 .. Len(ident) /\ Len(ident) \in Nat
         /\ \A i \in DOMAIN ident : ident[i] \in IdentitySession
  BY ElementOfSeq DEF WellTyped

LEMMA RevokeType ==
  ASSUME WellTyped, NEW i
  PROVE  /\ [ident EXCEPT ![i].revokedAt = now] \in Seq(IdentitySession)
         /\ DOMAIN [ident EXCEPT ![i].revokedAt = now] = DOMAIN ident
         /\ Len([ident EXCEPT ![i].revokedAt = now]) = Len(ident)
<1>1. i \in DOMAIN ident => [ident[i] EXCEPT !.revokedAt = now] \in IdentitySession
  BY IdentDomain DEF IdentitySession, WellTyped
<1>2. ident \in Seq(IdentitySession)
  BY DEF WellTyped
<1>3. QED
  BY <1>1, <1>2, ReplaceInSeq

LEMMA SlideType ==
  ASSUME WellTyped, NEW i, NEW e \in Nat
  PROVE  /\ [ident EXCEPT ![i].expires = e] \in Seq(IdentitySession)
         /\ DOMAIN [ident EXCEPT ![i].expires = e] = DOMAIN ident
<1>1. i \in DOMAIN ident => [ident[i] EXCEPT !.expires = e] \in IdentitySession
  BY IdentDomain DEF IdentitySession
<1>2. ident \in Seq(IdentitySession)
  BY DEF WellTyped
<1>3. QED
  BY <1>1, <1>2, ReplaceInSeq

LEMMA RotateType ==
  ASSUME WellTyped, NEW r \in Requests, Rotate(r)
  PROVE  ident' \in Seq(IdentitySession) /\ req' \in [Requests -> Request]
<1>1. Rotated(Asked(r)) \in Seq(IdentitySession)
  BY RevokeType, NewIdentityType, AppendProperties DEF Rotated
<1>2. Len(ident) + 1 \in Nat
  BY DEF WellTyped
<1>3. QED
  BY <1>1, <1>2, GrantedType, AnsweredType DEF Rotate, AnswerKinds

LEMMA RefuseType ==
  ASSUME WellTyped, NEW r \in Requests, NEW kind \in AnswerKinds, Refuse(r, kind)
  PROVE  ident' \in Seq(IdentitySession) /\ req' \in [Requests -> Request]
  BY AnsweredType DEF Refuse, None, WellTyped

LEMMA IdentityTypes ==
  ASSUME WellTyped, NEW r \in Requests, IdentityAnswers(r) PROVE WellTyped'
<1>1. ident' \in Seq(IdentitySession) /\ req' \in [Requests -> Request]
  <2>1. Asked(r) \in Nat
    BY DEF WellTyped, Request, Asked
  <2>2. CASE AnswerGetSession(r)
    <3>1. CASE Rotate(r)
      BY <3>1, RotateType
    <3>2. CASE Refuse(r, "unauthenticated")
      BY <3>2, RefuseType DEF AnswerKinds
    <3>3. ASSUME Authenticated(Asked(r)), NEW e \in {ident[Asked(r)].expires, Granted},
                 ident' = [ident EXCEPT ![Asked(r)].expires = e],
                 Answered(r, "ok", Asked(r), e)
          PROVE  ident' \in Seq(IdentitySession) /\ req' \in [Requests -> Request]
      <4>1. e \in Nat
        BY <3>3, GrantedType, IdentDomain DEF Authenticated, IdentitySession
      <4>2. ident' \in Seq(IdentitySession)
        BY <3>3, <4>1, SlideType
      <4>3. QED
        BY <3>3, <4>1, <4>2, <2>1, AnsweredType DEF AnswerKinds
    <3>4. QED
      BY <2>2, <3>1, <3>2, <3>3 DEF AnswerGetSession
  <2>3. CASE AnswerCall(r)
    <3>1. CASE Rotate(r)
      BY <3>1, RotateType
    <3>2. CASE Refuse(r, "unauthenticated") \/ Refuse(r, "refused")
      BY <3>2, RefuseType DEF AnswerKinds
    <3>3. CASE EndOwnSession(r)
      BY <3>3, RevokeType, AnsweredType DEF EndOwnSession, AnswerKinds, None
    <3>4. CASE ident' = ident /\ Answered(r, "ok", Asked(r), 0)
      BY <3>4, <2>1, AnsweredType DEF AnswerKinds, WellTyped
    <3>5. QED
      BY <2>3, <3>1, <3>2, <3>3, <3>4 DEF AnswerCall
  <2>4. CASE AnswerSignIn(r)
    <3>1. CASE Refuse(r, "unauthenticated")
      BY <3>1, RefuseType DEF AnswerKinds
    <3>2. ASSUME NEW second \in BOOLEAN, ident' = Append(ident, NewIdentity(second)),
                 Answered(r, IF second THEN "two_factor" ELSE "ok", Len(ident) + 1, 0)
          PROVE  ident' \in Seq(IdentitySession) /\ req' \in [Requests -> Request]
      <4>1. ident' \in Seq(IdentitySession) /\ Len(ident) + 1 \in Nat
        BY <3>2, NewIdentityType, AppendProperties DEF WellTyped
      <4>2. QED
        BY <3>2, <4>1, AnsweredType DEF AnswerKinds
    <3>3. QED
      BY <2>4, <3>1, <3>2 DEF AnswerSignIn
  <2>5. CASE AnswerVerify(r)
    <3>1. CASE Refuse(r, "unauthenticated")
      BY <3>1, RefuseType DEF AnswerKinds
    <3>2. CASE /\ ident' = [ident EXCEPT ![Asked(r)] = NewIdentity(FALSE)]
               /\ Answered(r, "ok", Asked(r), 0)
      <4>1. ident' \in Seq(IdentitySession)
        BY <3>2, NewIdentityType, ReplaceInSeq DEF WellTyped
      <4>2. QED
        BY <3>2, <4>1, <2>1, AnsweredType DEF AnswerKinds
    <3>3. QED
      BY <2>5, <3>1, <3>2 DEF AnswerVerify
  <2>6. CASE AnswerSignOut(r)
    BY <2>6, RevokeType, AnsweredType DEF AnswerSignOut, AnswerKinds, None, WellTyped
  <2>7. QED
    BY <2>2, <2>3, <2>4, <2>5, <2>6 DEF IdentityAnswers
<1>2. QED
  BY <1>1 DEF IdentityAnswers, WellTyped

LEMMA BffTypes ==
  ASSUME WellTyped, NEW r \in Requests, BffStep(r),
         req[r].pc = "signingOut" => req[r].id \in 1 .. issued
  PROVE  WellTyped'
<1>1. /\ req[r] \in Request
      /\ req[r].setSession \in Nat \cup {Keep} /\ req[r].id \in Nat
      /\ req[r].answer.cookie \in Nat /\ req[r].answer.expires \in Nat
  BY DEF WellTyped, Request, Answer
<1>2. None \in Nat \cup {Keep} /\ Keep \in Nat \cup {Keep}
  BY DEF None
<1>3. CASE Admit(r)
  <2> DEFINE pc == CASE req[r].kind = "logout" -> "signingOut"
                     [] req[r].kind = "me" \/ SyncDue(req[r].id) -> "syncing"
                     [] OTHER -> "running"
  <2>1. rows[req[r].id].cookie \in Nat /\ now \in Nat
    BY <1>3 DEF Admit, Unexpired, WellTyped, Row
  <2>2. pc \in {"signingOut", "syncing", "running"}
    OBVIOUS
  <2>3. req' = [req EXCEPT ![r].cookie = rows[req[r].id].cookie, ![r].at = now, ![r].pc = pc]
    BY <1>3 DEF Admit
  <2> HIDE DEF pc
  <2>4. [req[r] EXCEPT !.cookie = rows[req[r].id].cookie, !.at = now, !.pc = pc] \in Request
    BY <2>1, <2>2, <1>1 DEF Request, Phases, Calls, GetSession
  <2>5. req' \in [Requests -> Request]
    BY <2>3, <2>4 DEF WellTyped
  <2>6. QED
    BY <2>5, <1>3 DEF Admit, WellTyped
<1>4. CASE TurnAway(r)
  <2>1. req' \in [Requests -> Request]
    BY <1>4, <1>2, ReplyType DEF TurnAway
  <2>2. QED
    BY <2>1, <1>4 DEF TurnAway, WellTyped
<1>5. CASE FindChallenge(r)
  <2>1. [FreeSlot EXCEPT !.pc = "done", !.setLogin = None] \in Request
    BY FreeSlotType DEF Request, Phases, None
  <2>2. CASE Unexpired(challenges, req[r].id)
    <3>1. challenges[req[r].id].cookie \in Nat /\ now \in Nat
      BY <2>2 DEF Unexpired, WellTyped, Challenge
    <3>2. req' = [req EXCEPT ![r].pc = "verifying", ![r].at = now,
                             ![r].cookie = challenges[req[r].id].cookie]
      BY <2>2, <1>5 DEF FindChallenge
    <3>3. [req[r] EXCEPT !.pc = "verifying", !.at = now,
                         !.cookie = challenges[req[r].id].cookie] \in Request
      BY <3>1, <1>1 DEF Request, Phases, Calls
    <3>4. req' \in [Requests -> Request]
      BY <3>2, <3>3 DEF WellTyped
    <3>5. QED
      BY <3>4, <1>5 DEF FindChallenge, WellTyped
  <2>3. CASE ~Unexpired(challenges, req[r].id)
    <3>1. req' \in [Requests -> Request]
      BY <2>1, <2>3, <1>5 DEF FindChallenge, WellTyped
    <3>2. QED
      BY <3>1, <1>5 DEF FindChallenge, WellTyped
  <2>4. QED
    BY <2>2, <2>3
<1>6. CASE SyncArrives(r)
  <2>1. req' \in [Requests -> Request]
    BY <1>6, <1>1 DEF SyncArrives, WellTyped, Request, Phases, Calls, GetSession, Answer, AnswerKinds, NoAnswer, None
  <2>2. QED
    BY <2>1, <1>6 DEF SyncArrives, WellTyped
<1>7. CASE PersistSynced(r)
  <2>1. req' \in [Requests -> Request]
    BY <1>7, <1>1 DEF PersistSynced, WellTyped, Request, Phases
  <2>2. QED
    BY <2>1, <1>7, StoreCookieType DEF PersistSynced, WellTyped
<1>8. CASE MarkSynced(r)
  <2>1. CASE req[r].kind = "me"
    BY <2>1, <1>1, <1>8, ReplyType, MarkedRowType DEF MarkSynced, WellTyped
  <2>2. CASE req[r].kind # "me"
    <3>1. req' = [req EXCEPT ![r].pc = "running", ![r].answer = NoAnswer,
                             ![r].cookie = req[r].answer.cookie,
                             ![r].setSession = req[r].id]
      BY <2>2, <1>8 DEF MarkSynced
    <3>2. [req[r] EXCEPT !.pc = "running", !.answer = NoAnswer,
                         !.cookie = req[r].answer.cookie,
                         !.setSession = req[r].id] \in Request
      BY <1>1 DEF Request, Phases, Answer, AnswerKinds, NoAnswer, None
    <3>3. req' \in [Requests -> Request]
      BY <3>1, <3>2 DEF WellTyped
    <3>4. QED
      BY <3>3, <1>8, MarkedRowType DEF MarkSynced, WellTyped
  <2>3. QED
    BY <2>1, <2>2
<1>9. CASE SyncUnavailable(r)
  <2>1. CASE req[r].kind = "me"
    BY <2>1, <1>2, <1>9, ReplyType DEF SyncUnavailable, WellTyped
  <2>2. CASE req[r].kind # "me"
    <3>1. req' = [req EXCEPT ![r].pc = "running", ![r].answer = NoAnswer,
                             ![r].unsynced = TRUE]
      BY <2>2, <1>9 DEF SyncUnavailable
    <3>2. [req[r] EXCEPT !.pc = "running", !.answer = NoAnswer, !.unsynced = TRUE] \in Request
      BY <1>1 DEF Request, Phases, Answer, AnswerKinds, NoAnswer, None
    <3>3. req' \in [Requests -> Request]
      BY <3>1, <3>2 DEF WellTyped
    <3>4. QED
      BY <3>3, <1>9 DEF SyncUnavailable, WellTyped
  <2>3. QED
    BY <2>1, <2>2
<1>10. CASE EndSession(r)
  <2>1. /\ DOMAIN rows' \subseteq DOMAIN rows
        /\ \A id \in DOMAIN rows' : rows'[id] = rows[id]
    BY <1>10 DEF EndSession, Restrict
  <2>2. req' \in [Requests -> Request]
    BY <1>10, <1>2, ReplyType DEF EndSession
  <2>3. QED
    BY <2>1, <2>2, <1>10 DEF EndSession, WellTyped
<1>11. CASE ServeAlone(r)
  BY <1>11, <1>1, <1>2, ReplyType DEF ServeAlone, WellTyped
<1>12. CASE Call(r)
  <2>1. req' \in [Requests -> Request]
    BY <1>12, <1>1 DEF Call, WellTyped, Request, Phases, Calls
  <2>2. QED
    BY <2>1, <1>12 DEF Call, WellTyped
<1>13. CASE CallArrives(r)
  <2>1. req' \in [Requests -> Request]
    BY <1>13, <1>1 DEF CallArrives, WellTyped, Request, Phases, Calls, GetSession, Answer, AnswerKinds, NoAnswer, None
  <2>2. QED
    BY <2>1, <1>13 DEF CallArrives, WellTyped
<1>14. CASE PersistCalled(r)
  BY <1>14, <1>1, ReplyType, StoreCookieType DEF PersistCalled, WellTyped
<1>15. CASE CallFails(r)
  BY <1>15, <1>1, <1>2, ReplyType DEF CallFails, WellTyped
<1>16. CASE Check(r)
  <2>1. req' \in [Requests -> Request]
    BY <1>16, <1>1 DEF Check, WellTyped, Request, Phases, Calls, GetSession, Answer, AnswerKinds, NoAnswer, None
  <2>2. QED
    BY <2>1, <1>16 DEF Check, WellTyped
<1>17. CASE PassRefusal(r)
  BY <1>17, <1>1, <1>2, ReplyType DEF PassRefusal, WellTyped
<1>18. CASE AuthenticationFails(r)
  BY <1>18, <1>1, <1>2, ReplyType DEF AuthenticationFails, WellTyped
<1>19. CASE StartSecondFactor(r)
  <2>1. issued + 1 \in Nat /\ now + ChallengeLife \in Nat /\ 1 .. issued \subseteq 1 .. issued + 1
    BY SessionsAssumption DEF WellTyped
  <2>2. [cookie |-> req[r].answer.cookie, expires |-> now + ChallengeLife] \in Challenge
    BY <1>1, <2>1 DEF Challenge
  <2>3. /\ DOMAIN challenges' \subseteq 1 .. issued'
        /\ \A id \in DOMAIN challenges' : challenges'[id] \in Challenge
    <3>1. challenges' = WithEntry(challenges, issued + 1,
                          [cookie |-> req[r].answer.cookie, expires |-> now + ChallengeLife])
      BY <1>19 DEF StartSecondFactor
    <3>2. /\ DOMAIN challenges' = DOMAIN challenges \cup {issued + 1}
          /\ challenges'[issued + 1] \in Challenge
          /\ \A id \in DOMAIN challenges : id # issued + 1 => challenges'[id] = challenges[id]
      BY <3>1, <2>2 DEF WithEntry
    <3>3. issued' = issued + 1
      BY <1>19 DEF StartSecondFactor
    <3>4. QED
      BY <3>2, <3>3, <2>1 DEF WellTyped
  <2>4. req' \in [Requests -> Request]
    BY <2>1, <1>19, FreeSlotType DEF StartSecondFactor, WellTyped, Request, Phases
  <2>5. QED
    BY <2>1, <2>3, <2>4, <1>19 DEF StartSecondFactor, WellTyped
<1>20. CASE Establish(r)
  <2>1. req' \in [Requests -> Request]
    BY <1>20, <1>1, <1>2 DEF Establish, WellTyped, Request, Phases, Calls, GetSession,
                           Answer, AnswerKinds, NoAnswer, None
  <2>2. /\ DOMAIN challenges' \subseteq 1 .. issued
        /\ \A id \in DOMAIN challenges' : challenges'[id] \in Challenge
    <3>1. /\ DOMAIN challenges' \subseteq DOMAIN challenges
          /\ \A id \in DOMAIN challenges' : challenges'[id] = challenges[id]
      BY <1>20 DEF Establish, Restrict
    <3>2. QED
      BY <3>1 DEF WellTyped
  <2>3. QED
    BY <2>1, <2>2, <1>20 DEF Establish, WellTyped
<1>21. CASE EstablishArrives(r)
  <2>1. req' \in [Requests -> Request]
    BY <1>21, <1>1 DEF EstablishArrives, WellTyped, Request, Phases, Calls, GetSession, Answer, AnswerKinds, NoAnswer, None
  <2>2. QED
    BY <2>1, <1>21 DEF EstablishArrives, WellTyped
<1>22. CASE CreateSession(r)
  <2>1. issued + 1 \in Nat /\ 1 .. issued \subseteq 1 .. issued + 1
    BY DEF WellTyped
  <2>2. [cookie |-> req[r].answer.cookie, expires |-> req[r].answer.expires,
         synced |-> now] \in Row
    BY <1>1 DEF Row, WellTyped
  <2>3. /\ DOMAIN rows' \subseteq 1 .. issued'
        /\ \A id \in DOMAIN rows' : rows'[id] \in Row
    <3>1. rows' = WithEntry(rows, issued + 1,
                    [cookie |-> req[r].answer.cookie, expires |-> req[r].answer.expires,
                     synced |-> now])
      BY <1>22 DEF CreateSession
    <3>2. /\ DOMAIN rows' = DOMAIN rows \cup {issued + 1}
          /\ rows'[issued + 1] \in Row
          /\ \A id \in DOMAIN rows : id # issued + 1 => rows'[id] = rows[id]
      BY <3>1, <2>2 DEF WithEntry
    <3>3. issued' = issued + 1
      BY <1>22 DEF CreateSession
    <3>4. QED
      BY <3>2, <3>3, <2>1 DEF WellTyped
  <2>4. req' \in [Requests -> Request]
    BY <2>1, <1>22, ReplyType DEF CreateSession
  <2>5. QED
    BY <2>1, <2>3, <2>4, <1>22 DEF CreateSession, WellTyped
<1>23. CASE DeleteForLogout(r)
  <2>1. /\ DOMAIN rows' \subseteq DOMAIN rows
        /\ \A id \in DOMAIN rows' : rows'[id] = rows[id]
    BY <1>23 DEF DeleteForLogout, Restrict
  <2>2. req' \in [Requests -> Request]
    BY <1>23, <1>2, ReplyType DEF DeleteForLogout
  <2>3. QED
    BY <2>1, <2>2, <1>23 DEF DeleteForLogout, WellTyped
<1>24. CASE StoreThrows(r)
  BY <1>24, <1>1, <1>2, ReplyType DEF StoreThrows, WellTyped
<1>25. ASSUME NEW arrives \in BOOLEAN, Receive(r, arrives) PROVE WellTyped'
  <2>1. req' \in [Requests -> Request]
    BY <1>25, FreeSlotType DEF Receive, WellTyped
  <2>2. browser' \in [session : Nat, login : Nat]
    BY <1>25, <1>1 DEF Receive, WellTyped, Request
  <2>3. QED
    BY <2>1, <2>2, <1>25 DEF Receive, WellTyped
<1>26. QED
  BY <1>3, <1>4, <1>5, <1>6, <1>7, <1>8, <1>9, <1>10, <1>11, <1>12, <1>13, <1>14, <1>15, <1>16, <1>17, <1>18, <1>19, <1>20, <1>21, <1>22, <1>23, <1>24, <1>25 DEF BffStep

-----------------------------------------------------------------------------
(***************************************************************************)
(* The inductive invariant behind the first theorems: what a request was   *)
(* answered is a cookie identity-service gave out, and what it logs out is *)
(* a session that was there - so its id is never given out again.          *)
(***************************************************************************)

GivesCookie(r) ==
  \/ req[r].pc = "creating"
  \/ req[r].pc = "establishing" /\ req[r].answer.kind = "ok"
  \/ req[r].pc = "signIn" /\ req[r].answer.kind = "two_factor"

Known(r) ==
  /\ req[r].answer.cookie \in 0 .. Len(ident)
  /\ GivesCookie(r) => req[r].answer.cookie # None
  /\ req[r].pc = "idle" => req[r].answer.kind = "none"
  /\ req[r].pc = "verifying" => Asked(r) \in 1 .. Len(ident)
  /\ req[r].pc = "signingOut" => req[r].id \in 1 .. issued

TypedInv == TypeOK /\ (\A r \in Requests : Known(r)) /\ LogoutIsFinal

\* The other requests keep what they have.
LEMMA OthersKeep ==
  ASSUME WellTyped, NEW r \in Requests, CallStep(r) \/ BffStep(r),
         NEW q \in Requests, q # r
  PROVE  req'[q] = req[q]
<1>0. req \in [Requests -> Request]
  BY DEF WellTyped
<1>1. CASE CallStep(r)
  BY <1>0, <1>1 DEF CallStep, IdentityAnswers, UpstreamFails, BodyCutOff, AnswerGetSession,
    AnswerCall, AnswerSignIn, AnswerVerify, AnswerSignOut, Rotate, Refuse, EndOwnSession, Answered
<1>2. CASE BffStep(r)
  BY <1>0, <1>2 DEF BffStep, Admit, TurnAway, FindChallenge, SyncArrives, PersistSynced,
    MarkSynced, SyncUnavailable, EndSession, ServeAlone, Call, CallArrives, PersistCalled,
    CallFails, Check, PassRefusal, AuthenticationFails, StartSecondFactor, Establish,
    EstablishArrives, CreateSession, DeleteForLogout, StoreThrows, Receive, Reply
<1>3. QED
  BY <1>1, <1>2

\* Neither list gets shorter: what was known stays known.
LEMMA KnownStays ==
  ASSUME WellTyped, NEW q \in Requests, Known(q), req'[q] = req[q],
         Len(ident') \in Nat, Len(ident') >= Len(ident),
         issued' \in Nat, issued' >= issued
  PROVE  Known(q)'
<1>1. Len(ident) \in Nat /\ issued \in Nat
  BY IdentDomain DEF WellTyped
<1>2. QED
  BY <1>1 DEF Known, GivesCookie, Asked

\* identity-service creates and changes sessions, and answers with theirs.
LEMMA IdentityKnown ==
  ASSUME WellTyped, NEW r \in Requests, Known(r), IdentityAnswers(r)
  PROVE  Len(ident') \in Nat /\ Len(ident') >= Len(ident) /\ Known(r)'
<1> DEFINE Says(kind, cookie, expires) ==
             /\ Answered(r, kind, cookie, expires)
             /\ cookie \in 0 .. Len(ident')
             /\ cookie # None \/ kind \notin {"ok", "two_factor"}
                              \/ req[r].pc \notin {"establishing", "signIn"}
<1> DEFINE Good == /\ Len(ident') \in Nat /\ Len(ident') >= Len(ident)
                   /\ \E kind, cookie, expires : Says(kind, cookie, expires)
<1>1. /\ Len(ident) \in Nat /\ DOMAIN ident = 1 .. Len(ident)
      /\ req \in [Requests -> Request] /\ ident \in Seq(IdentitySession)
  BY IdentDomain DEF WellTyped
<1>2. ASSUME Rotate(r) PROVE Good
  <2>1. Len(ident') = Len(ident) + 1
    BY <1>2, RevokeType, NewIdentityType, AppendProperties DEF Rotate, Rotated
  <2>2. Says("ok", Len(ident) + 1, Granted)
    BY <1>2, <1>1, <2>1 DEF Rotate, None
  <2>3. QED
    BY <2>1, <2>2, <1>1
<1>3. ASSUME NEW kind, kind \notin {"ok", "two_factor"}, Refuse(r, kind) PROVE Good
  <2>1. Says(kind, None, 0)
    BY <1>3, <1>1 DEF Refuse, None
  <2>2. QED
    BY <2>1, <1>3, <1>1 DEF Refuse
<1>4. Good
  <2>1. CASE AnswerGetSession(r)
    <3>1. ASSUME Authenticated(Asked(r)), NEW e \in {ident[Asked(r)].expires, Granted},
                 ident' = [ident EXCEPT ![Asked(r)].expires = e],
                 Answered(r, "ok", Asked(r), e)
          PROVE  Good
      <4>1. e \in Nat
        BY <3>1, GrantedType, IdentDomain DEF Authenticated, IdentitySession
      <4>2. Len(ident') = Len(ident)
        BY <3>1, <4>1, <1>1, SlideType, IdentDomain DEF WellTyped
      <4>3. Says("ok", Asked(r), e)
        BY <3>1, <4>2, <1>1 DEF Authenticated, None
      <4>4. QED
        BY <4>2, <4>3, <1>1
    <3>2. QED
      BY <2>1, <3>1, <1>2, <1>3 DEF AnswerGetSession
  <2>2. CASE AnswerCall(r)
    <3>1. ASSUME Authenticated(Asked(r)), ident' = ident, Answered(r, "ok", Asked(r), 0)
          PROVE  Good
      <4>1. Says("ok", Asked(r), 0)
        BY <3>1, <1>1 DEF Authenticated, None
      <4>2. QED
        BY <4>1, <3>1, <1>1
    <3>2. ASSUME EndOwnSession(r) PROVE Good
      <4>1. Len(ident') = Len(ident)
        BY <3>2, RevokeType DEF EndOwnSession
      <4>2. Says("ok", None, 0)
        BY <3>2, <4>1, <1>1, <2>2 DEF EndOwnSession, AnswerCall, None
      <4>3. QED
        BY <4>1, <4>2, <1>1
    <3>3. QED
      BY <2>2, <3>1, <3>2, <1>2, <1>3 DEF AnswerCall
  <2>3. CASE AnswerSignIn(r)
    <3>1. ASSUME NEW second \in BOOLEAN, ident' = Append(ident, NewIdentity(second)),
                 Answered(r, IF second THEN "two_factor" ELSE "ok", Len(ident) + 1, 0)
          PROVE  Good
      <4>1. Len(ident') = Len(ident) + 1
        BY <3>1, <1>1, NewIdentityType, AppendProperties
      <4>2. Says(IF second THEN "two_factor" ELSE "ok", Len(ident) + 1, 0)
        BY <3>1, <4>1, <1>1 DEF None
      <4>3. QED
        BY <4>1, <4>2, <1>1
    <3>2. QED
      BY <2>3, <3>1, <1>3 DEF AnswerSignIn
  <2>4. CASE AnswerVerify(r)
    <3>1. ASSUME ident' = [ident EXCEPT ![Asked(r)] = NewIdentity(FALSE)],
                 Answered(r, "ok", Asked(r), 0)
          PROVE  Good
      <4>1. Len(ident') = Len(ident)
        BY <3>1, <1>1, NewIdentityType, ReplaceInSeq
      <4>2. Says("ok", Asked(r), 0)
        BY <3>1, <4>1, <1>1, <2>4 DEF AnswerVerify, Known
      <4>3. QED
        BY <4>1, <4>2, <1>1
    <3>2. QED
      BY <2>4, <3>1, <1>3 DEF AnswerVerify
  <2>5. CASE AnswerSignOut(r)
    <3>1. Len(ident') = Len(ident)
      BY <2>5, RevokeType DEF AnswerSignOut
    <3>2. Says("ok", None, 0)
      BY <2>5, <3>1, <1>1 DEF AnswerSignOut, None
    <3>3. QED
      BY <3>1, <3>2, <1>1
  <2>6. QED
    BY <2>1, <2>2, <2>3, <2>4, <2>5 DEF IdentityAnswers
<1>5. PICK kind, cookie, expires : Says(kind, cookie, expires)
  BY <1>4
<1>6. req'[r] = [req[r] EXCEPT !.answer = [kind |-> kind, cookie |-> cookie, expires |-> expires]]
  BY <1>5, <1>1 DEF Answered
<1>7. /\ req'[r].answer = [kind |-> kind, cookie |-> cookie, expires |-> expires]
      /\ req'[r].pc = req[r].pc /\ req'[r].id = req[r].id /\ req'[r].cookie = req[r].cookie
  BY <1>6, <1>1 DEF Request
<1>8. req[r].pc \notin {"creating", "idle"} /\ issued' = issued
  BY DEF IdentityAnswers, Waits, Calls, GetSession
<1>9. GivesCookie(r)' => cookie # None
  BY <1>7, <1>8, <1>5 DEF GivesCookie
<1>10. QED
  BY <1>4, <1>5, <1>7, <1>8, <1>9, <1>1 DEF Known, Asked

\* What a step of the BFF stores is a cookie it knows; what it logs out is gone.
LEMMA TablesKept ==
  ASSUME TypedInv, NEW r \in Requests, BffStep(r)
  PROVE  /\ \A id \in DOMAIN rows' : rows'[id].cookie \in DOMAIN ident
         /\ \A id \in DOMAIN challenges' : challenges'[id].cookie \in DOMAIN ident
         /\ LogoutIsFinal'
         /\ ident' = ident /\ issued' \in Nat /\ issued' >= issued
<1>1. /\ DOMAIN ident = 1 .. Len(ident) /\ Len(ident) \in Nat
      /\ issued \in Nat /\ DOMAIN rows \subseteq 1 .. issued /\ loggedOut \subseteq 1 .. issued
      /\ \A id \in DOMAIN rows : rows[id].cookie \in DOMAIN ident /\ rows[id] \in Row
      /\ \A id \in DOMAIN challenges : challenges[id].cookie \in DOMAIN ident
      /\ Known(r) /\ loggedOut \cap DOMAIN rows = {}
  BY IdentDomain DEF TypedInv, TypeOK, WellTyped, LogoutIsFinal
<1>2. ident' = ident
  BY DEF BffStep, Admit, TurnAway, FindChallenge, SyncArrives, PersistSynced,
    MarkSynced, SyncUnavailable, EndSession, ServeAlone, Call, CallArrives, PersistCalled,
    CallFails, Check, PassRefusal, AuthenticationFails, StartSecondFactor, Establish,
    EstablishArrives, CreateSession, DeleteForLogout, StoreThrows, Receive
<1>3. CASE PersistSynced(r) \/ PersistCalled(r)
  <2>1. /\ rows' = StoreCookie(r) /\ UNCHANGED <<challenges, issued, loggedOut>>
    BY <1>3 DEF PersistSynced, PersistCalled
  <2>2. /\ DOMAIN rows' = DOMAIN rows
        /\ \A id \in DOMAIN rows : rows'[id].cookie \in DOMAIN ident
    BY <2>1, <1>1 DEF StoreCookie, Known, None, Row
  <2>3. QED
    BY <2>1, <2>2, <1>1, <1>2 DEF LogoutIsFinal
<1>4. CASE MarkSynced(r)
  <2>1. /\ rows' = MarkedRow(r) /\ UNCHANGED <<challenges, issued, loggedOut>>
    BY <1>4 DEF MarkSynced
  <2>2. /\ DOMAIN rows' = DOMAIN rows
        /\ \A id \in DOMAIN rows : rows'[id].cookie \in DOMAIN ident
    BY <2>1, <1>1 DEF MarkedRow, Row
  <2>3. QED
    BY <2>1, <2>2, <1>1, <1>2 DEF LogoutIsFinal
<1>5. CASE EndSession(r)
  <2>1. /\ DOMAIN rows' \subseteq DOMAIN rows
        /\ \A id \in DOMAIN rows' : rows'[id] = rows[id]
        /\ UNCHANGED <<challenges, issued, loggedOut>>
    BY <1>5 DEF EndSession, Restrict
  <2>2. QED
    BY <2>1, <1>1, <1>2 DEF LogoutIsFinal
<1>6. CASE DeleteForLogout(r)
  <2>1. /\ DOMAIN rows' = DOMAIN rows \ {req[r].id}
        /\ \A id \in DOMAIN rows' : rows'[id] = rows[id]
        /\ loggedOut' = loggedOut \cup {req[r].id}
        /\ UNCHANGED <<challenges, issued>>
    BY <1>6 DEF DeleteForLogout, Restrict
  <2>2. QED
    BY <2>1, <1>1, <1>2 DEF LogoutIsFinal
<1>7. CASE StartSecondFactor(r)
  <2>1. /\ req[r].answer.cookie \in DOMAIN ident
        /\ issued' = issued + 1 /\ UNCHANGED <<rows, loggedOut>>
    BY <1>7, <1>1 DEF StartSecondFactor, Known, GivesCookie, None
  <2>2. challenges' = WithEntry(challenges, issued + 1,
                        [cookie |-> req[r].answer.cookie, expires |-> now + ChallengeLife])
    BY <1>7 DEF StartSecondFactor
  <2>3. \A id \in DOMAIN challenges' : challenges'[id].cookie \in DOMAIN ident
    BY <2>1, <2>2, <1>1 DEF WithEntry
  <2>4. QED
    BY <2>1, <2>3, <1>1, <1>2 DEF LogoutIsFinal
<1>8. CASE CreateSession(r)
  <2>1. /\ req[r].answer.cookie \in DOMAIN ident
        /\ issued' = issued + 1 /\ UNCHANGED <<challenges, loggedOut>>
    BY <1>8, <1>1 DEF CreateSession, Known, GivesCookie, None
  <2>2. rows' = WithEntry(rows, issued + 1,
                  [cookie |-> req[r].answer.cookie, expires |-> req[r].answer.expires,
                   synced |-> now])
    BY <1>8 DEF CreateSession
  <2>3. /\ \A id \in DOMAIN rows' : rows'[id].cookie \in DOMAIN ident
        /\ DOMAIN rows' = DOMAIN rows \cup {issued + 1}
    BY <2>1, <2>2, <1>1 DEF WithEntry
  <2>4. QED
    BY <2>1, <2>3, <1>1, <1>2 DEF LogoutIsFinal
<1>9. CASE Establish(r)
  <2>1. /\ DOMAIN challenges' \subseteq DOMAIN challenges
        /\ \A id \in DOMAIN challenges' : challenges'[id] = challenges[id]
        /\ UNCHANGED <<rows, issued, loggedOut>>
    BY <1>9 DEF Establish, Restrict
  <2>2. QED
    BY <2>1, <1>1, <1>2 DEF LogoutIsFinal
<1>10. CASE UNCHANGED <<rows, challenges, issued, loggedOut>>
  BY <1>10, <1>1, <1>2 DEF LogoutIsFinal
<1>11. QED
  BY <1>3, <1>4, <1>5, <1>6, <1>7, <1>8, <1>9, <1>10
  DEF BffStep, Admit, TurnAway, FindChallenge, SyncArrives, SyncUnavailable,
    ServeAlone, Call, CallArrives, CallFails, Check, PassRefusal, AuthenticationFails,
    EstablishArrives, StoreThrows, Receive

\* What the request knows after its own step.
LEMMA StepKnown ==
  ASSUME TypedInv, NEW r \in Requests, BffStep(r)
  PROVE  Known(r)'
<1>1. /\ DOMAIN ident = 1 .. Len(ident) /\ Len(ident) \in Nat
      /\ DOMAIN rows \subseteq 1 .. issued
      /\ \A id \in DOMAIN challenges : challenges[id].cookie \in DOMAIN ident
      /\ Known(r) /\ req \in [Requests -> Request] /\ req[r] \in Request
      /\ ident' = ident
  BY IdentDomain, TablesKept DEF TypedInv, TypeOK, WellTyped
<1>2. CASE req'[r].answer = NoAnswer
           /\ req'[r].pc \notin {"creating", "verifying", "signingOut"}
  BY <1>1, <1>2 DEF Known, GivesCookie, NoAnswer, None
<1>3. CASE Admit(r)
  <2> DEFINE pc == CASE req[r].kind = "logout" -> "signingOut"
                     [] req[r].kind = "me" \/ SyncDue(req[r].id) -> "syncing"
                     [] OTHER -> "running"
  <2>1. pc \in {"signingOut", "syncing", "running"}
    OBVIOUS
  <2>2. /\ req' = [req EXCEPT ![r].cookie = rows[req[r].id].cookie, ![r].at = now, ![r].pc = pc]
        /\ req[r].id \in 1 .. issued /\ issued' = issued /\ req[r].pc = "finding"
    BY <1>3, <1>1 DEF Admit, Unexpired
  <2> HIDE DEF pc
  <2>3. req'[r].answer = req[r].answer /\ req'[r].pc = pc /\ req'[r].id = req[r].id
    BY <2>2, <1>1 DEF Request
  <2>4. QED
    BY <2>1, <2>2, <2>3, <1>1 DEF Known, GivesCookie
<1>4. CASE FindChallenge(r)
  <2>1. CASE Unexpired(challenges, req[r].id)
    <3>1. /\ req' = [req EXCEPT ![r].pc = "verifying", ![r].at = now,
                                ![r].cookie = challenges[req[r].id].cookie]
          /\ challenges[req[r].id].cookie \in 1 .. Len(ident)
      BY <1>4, <2>1, <1>1 DEF FindChallenge, Unexpired
    <3>2. /\ req'[r].answer = req[r].answer /\ req'[r].pc = "verifying"
          /\ req'[r].cookie = challenges[req[r].id].cookie
      BY <3>1, <1>1 DEF Request
    <3>3. QED
      BY <3>1, <3>2, <1>1 DEF Known, GivesCookie, Asked
  <2>2. CASE ~Unexpired(challenges, req[r].id)
    BY <1>2, <1>4, <2>2, <1>1 DEF FindChallenge, FreeSlot
  <2>3. QED
    BY <2>1, <2>2
<1>5. CASE EstablishArrives(r)
  BY <1>5, <1>1 DEF EstablishArrives, Known, GivesCookie, Request
<1>6. CASE SyncArrives(r) \/ PersistSynced(r) \/ Call(r) \/ CallArrives(r)
  BY <1>6, <1>1 DEF SyncArrives, PersistSynced, Call, CallArrives, Known, GivesCookie, Request
<1>7. CASE MarkSynced(r)
  <2>1. CASE req[r].kind = "me"
    BY <1>2, <1>7, <2>1, <1>1 DEF MarkSynced, Reply, FreeSlot
  <2>2. CASE req[r].kind # "me"
    <3>1. req'[r].answer = NoAnswer /\ req'[r].pc = "running"
      BY <1>7, <2>2, <1>1 DEF MarkSynced, Request
    <3>2. QED
      BY <3>1, <1>2
  <2>3. QED
    BY <2>1, <2>2
<1>8. CASE SyncUnavailable(r)
  <2>1. CASE req[r].kind = "me"
    BY <1>2, <1>8, <2>1, <1>1 DEF SyncUnavailable, Reply, FreeSlot
  <2>2. CASE req[r].kind # "me"
    <3>1. req'[r].answer = NoAnswer /\ req'[r].pc = "running"
      BY <1>8, <2>2, <1>1 DEF SyncUnavailable, Request
    <3>2. QED
      BY <3>1, <1>2
  <2>3. QED
    BY <2>1, <2>2
<1>9. CASE Check(r) \/ Establish(r)
  BY <1>2, <1>9, <1>1 DEF Check, Establish, Request
<1>10. CASE StartSecondFactor(r)
  BY <1>2, <1>10, <1>1 DEF StartSecondFactor, FreeSlot
<1>11. CASE \E arrives \in BOOLEAN : Receive(r, arrives)
  BY <1>2, <1>11, <1>1 DEF Receive, FreeSlot
<1>12. CASE \E s : Reply(r, s)
  BY <1>2, <1>12, <1>1 DEF Reply, FreeSlot
<1>13. QED
  BY <1>3, <1>4, <1>5, <1>6, <1>7, <1>8, <1>9, <1>10, <1>11, <1>12
  DEF BffStep, TurnAway, EndSession, ServeAlone, PersistCalled, CallFails, PassRefusal,
      AuthenticationFails, CreateSession, DeleteForLogout, StoreThrows

LEMMA TypedBff ==
  ASSUME TypedInv, NEW r \in Requests, BffStep(r) PROVE TypedInv'
<1>1. WellTyped /\ \A q \in Requests : Known(q)
  BY DEF TypedInv, TypeOK
<1>2. WellTyped'
  BY <1>1, BffTypes DEF Known
<1>3. /\ \A id \in DOMAIN rows' : rows'[id].cookie \in DOMAIN ident'
      /\ \A id \in DOMAIN challenges' : challenges'[id].cookie \in DOMAIN ident'
      /\ LogoutIsFinal'
      /\ Len(ident') \in Nat /\ Len(ident') >= Len(ident)
      /\ issued' \in Nat /\ issued' >= issued
  BY <1>1, TablesKept, IdentDomain
<1>4. ASSUME NEW q \in Requests PROVE Known(q)'
  <2>1. CASE q = r
    BY <2>1, StepKnown
  <2>2. CASE q # r
    BY <2>2, <1>1, <1>3, OthersKeep, KnownStays
  <2>3. QED
    BY <2>1, <2>2
<1>5. QED
  BY <1>2, <1>3, <1>4 DEF TypedInv, TypeOK

LEMMA TypedIdentity ==
  ASSUME TypedInv, NEW r \in Requests, IdentityAnswers(r) PROVE TypedInv'
<1>1. WellTyped /\ (\A q \in Requests : Known(q)) /\ WellTyped'
  BY IdentityTypes DEF TypedInv, TypeOK
<1>2. /\ DOMAIN ident = 1 .. Len(ident) /\ DOMAIN ident' = 1 .. Len(ident')
      /\ Len(ident) \in Nat /\ Len(ident') \in Nat /\ Len(ident') >= Len(ident)
      /\ issued \in Nat
      /\ UNCHANGED <<rows, challenges, issued, loggedOut>>
  BY <1>1, IdentDomain, IdentityKnown DEF IdentityAnswers, WellTyped
<1>3. ASSUME NEW q \in Requests PROVE Known(q)'
  <2>1. CASE q = r
    BY <2>1, <1>1, IdentityKnown
  <2>2. CASE q # r
    BY <2>2, <1>1, <1>2, OthersKeep, KnownStays DEF CallStep
  <2>3. QED
    BY <2>1, <2>2
<1>4. QED
  BY <1>1, <1>2, <1>3 DEF TypedInv, TypeOK, LogoutIsFinal

\* A call that fails tells less than it did.
LEMMA TypedFailure ==
  ASSUME TypedInv, NEW r \in Requests, UpstreamFails(r) \/ BodyCutOff(r) PROVE TypedInv'
<1>1. /\ WellTyped /\ (\A q \in Requests : Known(q))
      /\ Len(ident) \in Nat /\ issued \in Nat /\ req \in [Requests -> Request]
  BY IdentDomain DEF TypedInv, TypeOK, WellTyped
<1>2. /\ UNCHANGED <<now, ident, rows, challenges, issued, browser, sent, loggedOut>>
      /\ req[r].pc \in Calls
  BY DEF UpstreamFails, BodyCutOff, Calls
<1>3. PICK answer \in {[NoAnswer EXCEPT !.kind = "unavailable"],
                       [NoAnswer EXCEPT !.kind = "unauthenticated"]}, cut \in BOOLEAN :
        req' = [req EXCEPT ![r].answer = answer, ![r].cut = cut]
  BY DEF UpstreamFails, BodyCutOff
<1>4. answer \in Answer /\ answer.cookie = None /\ answer.kind \notin {"ok", "two_factor"}
  BY DEF NoAnswer, Answer, AnswerKinds, None
<1>5. [req[r] EXCEPT !.answer = answer, !.cut = cut] \in Request
  BY <1>1, <1>4 DEF Request
<1>6. req' \in [Requests -> Request]
  BY <1>1, <1>3, <1>5
<1>7. /\ req'[r].answer = answer
      /\ req'[r].pc = req[r].pc /\ req'[r].id = req[r].id /\ req'[r].cookie = req[r].cookie
  BY <1>1, <1>3 DEF Request
<1>8. Known(r)'
  BY <1>1, <1>2, <1>4, <1>7 DEF Known, GivesCookie, Asked, Calls, GetSession, None
<1>9. ASSUME NEW q \in Requests PROVE Known(q)'
  BY <1>1, <1>2, <1>8, OthersKeep, KnownStays DEF CallStep
<1>10. QED
  BY <1>1, <1>2, <1>6, <1>9 DEF TypedInv, TypeOK, WellTyped, LogoutIsFinal

LEMMA TypedSend ==
  ASSUME TypedInv, NEW r \in Requests, NEW kind \in Kinds, Send(r, kind) PROVE TypedInv'
<1>1. /\ WellTyped /\ (\A q \in Requests : Known(q))
      /\ Len(ident) \in Nat /\ issued \in Nat /\ req \in [Requests -> Request]
      /\ now \in Nat /\ sent \in Nat /\ browser.session \in Nat /\ browser.login \in Nat
  BY IdentDomain DEF TypedInv, TypeOK, WellTyped
<1>2. PICK pc \in {"signIn", "finding"}, at \in Nat, id \in Nat :
        req' = [req EXCEPT ![r].kind = kind, ![r].pc = pc, ![r].at = at, ![r].id = id]
  <2> DEFINE id == CASE kind = "login"  -> None
                     [] kind = "verify" -> browser.login
                     [] OTHER           -> browser.session
  <2>1. id \in Nat
    BY <1>1 DEF None
  <2>2. req' = [req EXCEPT ![r].kind = kind,
                           ![r].pc = IF kind = "login" THEN "signIn" ELSE "finding",
                           ![r].at = IF kind = "login" THEN now ELSE 0, ![r].id = id]
    BY DEF Send
  <2> HIDE DEF id
  <2>3. QED
    BY <2>1, <2>2, <1>1
<1>3. [req[r] EXCEPT !.kind = kind, !.pc = pc, !.at = at, !.id = id] \in Request
  BY <1>1 DEF Request, Phases, Calls
<1>4. req' \in [Requests -> Request]
  BY <1>1, <1>2, <1>3
<1>5. /\ UNCHANGED <<now, ident, rows, challenges, issued, browser, loggedOut>>
      /\ sent' = sent + 1
  BY DEF Send
<1>6. Known(r)'
  <2>1. req'[r].answer = req[r].answer /\ req'[r].pc = pc
    BY <1>1, <1>2 DEF Request
  <2>2. req[r].answer.kind # "two_factor"
    BY <1>1 DEF Send, Known
  <2>3. QED
    BY <2>1, <2>2, <1>1, <1>5 DEF Known, GivesCookie
<1>7. ASSUME NEW q \in Requests PROVE Known(q)'
  <2>1. CASE q # r
    <3>1. req'[q] = req[q]
      BY <2>1, <1>1, <1>2
    <3>2. QED
      BY <3>1, <1>1, <1>5, KnownStays
  <2>2. QED
    BY <2>1, <1>6
<1>8. QED
  BY <1>1, <1>4, <1>5, <1>7 DEF TypedInv, TypeOK, WellTyped, LogoutIsFinal

\* A deleted row takes nothing with it, and time changes nothing that is known.
LEMMA TypedRest ==
  ASSUME TypedInv,
         \/ \E i \in DOMAIN ident : Revoke(i)
         \/ \E both \in BOOLEAN : Sweep(both)
         \/ Restart
         \/ Tick
         \/ UNCHANGED vars
  PROVE  TypedInv'
<1>1. /\ WellTyped /\ (\A q \in Requests : Known(q))
      /\ DOMAIN ident = 1 .. Len(ident) /\ Len(ident) \in Nat
      /\ req \in [Requests -> Request]
  BY IdentDomain DEF TypedInv, TypeOK, WellTyped
<1>2. ASSUME NEW i \in DOMAIN ident, Revoke(i) PROVE TypedInv'
  <2>1. /\ ident' \in Seq(IdentitySession) /\ DOMAIN ident' = DOMAIN ident
        /\ Len(ident') = Len(ident)
        /\ UNCHANGED <<now, rows, challenges, issued, browser, req, sent, loggedOut>>
    BY <1>2, <1>1, RevokeType DEF Revoke
  <2>2. QED
    BY <2>1, <1>1 DEF TypedInv, TypeOK, WellTyped, LogoutIsFinal, Known, GivesCookie, Asked
<1>3. ASSUME NEW both \in BOOLEAN, Sweep(both) PROVE TypedInv'
  <2>1. /\ DOMAIN rows' \subseteq DOMAIN rows
        /\ \A id \in DOMAIN rows' : rows'[id] = rows[id]
        /\ DOMAIN challenges' \subseteq DOMAIN challenges
        /\ \A id \in DOMAIN challenges' : challenges'[id] = challenges[id]
        /\ UNCHANGED <<now, ident, issued, browser, req, sent, loggedOut>>
    BY <1>3 DEF Sweep, Restrict
  <2>2. QED
    BY <2>1, <1>1 DEF TypedInv, TypeOK, WellTyped, LogoutIsFinal, Known, GivesCookie, Asked
<1>4. CASE Restart
  <2>1. /\ req' \in [Requests -> Request]
        /\ \A q \in Requests : req'[q] = FreeSlot
        /\ UNCHANGED <<now, ident, rows, challenges, issued, browser, sent, loggedOut>>
    BY <1>4, FreeSlotType DEF Restart
  <2>2. QED
    BY <2>1, <1>1 DEF TypedInv, TypeOK, WellTyped, LogoutIsFinal, Known, GivesCookie,
                      FreeSlot, NoAnswer, None
<1>5. CASE Tick
  BY <1>5, <1>1 DEF Tick, TypedInv, TypeOK, WellTyped, LogoutIsFinal, Known, GivesCookie, Asked
<1>6. CASE UNCHANGED vars
  BY <1>6 DEF vars, TypedInv, TypeOK, WellTyped, LogoutIsFinal, Known, GivesCookie, Asked
<1>7. QED
  BY <1>2, <1>3, <1>4, <1>5, <1>6

LEMMA InitTyped == Init => TypedInv
<1> SUFFICES ASSUME Init PROVE TypedInv
  OBVIOUS
<1>1. DOMAIN rows = {} /\ DOMAIN challenges = {} /\ Len(ident) = 0
  BY DEF Init
<1>2. \A r \in Requests : Known(r)
  BY <1>1 DEF Init, Known, GivesCookie, FreeSlot, NoAnswer, None
<1>3. QED
  BY <1>1, <1>2, InitWellTyped DEF TypedInv, TypeOK, LogoutIsFinal

LEMMA NextTyped == TypedInv /\ [Next]_vars => TypedInv'
  BY TypedSend, TypedIdentity, TypedFailure, TypedBff, TypedRest DEF Next, CallStep

-----------------------------------------------------------------------------
(* The theorems.                                                           *)

LEMMA SpecTyped == Spec => []TypedInv
  BY InitTyped, NextTyped, PTL DEF Spec

\* Whatever the order of logins, syncs, rotations and crashes: the tables are
\* of their types, and hold no cookie but identity-service's.
THEOREM SpecTypeOK == Spec => []TypeOK
  BY SpecTyped, PTL DEF TypedInv

\* Logging out is final: no sync and no rotation that was on its way brings
\* the row back, and no later session gets its id.
THEOREM SpecLogoutIsFinal == Spec => []LogoutIsFinal
  BY SpecTyped, PTL DEF TypedInv

-----------------------------------------------------------------------------
(***************************************************************************)
(* The inductive invariant behind RevokedIsCutOff, NeverOutlives and       *)
(* EndedForAReason, and its proof.  A session's cookies form a chain:      *)
(* whoever holds one that is not in the row holds a revoked one, or -      *)
(* Fresh - the newest, which it alone has and will store.                  *)
(***************************************************************************)

SessionPhases == {"signingOut", "syncing", "persisting", "marking", "running",
                  "calling", "storing", "checking"}

Revoked(i) == ident[i].revokedAt # Never

Usable(i) == i \in DOMAIN ident /\ ~ident[i].pending

\* j replaced i, and lives no shorter.
Heir(i, j) ==
  /\ Revoked(i)
  /\ ident[i].expires <= ident[j].expires
  /\ Revoked(j) => ident[i].revokedAt <= ident[j].revokedAt

HasRow(r) == req[r].id \in DOMAIN rows

RowCookie(r) == rows[req[r].id].cookie

\* A cookie came back that the call was not made with; it is not stored yet.
Fresh(r) ==
  /\ req[r].pc \in {"syncing", "persisting", "calling", "storing"}
  /\ req[r].answer.kind = "ok"
  /\ req[r].answer.cookie \notin {None, Asked(r)}

IdentInv ==
  \A i \in DOMAIN ident : /\ ident[i].expires <= now + Life
                          /\ Revoked(i) => ident[i].revokedAt <= now

RowInv(id) ==
  /\ Usable(rows[id].cookie)
  /\ rows[id].expires <= ident[rows[id].cookie].expires
  /\ rows[id].synced <= now
  /\ LiveSince(rows[id].cookie, rows[id].synced - UpstreamTimeout - StoreDelay)

\* The request was admitted with a session.
SessionInv(r) ==
  req[r].pc \in SessionPhases =>
    /\ req[r].id \in 1 .. issued
    /\ Usable(Asked(r))
    /\ req[r].at <= now
    /\ HasRow(r) => Asked(r) = RowCookie(r) \/ Revoked(Asked(r))

\* Answers are kept only while the request waits or stores what it was given.
AnswerInv(r) ==
  /\ req[r].answer.kind # "none" =>
       req[r].pc \in Calls \cup {"persisting", "marking", "storing", "creating"}
  /\ req[r].pc \in {"persisting", "marking", "storing"} => req[r].answer.kind = "ok"

FreshInv(r) ==
  Fresh(r) => /\ Usable(req[r].answer.cookie)
              /\ Heir(Asked(r), req[r].answer.cookie)
              /\ HasRow(r) => RowCookie(r) = Asked(r)

\* Two answers cannot both be the newest cookie of one row.
OneFresh ==
  \A r, q \in Requests :
    Fresh(r) /\ Fresh(q) /\ HasRow(r) /\ req[r].id = req[q].id => r = q

\* get-session answered a sync: what is going to be marked is true of the row.
SyncInv(r) ==
  req[r].pc \in {"syncing", "persisting", "marking"} /\ req[r].answer.kind = "ok" =>
    /\ Usable(req[r].answer.cookie)
    /\ req[r].answer.expires <= ident[req[r].answer.cookie].expires
    /\ LiveSince(req[r].answer.cookie, req[r].at)
    /\ HasRow(r) /\ ~Fresh(r) =>
         /\ req[r].answer.cookie = RowCookie(r) \/ Revoked(req[r].answer.cookie)
         /\ req[r].answer.expires <= ident[RowCookie(r)].expires
         /\ LiveSince(RowCookie(r), req[r].at)

\* A new session on its way into the table.
EstablishInv(r) ==
  /\ req[r].pc = "establishing" =>
       /\ req[r].at <= now /\ now <= req[r].at + UpstreamTimeout
       /\ req[r].answer.kind = "ok" =>
            /\ Usable(req[r].answer.cookie)
            /\ req[r].answer.expires <= ident[req[r].answer.cookie].expires
            /\ LiveSince(req[r].answer.cookie, req[r].at)
  /\ req[r].pc = "creating" =>
       /\ req[r].at <= now /\ now <= req[r].at + StoreDelay
       /\ Usable(req[r].answer.cookie)
       /\ req[r].answer.expires <= ident[req[r].answer.cookie].expires
       /\ LiveSince(req[r].answer.cookie, req[r].at - UpstreamTimeout)

\* identity-service said so: the session asked for is over.
EndInv(r) ==
  /\ req[r].pc \in SessionPhases
  /\ req[r].pc = "calling" => req[r].kind = "api"
  /\ req[r].answer.kind = "unauthenticated"
  /\ ~req[r].cut
  => ~Live(Asked(r))

TrustInv(r) ==
  req[r].pc = "running" /\ ~req[r].unsynced =>
    LiveSince(Asked(r), req[r].at - MaxTrust + 1)

ReqInv(r) ==
  /\ SessionInv(r) /\ AnswerInv(r) /\ FreshInv(r) /\ SyncInv(r)
  /\ EstablishInv(r) /\ EndInv(r) /\ TrustInv(r)

\* No id is in use that was not given out.
IssuedInv ==
  /\ browser.session <= issued /\ browser.login <= issued
  /\ \A r \in Requests : /\ req[r].id <= issued
                         /\ req[r].setSession <= issued /\ req[r].setLogin <= issued

SafetyInv ==
  /\ TypedInv
  /\ IdentInv
  /\ \A id \in DOMAIN rows : RowInv(id)
  /\ \A r \in Requests : ReqInv(r)
  /\ OneFresh
  /\ IssuedInv

-----------------------------------------------------------------------------
(* How identity-service's sessions change: what is over stays as it was,   *)
(* and what lives lives no shorter than it was said to, or ends now.       *)

Evolves ==
  /\ now' >= now
  /\ \A i \in DOMAIN ident : Usable(i) =>
       /\ Usable(i)'
       /\ ident[i].expires <= ident'[i].expires
       /\ \/ ident'[i].revokedAt = ident[i].revokedAt
          \/ Live(i) /\ ident'[i].revokedAt = now
       /\ ~Live(i) => ident'[i] = ident[i]

LEMMA Types ==
  ASSUME WellTyped
  PROVE  /\ now \in Nat /\ issued \in Nat
         /\ DOMAIN ident = 1 .. Len(ident) /\ Len(ident) \in Nat
         /\ \A i \in DOMAIN ident : /\ ident[i] \in IdentitySession
                                    /\ ident[i].expires \in Nat
                                    /\ ident[i].revokedAt \in Nat \cup {Never}
                                    /\ ident[i].pending \in BOOLEAN
         /\ \A id \in DOMAIN rows : /\ rows[id].cookie \in Nat
                                    /\ rows[id].expires \in Nat /\ rows[id].synced \in Nat
         /\ \A r \in Requests : /\ req[r] \in Request
                                /\ req[r].id \in Nat /\ req[r].at \in Nat
                                /\ req[r].cookie \in Nat /\ req[r].answer.cookie \in Nat
                                /\ req[r].answer.expires \in Nat
         /\ Granted \in Nat /\ Granted = now + Life
         /\ UpstreamTimeout \in Nat /\ StoreDelay \in Nat /\ Life \in Nat
         /\ SyncEvery \in Nat \ {0}
<1>1. \A i \in DOMAIN ident : /\ ident[i] \in IdentitySession
                              /\ ident[i].expires \in Nat
                              /\ ident[i].revokedAt \in Nat \cup {Never}
                              /\ ident[i].pending \in BOOLEAN
  BY IdentDomain DEF IdentitySession
<1>2. \A r \in Requests : /\ req[r] \in Request
                          /\ req[r].id \in Nat /\ req[r].at \in Nat
                          /\ req[r].cookie \in Nat /\ req[r].answer.cookie \in Nat
                          /\ req[r].answer.expires \in Nat
  BY DEF WellTyped, Request, Answer
<1>3. \A id \in DOMAIN rows : /\ rows[id].cookie \in Nat
                              /\ rows[id].expires \in Nat /\ rows[id].synced \in Nat
  BY DEF WellTyped, Row
<1>4. QED
  BY <1>1, <1>2, <1>3, IdentDomain, GrantedType, SessionsAssumption DEF WellTyped, Granted

\* A session once asked about: what was true of it.
LEMMA Evolution ==
  ASSUME WellTyped, WellTyped', IdentInv, Evolves
  PROVE  \A i \in DOMAIN ident : Usable(i) =>
           /\ Usable(i)'
           /\ ident[i].expires <= ident'[i].expires
           /\ ident'[i].expires \in Nat /\ ident'[i].revokedAt \in Nat \cup {Never}
           /\ Revoked(i) => ident'[i] = ident[i]
           /\ ~Live(i) => ~Live(i)'
           /\ \A t \in Int : t <= now /\ LiveSince(i, t) => LiveSince(i, t)'
           /\ \A j \in DOMAIN ident : Usable(j) /\ Heir(i, j) => Heir(i, j)'
<1> SUFFICES ASSUME NEW i \in DOMAIN ident, Usable(i)
             PROVE  /\ Usable(i)'
                    /\ ident[i].expires <= ident'[i].expires
                    /\ ident'[i].expires \in Nat /\ ident'[i].revokedAt \in Nat \cup {Never}
                    /\ Revoked(i) => ident'[i] = ident[i]
                    /\ ~Live(i) => ~Live(i)'
                    /\ \A t \in Int : t <= now /\ LiveSince(i, t) => LiveSince(i, t)'
                    /\ \A j \in DOMAIN ident : Usable(j) /\ Heir(i, j) => Heir(i, j)'
  OBVIOUS
<1>1. /\ now \in Nat /\ ident[i].expires \in Nat /\ ident[i].revokedAt \in Nat \cup {Never}
  BY Types
<1>2. /\ now' \in Nat
      /\ \A k \in DOMAIN ident' : ident'[k].expires \in Nat /\ ident'[k].revokedAt \in Nat \cup {Never}
  <2>1. now' \in Nat /\ ident' \in Seq(IdentitySession)
    BY DEF WellTyped
  <2>2. \A k \in DOMAIN ident' : ident'[k] \in IdentitySession
    BY <2>1, ElementOfSeq
  <2>3. QED
    BY <2>1, <2>2 DEF IdentitySession
<1>3. ident'[i].expires \in Nat /\ ident'[i].revokedAt \in Nat \cup {Never}
  BY <1>2 DEF Evolves, Usable
<1>4. Usable(i)' /\ ident[i].expires <= ident'[i].expires
  BY DEF Evolves
<1>5. Revoked(i) => ident'[i] = ident[i]
  BY DEF Evolves, Revoked, Live
<1>6. ~Live(i) => ~Live(i)'
  BY <1>1, <1>2, <1>3 DEF Evolves, Live
<1>7. ASSUME NEW t \in Int, t <= now, LiveSince(i, t) PROVE LiveSince(i, t)'
  BY <1>1, <1>3, <1>7 DEF Evolves, LiveSince, Never
<1>8. ASSUME NEW j \in DOMAIN ident, Usable(j), Heir(i, j) PROVE Heir(i, j)'
  <2>1. /\ ident[j].expires \in Nat /\ ident[j].revokedAt \in Nat \cup {Never}
        /\ ident[i].revokedAt <= now
    BY <1>8, Types DEF IdentInv, Heir
  <2>2. ident'[i] = ident[i]
    BY <1>5, <1>8 DEF Heir
  <2>3. /\ ident[j].expires <= ident'[j].expires
        /\ \/ ident'[j].revokedAt = ident[j].revokedAt
           \/ ident[j].revokedAt = Never /\ ident'[j].revokedAt = now
    BY <1>8 DEF Evolves, Live
  <2>4. ident'[j].expires \in Nat
    BY <1>8, <1>2 DEF Evolves, Usable
  <2>5. QED
    BY <2>1, <2>2, <2>3, <2>4, <1>1, <1>8 DEF Heir, Revoked
<1>9. QED
  BY <1>3, <1>4, <1>5, <1>6, <1>7, <1>8

\* Who replaced a session was alive whenever that one was.
LEMMA HeirLives ==
  ASSUME WellTyped, NEW i \in DOMAIN ident, NEW j \in DOMAIN ident, NEW t \in Int,
         Heir(i, j), LiveSince(i, t)
  PROVE  LiveSince(j, t)
  BY Types DEF Heir, LiveSince, Revoked, Never

LEMMA LiveBefore ==
  ASSUME WellTyped, NEW i \in DOMAIN ident, NEW t \in Int, NEW u \in Int, u <= t, LiveSince(i, t)
  PROVE  LiveSince(i, u)
  BY Types DEF LiveSince, Never

LEMMA EvolveSame ==
  ASSUME WellTyped, ident' = ident, now' >= now PROVE Evolves
  BY Types DEF Evolves, Usable

LEMMA EvolveRevoke ==
  ASSUME WellTyped, IdentInv, now' = now, NEW i, i \in DOMAIN ident => Live(i),
         ident' = [ident EXCEPT ![i].revokedAt = now]
  PROVE  Evolves /\ IdentInv'
<1>1. DOMAIN ident' = DOMAIN ident
  OBVIOUS
<1>2. ASSUME NEW k \in DOMAIN ident
      PROVE  ident'[k] = IF k = i THEN [ident[k] EXCEPT !.revokedAt = now] ELSE ident[k]
  OBVIOUS
<1>3. ASSUME NEW k \in DOMAIN ident, k = i
      PROVE  /\ ident'[k].expires = ident[k].expires /\ ident'[k].pending = ident[k].pending
             /\ ident'[k].revokedAt = now
  BY <1>2, <1>3, Types DEF IdentitySession
<1>4. QED
  BY <1>1, <1>2, <1>3, Types DEF Evolves, IdentInv, Usable, Revoked

LEMMA EvolveSlide ==
  ASSUME WellTyped, IdentInv, now' = now, NEW i \in DOMAIN ident, Live(i),
         NEW e \in {ident[i].expires, Granted}, ident' = [ident EXCEPT ![i].expires = e]
  PROVE  /\ Evolves /\ IdentInv'
         /\ ident'[i].expires = e /\ ident'[i].revokedAt = Never /\ ident'[i].pending = ident[i].pending
         /\ e \in Nat /\ ident[i].expires <= e
<1>1. DOMAIN ident' = DOMAIN ident
  OBVIOUS
<1>2. ASSUME NEW k \in DOMAIN ident
      PROVE  ident'[k] = IF k = i THEN [ident[k] EXCEPT !.expires = e] ELSE ident[k]
  OBVIOUS
<1>3. /\ ident'[i].expires = e /\ ident'[i].pending = ident[i].pending
      /\ ident'[i].revokedAt = ident[i].revokedAt
  BY <1>2, Types DEF IdentitySession
<1>4. e \in Nat /\ ident[i].expires <= e /\ e <= now + Life
  BY Types DEF IdentInv
<1>5. QED
  BY <1>1, <1>2, <1>3, <1>4, Types DEF Evolves, IdentInv, Usable, Revoked, Live

LEMMA AppendEntry ==
  ASSUME NEW S, NEW q \in Seq(S), NEW e \in S
  PROVE  /\ DOMAIN Append(q, e) = 1 .. Len(q) + 1
         /\ \A k \in 1 .. Len(q) : Append(q, e)[k] = q[k]
         /\ Append(q, e)[Len(q) + 1] = e
  BY AppendProperties

LEMMA EvolveNew ==
  ASSUME WellTyped, IdentInv, now' = now, NEW pending \in BOOLEAN,
         ident' = Append(ident, NewIdentity(pending))
  PROVE  Evolves /\ IdentInv' /\ Len(ident) + 1 \in DOMAIN ident'
<1>1. /\ DOMAIN ident = 1 .. Len(ident) /\ Len(ident) \in Nat
      /\ ident \in Seq(IdentitySession)
  BY Types DEF WellTyped
<1>2. /\ DOMAIN ident' = 1 .. Len(ident) + 1
      /\ \A k \in DOMAIN ident : k \in DOMAIN ident' /\ ident'[k] = ident[k]
      /\ ident'[Len(ident) + 1] = NewIdentity(pending)
  BY <1>1, NewIdentityType, AppendProperties
<1>3. Evolves
  BY <1>2, Types DEF Evolves, Usable
<1>4. ASSUME NEW k \in DOMAIN ident'
      PROVE  /\ ident'[k].expires <= now' + Life
             /\ Revoked(k)' => ident'[k].revokedAt <= now'
  <2>1. CASE k \in DOMAIN ident
    BY <2>1, <1>2 DEF IdentInv, Revoked
  <2>2. CASE k = Len(ident) + 1
    BY <2>2, <1>2, Types DEF NewIdentity, Revoked
  <2>3. QED
    BY <2>1, <2>2, <1>1, <1>2
<1>5. QED
  BY <1>1, <1>2, <1>3, <1>4 DEF IdentInv

\* The one that is asked for ends, and another one takes its place.
LEMMA EvolveRotate ==
  ASSUME WellTyped, IdentInv, now' = now, NEW r \in Requests,
         Authenticated(Asked(r)), Rotate(r)
  PROVE  /\ Evolves /\ IdentInv'
         /\ Len(ident) + 1 \in DOMAIN ident' /\ ~ident'[Len(ident) + 1].pending
         /\ ident'[Len(ident) + 1].expires = Granted
         /\ ident'[Len(ident) + 1].revokedAt = Never
         /\ Len(ident) + 1 \notin DOMAIN ident /\ Len(ident) + 1 # None
         /\ now < Granted
         /\ Asked(r) \in DOMAIN ident' /\ ident'[Asked(r)].revokedAt = now
         /\ ident'[Asked(r)].expires <= Granted
<1> DEFINE i == Asked(r)  n == Len(ident) + 1
<1>1. /\ DOMAIN ident = 1 .. Len(ident) /\ Len(ident) \in Nat
      /\ ident \in Seq(IdentitySession) /\ i \in DOMAIN ident /\ Live(i)
      /\ now \in Nat /\ ident[i].expires \in Nat /\ ident[i].expires <= now + Life
  BY Types DEF WellTyped, Authenticated, IdentInv
<1>2. PICK mid \in Seq(IdentitySession), new \in IdentitySession :
        /\ Len(mid) = Len(ident)
        /\ mid[i] = [ident[i] EXCEPT !.revokedAt = now]
        /\ \A k \in DOMAIN ident : k # i => mid[k] = ident[k]
        /\ new.expires = Granted /\ new.revokedAt = Never /\ ~new.pending
        /\ ident' = Append(mid, new)
  <2> DEFINE m == [ident EXCEPT ![i].revokedAt = now]  e == NewIdentity(FALSE)
  <2>1. m \in Seq(IdentitySession) /\ Len(m) = Len(ident)
    BY RevokeType
  <2>2. m[i] = [ident[i] EXCEPT !.revokedAt = now] /\ \A k \in DOMAIN ident : k # i => m[k] = ident[k]
    BY <1>1
  <2>3. e \in IdentitySession
    BY NewIdentityType
  <2>4. e.expires = Granted /\ e.revokedAt = Never /\ ~e.pending
    BY DEF NewIdentity
  <2>5. ident' = Append(m, e)
    BY DEF Rotate, Rotated
  <2> HIDE DEF m, e
  <2>6. QED
    BY <2>1, <2>2, <2>3, <2>4, <2>5
<1>4. /\ DOMAIN ident' = 1 .. n
      /\ \A k \in DOMAIN ident : k \in DOMAIN ident' /\ ident'[k] = mid[k]
      /\ ident'[n] = new
  <2>1. ident' = Append(mid, new) /\ Len(mid) = Len(ident)
    BY <1>2
  <2>2. /\ DOMAIN ident' = 1 .. Len(mid) + 1
        /\ \A k \in 1 .. Len(mid) : ident'[k] = mid[k]
        /\ ident'[Len(mid) + 1] = new
    BY <2>1, AppendEntry
  <2>3. DOMAIN ident = 1 .. Len(ident) /\ Len(ident) \in Nat
    BY <1>1
  <2>4. QED
    BY <2>1, <2>2, <2>3
<1>5. ASSUME NEW k \in DOMAIN ident, k # i PROVE ident'[k] = ident[k]
  BY <1>2, <1>4, <1>5
<1>6. /\ ident'[i].expires = ident[i].expires /\ ident'[i].pending = ident[i].pending
      /\ ident'[i].revokedAt = now
  <2>1. ident'[i] = [ident[i] EXCEPT !.revokedAt = now]
    BY <1>1, <1>2, <1>4
  <2>2. QED
    BY <2>1, <1>1, Types DEF IdentitySession
<1>7. /\ ident'[n].expires = Granted /\ ident'[n].revokedAt = Never /\ ~ident'[n].pending
      /\ n \in DOMAIN ident' /\ n \notin DOMAIN ident /\ n # None
  BY <1>1, <1>2, <1>4 DEF None
<1>8. Evolves
  <2>1. now' >= now
    BY <1>1
  <2>2. ASSUME NEW k \in DOMAIN ident, Usable(k)
        PROVE  /\ Usable(k)' /\ ident[k].expires <= ident'[k].expires
               /\ \/ ident'[k].revokedAt = ident[k].revokedAt
                  \/ Live(k) /\ ident'[k].revokedAt = now
               /\ ~Live(k) => ident'[k] = ident[k]
    <3>1. CASE k = i
      BY <3>1, <2>2, <1>1, <1>4, <1>6 DEF Usable
    <3>2. CASE k # i
      BY <3>2, <2>2, <1>4, <1>5, Types DEF Usable
    <3>3. QED
      BY <3>1, <3>2
  <2>3. QED
    BY <2>1, <2>2 DEF Evolves
<1>9. ASSUME NEW k \in DOMAIN ident'
      PROVE  /\ ident'[k].expires <= now' + Life
             /\ Revoked(k)' => ident'[k].revokedAt <= now'
  <2>1. CASE k = n
    BY <2>1, <1>7, Types DEF Revoked
  <2>2. CASE k = i
    BY <2>2, <1>6, <1>1 DEF Revoked
  <2>3. CASE k \in DOMAIN ident /\ k # i
    BY <2>3, <1>5 DEF IdentInv, Revoked
  <2>4. QED
    BY <2>1, <2>2, <2>3, <1>1, <1>4
<1>10. IdentInv'
  BY <1>9 DEF IdentInv
<1>11. now < Granted /\ i \in DOMAIN ident' /\ ident'[i].expires <= Granted
  BY <1>1, <1>4, <1>6, Types DEF Live
<1>12. QED
  BY <1>6, <1>7, <1>8, <1>10, <1>11

\* The second factor completes a session nobody used yet.
LEMMA EvolveVerify ==
  ASSUME WellTyped, IdentInv, now' = now, NEW i \in DOMAIN ident, ident[i].pending,
         ident' = [ident EXCEPT ![i] = NewIdentity(FALSE)]
  PROVE  Evolves /\ IdentInv'
<1>1. DOMAIN ident' = DOMAIN ident /\ ident'[i] = NewIdentity(FALSE)
  OBVIOUS
<1>2. ASSUME NEW k \in DOMAIN ident, k # i PROVE ident'[k] = ident[k]
  BY <1>2
<1>3. QED
  BY <1>1, <1>2, Types DEF Evolves, IdentInv, Usable, Revoked, NewIdentity

-----------------------------------------------------------------------------
(* A request whose turn it is not keeps its invariant, as long as its row  *)
(* keeps its cookie or goes, and time leaves it to its limits.             *)

Unhurried(q) ==
  /\ req[q].pc = "establishing" => now' <= req[q].at + UpstreamTimeout
  /\ req[q].pc = "creating" => now' <= req[q].at + StoreDelay

RowStays(q) == req[q].id \in DOMAIN rows' => HasRow(q) /\ rows'[req[q].id].cookie = RowCookie(q)

LEMMA FrameReq ==
  ASSUME WellTyped, WellTyped', IdentInv, Evolves, issued' >= issued,
         \A id \in DOMAIN rows : RowInv(id),
         NEW q \in Requests, ReqInv(q), req'[q] = req[q], Unhurried(q), RowStays(q)
  PROVE  ReqInv(q)'
<1>1. /\ now \in Nat /\ now' \in Nat /\ now' >= now /\ issued \in Nat /\ issued' \in Nat
      /\ req[q].at \in Nat /\ req[q].id \in Nat /\ req[q].answer.expires \in Nat
      /\ UpstreamTimeout \in Nat /\ StoreDelay \in Nat /\ SyncEvery \in Nat /\ MaxTrust \in Nat
  <2>1. now' \in Nat /\ issued' \in Nat /\ now' >= now
    BY DEF WellTyped, Evolves
  <2>2. UpstreamTimeout \in Nat /\ StoreDelay \in Nat /\ SyncEvery \in Nat /\ MaxTrust \in Nat
    BY SessionsAssumption DEF MaxTrust
  <2>3. QED
    BY <2>1, <2>2, Types
<1>2. /\ Asked(q)' = Asked(q)
      /\ HasRow(q)' => HasRow(q) /\ RowCookie(q)' = RowCookie(q)
      /\ Fresh(q)' <=> Fresh(q)
  BY DEF Asked, HasRow, RowCookie, Fresh, RowStays
<1>3. \A i \in DOMAIN ident : Usable(i) =>
        /\ Usable(i)'
        /\ ident[i].expires <= ident'[i].expires
        /\ ident[i].expires \in Nat /\ ident'[i].expires \in Nat
        /\ Revoked(i) => Revoked(i)'
        /\ ~Live(i) => ~Live(i)'
        /\ \A t \in Int : t <= now /\ LiveSince(i, t) => LiveSince(i, t)'
        /\ \A j \in DOMAIN ident : Usable(j) /\ Heir(i, j) => Heir(i, j)'
  BY Evolution, Types DEF Revoked
<1>4. SessionInv(q)'
  BY <1>1, <1>2, <1>3 DEF ReqInv, SessionInv, Usable
<1>5. AnswerInv(q)'
  BY DEF ReqInv, AnswerInv
<1>6. FreshInv(q)'
  <2>1. SUFFICES ASSUME Fresh(q)
                 PROVE  /\ Usable(req[q].answer.cookie)'
                        /\ Heir(Asked(q), req[q].answer.cookie)'
                        /\ HasRow(q)' => RowCookie(q)' = Asked(q)'
    BY <1>2 DEF FreshInv
  <2>2. /\ Usable(Asked(q)) /\ Usable(req[q].answer.cookie)
        /\ Heir(Asked(q), req[q].answer.cookie)
        /\ HasRow(q) => RowCookie(q) = Asked(q)
    BY <2>1 DEF ReqInv, SessionInv, FreshInv, Fresh, SessionPhases
  <2>3. /\ Usable(req[q].answer.cookie)'
    BY <2>2, <1>3 DEF Usable
  <2>4. Heir(Asked(q), req[q].answer.cookie)'
    <3> DEFINE i == Asked(q)  j == req[q].answer.cookie
    <3>1. i \in DOMAIN ident /\ j \in DOMAIN ident /\ Usable(i) /\ Usable(j) /\ Heir(i, j)
      BY <2>2 DEF Usable
    <3>2. i' = i /\ j' = j
      BY <1>2
    <3>3. QED
      BY <3>1, <3>2, <1>3 DEF Heir, Revoked
  <2>5. QED
    BY <2>2, <2>3, <2>4, <1>2
<1>7. SyncInv(q)'
  <2>1. SUFFICES ASSUME req[q].pc \in {"syncing", "persisting", "marking"},
                        req[q].answer.kind = "ok"
                 PROVE  SyncInv(q)'
    BY DEF SyncInv
  <2>2. /\ Usable(req[q].answer.cookie)
        /\ req[q].answer.expires <= ident[req[q].answer.cookie].expires
        /\ LiveSince(req[q].answer.cookie, req[q].at) /\ req[q].at <= now
    BY <2>1 DEF ReqInv, SyncInv, SessionInv, SessionPhases
  <2>3. /\ Usable(req[q].answer.cookie)'
        /\ req[q].answer.expires <= ident'[req[q].answer.cookie].expires
        /\ LiveSince(req[q].answer.cookie, req[q].at)'
    BY <2>2, <1>1, <1>3 DEF Usable, LiveSince
  <2>4. ASSUME HasRow(q)', ~Fresh(q)'
        PROVE  /\ req[q].answer.cookie = RowCookie(q) \/ ident'[req[q].answer.cookie].revokedAt # Never
               /\ req[q].answer.expires <= ident'[RowCookie(q)].expires
               /\ LiveSince(RowCookie(q), req[q].at)'
    <3>1. HasRow(q) /\ RowCookie(q)' = RowCookie(q) /\ ~Fresh(q)
      BY <2>4, <1>2
    <3>2. /\ req[q].answer.cookie = RowCookie(q) \/ Revoked(req[q].answer.cookie)
          /\ req[q].answer.expires <= ident[RowCookie(q)].expires
          /\ LiveSince(RowCookie(q), req[q].at)
      BY <2>1, <3>1 DEF ReqInv, SyncInv
    <3>3. Usable(RowCookie(q))
      BY <3>1 DEF RowInv, HasRow, RowCookie
    <3>4. QED
      BY <2>2, <3>1, <3>2, <3>3, <1>1, <1>3 DEF Usable, LiveSince, Revoked
  <2>5. QED
    BY <2>3, <2>4, <1>2 DEF SyncInv, Revoked
<1>8. EstablishInv(q)'
  <2>1. CASE req[q].pc = "establishing"
    <3>1. /\ req[q].at <= now
          /\ req[q].answer.kind = "ok" =>
               /\ Usable(req[q].answer.cookie)
               /\ req[q].answer.expires <= ident[req[q].answer.cookie].expires
               /\ LiveSince(req[q].answer.cookie, req[q].at)
      BY <2>1 DEF ReqInv, EstablishInv
    <3>2. req[q].answer.kind = "ok" =>
               /\ Usable(req[q].answer.cookie)'
               /\ req[q].answer.expires <= ident'[req[q].answer.cookie].expires
               /\ LiveSince(req[q].answer.cookie, req[q].at)'
      BY <3>1, <1>1, <1>3 DEF Usable, LiveSince
    <3>3. QED
      BY <2>1, <3>1, <3>2, <1>1 DEF EstablishInv, Unhurried
  <2>2. CASE req[q].pc = "creating"
    <3>1. /\ req[q].at <= now
          /\ Usable(req[q].answer.cookie)
          /\ req[q].answer.expires <= ident[req[q].answer.cookie].expires
          /\ LiveSince(req[q].answer.cookie, req[q].at - UpstreamTimeout)
      BY <2>2 DEF ReqInv, EstablishInv
    <3>2. req[q].at - UpstreamTimeout \in Int /\ req[q].at - UpstreamTimeout <= now
      BY <3>1, <1>1
    <3>3. /\ Usable(req[q].answer.cookie)'
          /\ req[q].answer.expires <= ident'[req[q].answer.cookie].expires
          /\ LiveSince(req[q].answer.cookie, req[q].at - UpstreamTimeout)'
      BY <3>1, <3>2, <1>1, <1>3 DEF Usable, LiveSince
    <3>4. QED
      BY <2>2, <3>1, <3>3, <1>1 DEF EstablishInv, Unhurried
  <2>3. QED
    BY <2>1, <2>2 DEF EstablishInv
<1>9. EndInv(q)'
  <2>1. SUFFICES ASSUME req[q].pc \in SessionPhases, ~Live(Asked(q)) PROVE ~Live(Asked(q))'
    BY DEF ReqInv, EndInv
  <2>2. Usable(Asked(q))
    BY <2>1 DEF ReqInv, SessionInv
  <2>3. QED
    BY <2>1, <2>2, <1>2, <1>3 DEF Usable, Live
<1>10. TrustInv(q)'
  <2>1. SUFFICES ASSUME req[q].pc = "running", ~req[q].unsynced PROVE TrustInv(q)'
    BY DEF TrustInv
  <2>2. /\ Usable(Asked(q)) /\ req[q].at <= now
        /\ LiveSince(Asked(q), req[q].at - MaxTrust + 1)
    BY <2>1 DEF ReqInv, SessionInv, TrustInv, SessionPhases
  <2>3. req[q].at - MaxTrust + 1 \in Int /\ req[q].at - MaxTrust + 1 <= now
    BY <2>2, <1>1, Types DEF MaxTrust
  <2>4. QED
    BY <2>2, <2>3, <1>2, <1>3 DEF Usable, LiveSince, TrustInv, MaxTrust
<1>11. QED
  BY <1>4, <1>5, <1>6, <1>7, <1>8, <1>9, <1>10 DEF ReqInv

\* What a request was admitted with stays true of it.
LEMMA SessionKept ==
  ASSUME WellTyped, WellTyped', IdentInv, Evolves, issued' >= issued,
         NEW q \in Requests, SessionInv(q), RowStays(q),
         req'[q].pc \in SessionPhases => req[q].pc \in SessionPhases,
         req'[q].id = req[q].id, req'[q].cookie = req[q].cookie,
         req'[q].at \in Nat, req'[q].at <= now' \/ req'[q].at = req[q].at
  PROVE  SessionInv(q)'
<1>1. SUFFICES ASSUME req[q].pc \in SessionPhases PROVE SessionInv(q)'
  BY DEF SessionInv
<1>2. /\ req[q].id \in 1 .. issued /\ Usable(Asked(q)) /\ req[q].at <= now
      /\ HasRow(q) => Asked(q) = RowCookie(q) \/ Revoked(Asked(q))
  BY <1>1 DEF SessionInv
<1>3. /\ now \in Nat /\ now' \in Nat /\ now' >= now /\ issued \in Nat /\ issued' \in Nat
      /\ req[q].at \in Nat /\ req[q].id \in Nat
  <2>1. now' \in Nat /\ issued' \in Nat /\ now' >= now
    BY DEF WellTyped, Evolves
  <2>2. QED
    BY <2>1, Types
<1>4. Asked(q)' = Asked(q) /\ (HasRow(q)' => HasRow(q) /\ RowCookie(q)' = RowCookie(q))
  BY DEF Asked, HasRow, RowCookie, RowStays
<1>5. Usable(Asked(q))' /\ (Revoked(Asked(q)) => Revoked(Asked(q))')
  <2>1. \A i \in DOMAIN ident : Usable(i) => Usable(i)' /\ (Revoked(i) => Revoked(i)')
    BY Evolution DEF Revoked
  <2>2. QED
    BY <2>1, <1>2, <1>4 DEF Usable, Revoked
<1>6. QED
  BY <1>2, <1>3, <1>4, <1>5 DEF SessionInv, Revoked

\* A row that is not written.
LEMMA RowKept ==
  ASSUME WellTyped, WellTyped', IdentInv, Evolves,
         NEW id, id \in DOMAIN rows, RowInv(id), rows'[id] = rows[id]
  PROVE  RowInv(id)'
<1> DEFINE c == rows[id].cookie  t == rows[id].synced - UpstreamTimeout - StoreDelay
<1>1. /\ now \in Nat /\ now' \in Nat /\ now' >= now
      /\ rows[id].expires \in Nat /\ rows[id].synced \in Nat
      /\ UpstreamTimeout \in Nat /\ StoreDelay \in Nat
  <2>1. now' \in Nat /\ now' >= now
    BY DEF WellTyped, Evolves
  <2>2. QED
    BY <2>1, Types
<1>2. /\ Usable(c) /\ c \in DOMAIN ident
      /\ rows[id].expires <= ident[c].expires /\ rows[id].synced <= now
      /\ LiveSince(c, t)
  BY DEF RowInv, Usable
<1>3. t \in Int /\ t <= now
  BY <1>1, <1>2
<1>4. /\ Usable(c)' /\ ident[c].expires <= ident'[c].expires
      /\ ident'[c].expires \in Nat /\ ident[c].expires \in Nat
      /\ LiveSince(c, t)'
  <2> HIDE DEF t
  <2>1. c' = c /\ t' = t
    BY DEF t
  <2> HIDE DEF c
  <2>2. QED
    BY <1>2, <1>3, <2>1, Evolution, Types DEF Usable, LiveSince
<1>5. QED
  BY <1>1, <1>2, <1>4 DEF RowInv, Usable, LiveSince

\* Nothing is claimed of a request that waits for nothing of its session.
LEMMA QuietReq ==
  ASSUME NEW r \in Requests, req'[r].pc \notin SessionPhases \cup {"establishing", "creating"},
         req'[r].answer.kind = "none"
  PROVE  ReqInv(r)'
  BY DEF ReqInv, SessionInv, AnswerInv, FreshInv, Fresh, SyncInv, EstablishInv, EndInv, TrustInv,
         SessionPhases

\* The cookie of q's row is replaced: q now holds a revoked one.
LEMMA ReplacedReq ==
  ASSUME WellTyped, UNCHANGED <<now, ident, issued>>,
         NEW q \in Requests, ReqInv(q), req'[q] = req[q], ~Fresh(q),
         HasRow(q), HasRow(q)', RowCookie(q)' \in DOMAIN ident, RowCookie(q) \in DOMAIN ident,
         Heir(RowCookie(q), rows'[req[q].id].cookie)
  PROVE  ReqInv(q)'
<1> DEFINE i == RowCookie(q)  j == rows'[req[q].id].cookie
<1>1. /\ req'[q] = req[q] /\ Asked(q)' = Asked(q) /\ RowCookie(q)' = j /\ ~Fresh(q)'
  BY DEF Asked, RowCookie, Fresh
<1>2. i \in DOMAIN ident /\ j \in DOMAIN ident /\ Heir(i, j)
  BY <1>1
<1>3. /\ ident[i].expires \in Nat /\ ident[j].expires \in Nat
      /\ req[q].at \in Nat /\ req[q].answer.expires \in Nat
  BY <1>2, Types
<1>4. \A t \in Int : LiveSince(i, t) => LiveSince(j, t)
  BY <1>2, HeirLives
<1>5. Revoked(i) /\ ident[i].expires <= ident[j].expires
  BY <1>2 DEF Heir
<1>6. SessionInv(q)'
  <2>1. SUFFICES ASSUME req[q].pc \in SessionPhases PROVE SessionInv(q)'
    BY DEF SessionInv
  <2>2. /\ req[q].id \in 1 .. issued /\ Usable(Asked(q)) /\ req[q].at <= now
        /\ Asked(q) = RowCookie(q) \/ Revoked(Asked(q))
    BY <2>1 DEF ReqInv, SessionInv
  <2>3. QED
    BY <2>2, <1>1, <1>5 DEF SessionInv, Usable, Revoked
<1>7. AnswerInv(q)'
  BY DEF ReqInv, AnswerInv
<1>8. FreshInv(q)'
  BY <1>1 DEF FreshInv
<1>9. SyncInv(q)'
  <2>1. SUFFICES ASSUME req[q].pc \in {"syncing", "persisting", "marking"},
                        req[q].answer.kind = "ok"
                 PROVE  SyncInv(q)'
    BY DEF SyncInv
  <2>2. /\ Usable(req[q].answer.cookie)
        /\ req[q].answer.expires <= ident[req[q].answer.cookie].expires
        /\ LiveSince(req[q].answer.cookie, req[q].at)
        /\ req[q].answer.cookie = i \/ Revoked(req[q].answer.cookie)
        /\ req[q].answer.expires <= ident[i].expires
        /\ LiveSince(i, req[q].at)
    BY <2>1 DEF ReqInv, SyncInv
  <2>3. req[q].answer.expires <= ident[j].expires /\ LiveSince(j, req[q].at)
    BY <2>2, <1>3, <1>4, <1>5
  <2>4. Revoked(req[q].answer.cookie)
    BY <2>2, <1>5
  <2> HIDE DEF i, j
  <2>5. QED
    BY <2>2, <2>3, <2>4, <1>1 DEF SyncInv, Usable, LiveSince, Revoked
<1>10. EstablishInv(q)' /\ EndInv(q)' /\ TrustInv(q)'
  BY <1>1 DEF ReqInv, EstablishInv, EndInv, TrustInv, Usable, LiveSince, Live
<1>11. QED
  BY <1>6, <1>7, <1>8, <1>9, <1>10 DEF ReqInv

-----------------------------------------------------------------------------
(* The steps of the calls.                                                 *)

\* The rest of the state follows from the acting request and the rows.
LEMMA Assemble ==
  ASSUME SafetyInv, TypedInv', Evolves, IdentInv', issued' >= issued, IssuedInv',
         \A id \in DOMAIN rows' : RowInv(id)',
         NEW r \in Requests, ReqInv(r)',
         \A q \in Requests : q # r => ReqInv(q)' /\ req'[q] = req[q]
                                      /\ (HasRow(q)' => HasRow(q)),
         Fresh(r)' => /\ req'[r].id = req[r].id /\ (HasRow(r)' => HasRow(r))
                      /\ \/ Fresh(r)
                         \/ \A q \in Requests :
                              ~(q # r /\ Fresh(q) /\ HasRow(q) /\ req[q].id = req[r].id)
  PROVE  SafetyInv'
<1>1. ASSUME NEW p \in Requests, NEW q \in Requests, Fresh(p)', Fresh(q)', HasRow(p)',
             req'[p].id = req'[q].id
      PROVE  p = q
  <2>1. \A s \in Requests : s # r => req'[s] = req[s] /\ (Fresh(s)' => Fresh(s))
    BY DEF Fresh, Asked
  <2>2. HasRow(q)'
    BY <1>1 DEF HasRow
  <2>3. CASE p # r /\ q # r
    BY <2>3, <2>1, <1>1 DEF SafetyInv, OneFresh
  <2>4. CASE p = r /\ q # r
    BY <2>4, <2>1, <2>2, <1>1 DEF SafetyInv, OneFresh
  <2>5. CASE p # r /\ q = r
    BY <2>5, <2>1, <2>2, <1>1 DEF SafetyInv, OneFresh
  <2>6. QED
    BY <2>3, <2>4, <2>5
<1>2. OneFresh'
  BY <1>1 DEF OneFresh
<1>3. QED
  BY <1>2 DEF SafetyInv

\* A call's answer: none that is good; the session it was made with; a new one.
LEMMA AnswerKept ==
  ASSUME WellTyped, NEW r \in Requests, NEW kind, NEW cookie, NEW expires,
         Answered(r, kind, cookie, expires)
  PROVE  /\ req'[r].answer.kind = kind /\ req'[r].answer.cookie = cookie
         /\ req'[r].answer.expires = expires
         /\ req'[r].pc = req[r].pc /\ req'[r].kind = req[r].kind /\ req'[r].id = req[r].id
         /\ req'[r].cookie = req[r].cookie /\ req'[r].at = req[r].at
         /\ req'[r].cut = req[r].cut /\ req'[r].unsynced = req[r].unsynced
         /\ req'[r].setSession = req[r].setSession /\ req'[r].setLogin = req[r].setLogin
<1>1. req \in [Requests -> Request] /\ req[r] \in Request
  BY DEF WellTyped
<1>2. req'[r] = [req[r] EXCEPT !.answer = [kind |-> kind, cookie |-> cookie, expires |-> expires]]
  BY <1>1 DEF Answered
<1>3. QED
  BY <1>1, <1>2 DEF Request

\* identity-service refuses, ends the session, or knows nothing to tell of it.
LEMMA NoGoodAnswer ==
  ASSUME WellTyped, WellTyped', IdentInv, Evolves,
         UNCHANGED <<now, rows, issued>>,
         NEW r \in Requests, ReqInv(r), req[r].pc \in Calls,
         NEW kind, NEW cookie, NEW expires, Answered(r, kind, cookie, expires),
         \/ kind # "ok"
         \/ req[r].pc \notin GetSession /\ cookie \in {None, Asked(r)}
         \/ req[r].pc \in {"signIn", "verifying"},
         \/ kind # "unauthenticated"
         \/ req[r].pc \notin SessionPhases
         \/ req[r].pc = "calling" /\ req[r].kind # "api"
         \/ ~Live(Asked(r)) /\ Asked(r) \in DOMAIN ident
  PROVE  ReqInv(r)' /\ ~Fresh(r)'
<1>1. /\ req'[r].answer.kind = kind /\ req'[r].answer.cookie = cookie
      /\ req'[r].pc = req[r].pc /\ req'[r].kind = req[r].kind /\ req'[r].id = req[r].id
      /\ req'[r].cookie = req[r].cookie /\ req'[r].at = req[r].at
      /\ req'[r].cut = req[r].cut
  BY AnswerKept
<1>2. SessionInv(r)'
  <2>1. req'[r].at \in Nat /\ issued' >= issued
    BY <1>1, Types
  <2>2. RowStays(r)
    BY DEF RowStays, HasRow, RowCookie
  <2>3. QED
    BY <1>1, <2>1, <2>2, SessionKept DEF ReqInv
<1>3. AnswerInv(r)'
  BY <1>1 DEF AnswerInv, Calls, GetSession
<1>4. ~Fresh(r)'
  BY <1>1 DEF Fresh, Asked, GetSession
<1>5. FreshInv(r)'
  BY <1>4 DEF FreshInv
<1>6. SyncInv(r)'
  BY <1>1 DEF SyncInv, GetSession, Calls
<1>7. EstablishInv(r)'
  BY <1>1 DEF ReqInv, EstablishInv, GetSession, Calls
<1>8. EndInv(r)'
  <2>1. SUFFICES ASSUME req[r].pc \in SessionPhases, req[r].pc = "calling" => req[r].kind = "api",
                        kind = "unauthenticated"
                 PROVE  ~Live(Asked(r))'
    BY <1>1 DEF EndInv
  <2>2. Usable(Asked(r)) /\ Asked(r) \in DOMAIN ident /\ ~Live(Asked(r))
    BY <2>1 DEF ReqInv, SessionInv, Usable
  <2>3. Asked(r)' = Asked(r)
    BY <1>1 DEF Asked
  <2>4. ident'[Asked(r)] = ident[Asked(r)]
    BY <2>2 DEF Evolves
  <2>5. QED
    BY <2>2, <2>3, <2>4 DEF Live
<1>9. TrustInv(r)'
  BY <1>1 DEF TrustInv, Calls, GetSession
<1>10. QED
  BY <1>2, <1>3, <1>4, <1>5, <1>6, <1>7, <1>8, <1>9 DEF ReqInv

\* get-session says the session lives: until e now.
LEMMA SameCookieAnswer ==
  ASSUME WellTyped, WellTyped', IdentInv, IdentInv', Evolves,
         UNCHANGED <<now, rows, issued>>,
         NEW r \in Requests, ReqInv(r), req[r].pc \in GetSession,
         Authenticated(Asked(r)), NEW e, Answered(r, "ok", Asked(r), e),
         ident'[Asked(r)].expires = e, ident'[Asked(r)].revokedAt = Never,
         e \in Nat, ident[Asked(r)].expires <= e
  PROVE  ReqInv(r)' /\ ~Fresh(r)'
<1> DEFINE i == Asked(r)
<1>1. /\ req'[r].answer.kind = "ok" /\ req'[r].answer.cookie = i /\ req'[r].answer.expires = e
      /\ req'[r].pc = req[r].pc /\ req'[r].kind = req[r].kind /\ req'[r].id = req[r].id
      /\ req'[r].cookie = req[r].cookie /\ req'[r].at = req[r].at
  BY AnswerKept
<1>2. SessionInv(r)'
  <2>1. req'[r].at \in Nat /\ issued' >= issued
    BY <1>1, Types
  <2>2. RowStays(r)
    BY DEF RowStays, HasRow, RowCookie
  <2>3. QED
    BY <1>1, <2>1, <2>2, SessionKept DEF ReqInv
<1>3. AnswerInv(r)'
  BY <1>1 DEF AnswerInv, Calls, GetSession
<1>4. ~Fresh(r)' /\ Asked(r)' = i /\ HasRow(r)' = HasRow(r) /\ RowCookie(r)' = RowCookie(r)
  BY <1>1 DEF Fresh, Asked, HasRow, RowCookie
<1>5. FreshInv(r)'
  BY <1>4 DEF FreshInv
<1>6. /\ Usable(i) /\ Live(i) /\ i \in DOMAIN ident
      /\ i \in DOMAIN ident' /\ ~ident'[i].pending
      /\ ident'[i].expires = e /\ ident'[i].revokedAt = Never
  <2>1. i \in DOMAIN ident /\ Usable(i) /\ Live(i)
    BY DEF Authenticated, Usable
  <2>2. i \in DOMAIN ident' /\ ~ident'[i].pending
    BY <2>1, <1>4 DEF Evolves, Usable
  <2>3. QED
    BY <2>1, <2>2
<1>7. /\ now \in Nat /\ req[r].at \in Nat /\ ident[i].expires \in Nat /\ UpstreamTimeout \in Nat
  BY <1>6, Types
<1>8. ASSUME req[r].at <= now
      PROVE  e <= ident'[i].expires /\ req[r].at < ident'[i].expires
  BY <1>6, <1>7, <1>8 DEF Live
<1>9. SyncInv(r)'
  <2>1. SUFFICES ASSUME req[r].pc = "syncing" PROVE SyncInv(r)'
    BY <1>1 DEF SyncInv, GetSession
  <2>2. req[r].at <= now /\ (HasRow(r) => i = RowCookie(r) \/ Revoked(i))
    BY <2>1 DEF ReqInv, SessionInv, SessionPhases
  <2>3. HasRow(r) => i = RowCookie(r)
    BY <2>2, <1>6 DEF Live, Revoked
  <2> HIDE DEF i
  <2>4. QED
    BY <2>1, <2>2, <2>3, <1>1, <1>4, <1>6, <1>8 DEF SyncInv, LiveSince, Usable
<1>10. EstablishInv(r)'
  <2>1. SUFFICES ASSUME req[r].pc = "establishing" PROVE EstablishInv(r)'
    BY <1>1 DEF EstablishInv, GetSession
  <2>2. req[r].at <= now /\ now <= req[r].at + UpstreamTimeout
    BY <2>1 DEF ReqInv, EstablishInv
  <2> HIDE DEF i
  <2>3. QED
    BY <2>1, <2>2, <1>1, <1>6, <1>8 DEF EstablishInv, LiveSince, Usable
<1>11. EndInv(r)' /\ TrustInv(r)'
  BY <1>1 DEF EndInv, TrustInv, GetSession
<1>12. QED
  BY <1>2, <1>3, <1>4, <1>5, <1>9, <1>10, <1>11 DEF ReqInv

\* A call that rotates: its answer alone has the newest cookie.
LEMMA NewCookieAnswer ==
  ASSUME WellTyped, WellTyped', IdentInv, UNCHANGED <<now, rows, issued>>,
         NEW r \in Requests, ReqInv(r), Authenticated(Asked(r)), Rotate(r)
  PROVE  ReqInv(r)' /\ Evolves /\ IdentInv'
<1> DEFINE i == Asked(r)  n == Len(ident) + 1
<1>1. /\ Evolves /\ IdentInv'
      /\ n \in DOMAIN ident' /\ ~ident'[n].pending
      /\ ident'[n].expires = Granted /\ ident'[n].revokedAt = Never
      /\ n \notin DOMAIN ident /\ n # None /\ now < Granted
      /\ i \in DOMAIN ident' /\ ident'[i].revokedAt = now /\ ident'[i].expires <= Granted
  BY EvolveRotate
<1>2. /\ req'[r].answer.kind = "ok" /\ req'[r].answer.cookie = n /\ req'[r].answer.expires = Granted
      /\ req'[r].pc = req[r].pc /\ req'[r].kind = req[r].kind /\ req'[r].id = req[r].id
      /\ req'[r].cookie = req[r].cookie /\ req'[r].at = req[r].at
  BY AnswerKept DEF Rotate
<1>3. req[r].pc \in {"syncing", "calling"}
  BY SessionsAssumption DEF Rotate, MayRotate
<1>4. SessionInv(r)'
  <2>1. req'[r].at \in Nat /\ issued' >= issued
    BY <1>2, Types
  <2>2. RowStays(r)
    BY DEF RowStays, HasRow, RowCookie
  <2>3. QED
    BY <1>1, <1>2, <2>1, <2>2, SessionKept DEF ReqInv
<1>5. AnswerInv(r)'
  BY <1>2, <1>3 DEF AnswerInv, Calls, GetSession
<1>6. /\ i \in DOMAIN ident /\ Live(i) /\ i # n
      /\ now \in Nat /\ req[r].at \in Nat /\ Granted \in Nat
      /\ req[r].at <= now /\ (HasRow(r) => i = RowCookie(r) \/ Revoked(i))
  <2>1. i \in DOMAIN ident /\ Live(i) /\ i # n
    BY <1>1 DEF Authenticated
  <2>2. now \in Nat /\ req[r].at \in Nat /\ Granted \in Nat
    BY Types
  <2>3. req[r].at <= now /\ (HasRow(r) => i = RowCookie(r) \/ Revoked(i))
    BY <1>3 DEF ReqInv, SessionInv, SessionPhases
  <2>4. QED
    BY <2>1, <2>2, <2>3
<1>7. HasRow(r) => i = RowCookie(r)
  BY <1>6 DEF Live, Revoked
<1>8. Asked(r)' = i /\ HasRow(r)' = HasRow(r) /\ RowCookie(r)' = RowCookie(r)
  BY <1>2 DEF Asked, HasRow, RowCookie
<1>9. FreshInv(r)'
  <2> HIDE DEF i, n
  <2>1. Usable(req[r].answer.cookie)' /\ RowCookie(r)' = RowCookie(r)
    BY <1>1, <1>2, <1>8 DEF Usable
  <2>2. Heir(Asked(r), req[r].answer.cookie)'
    BY <1>1, <1>2, <1>6, <1>8 DEF Heir, Revoked, Never
  <2>3. QED
    BY <2>1, <2>2, <1>7, <1>8 DEF FreshInv
<1>10. Fresh(r)'
  BY <1>1, <1>2, <1>3, <1>6, <1>8 DEF Fresh
<1>11. SyncInv(r)'
  <2> HIDE DEF i, n
  <2>2. /\ Usable(req[r].answer.cookie)'
        /\ req'[r].answer.expires <= ident'[req'[r].answer.cookie].expires
        /\ LiveSince(req[r].answer.cookie, req[r].at)'
    BY <1>1, <1>2, <1>6 DEF Usable, LiveSince
  <2>3. QED
    BY <2>2, <1>10 DEF SyncInv
<1>12. EstablishInv(r)' /\ EndInv(r)' /\ TrustInv(r)'
  BY <1>2, <1>3 DEF EstablishInv, EndInv, TrustInv
<1>13. QED
  BY <1>1, <1>4, <1>5, <1>9, <1>11, <1>12 DEF ReqInv

\* The steps that leave the rows and the other requests alone.
LEMMA RestKept ==
  ASSUME SafetyInv, WellTyped', Evolves, UNCHANGED <<now, rows, issued>>
  PROVE  /\ \A id \in DOMAIN rows' : RowInv(id)'
         /\ \A q \in Requests : req'[q] = req[q] => ReqInv(q)' /\ (HasRow(q)' => HasRow(q))
<1>1. WellTyped /\ IdentInv
  BY DEF SafetyInv, TypedInv, TypeOK
<1>2. ASSUME NEW id \in DOMAIN rows' PROVE RowInv(id)'
  BY <1>1, RowKept DEF SafetyInv
<1>3. ASSUME NEW q \in Requests, req'[q] = req[q] PROVE ReqInv(q)' /\ (HasRow(q)' => HasRow(q))
  <2>1. Unhurried(q)
    BY DEF Unhurried, SafetyInv, ReqInv, EstablishInv
  <2>2. RowStays(q)
    BY DEF RowStays, HasRow, RowCookie
  <2>3. issued' >= issued
    BY <1>1, Types
  <2>4. ReqInv(q)'
    BY <1>1, <1>3, <2>1, <2>2, <2>3, FrameReq DEF SafetyInv
  <2>5. QED
    BY <2>4, <1>3 DEF HasRow
<1>4. QED
  BY <1>2, <1>3

LEMMA IdentitySafety ==
  ASSUME SafetyInv, NEW r \in Requests, IdentityAnswers(r) PROVE SafetyInv'
<1>1. /\ WellTyped /\ IdentInv /\ TypedInv /\ ReqInv(r) /\ req[r].pc \in Calls
      /\ TypedInv' /\ WellTyped'
      /\ UNCHANGED <<now, rows, challenges, issued, browser, sent, loggedOut>>
  <2>1. TypedInv /\ WellTyped /\ IdentInv /\ ReqInv(r)
    BY DEF SafetyInv, TypedInv, TypeOK
  <2>2. TypedInv'
    BY <2>1, TypedIdentity
  <2>3. QED
    BY <2>1, <2>2 DEF IdentityAnswers, Waits, TypedInv, TypeOK
<1> DEFINE Good == /\ Evolves /\ IdentInv' /\ ReqInv(r)'
                   /\ \/ ~Fresh(r)'
                      \/ Authenticated(Asked(r)) /\ Rotate(r)
                   /\ \E kind, cookie, expires : Answered(r, kind, cookie, expires)
<1>2. ASSUME Authenticated(Asked(r)), Rotate(r) PROVE Good
  BY <1>1, <1>2, NewCookieAnswer DEF Rotate
<1>3. ASSUME ident' = ident, IdentInv' PROVE Evolves
  BY <1>1, <1>3, EvolveSame, Types
<1>4. ASSUME ident' = ident PROVE Evolves /\ IdentInv'
  <2>1. IdentInv'
    BY <1>1, <1>4 DEF IdentInv, Revoked
  <2>2. QED
    BY <2>1, <1>3, <1>4
<1>5. ASSUME NEW kind, kind # "ok", Refuse(r, kind),
             \/ kind # "unauthenticated"
             \/ req[r].pc \notin SessionPhases
             \/ req[r].pc = "calling" /\ req[r].kind # "api"
             \/ ~Authenticated(Asked(r))
      PROVE  Good
  <2>1. ident' = ident /\ Answered(r, kind, None, 0)
    BY <1>5 DEF Refuse
  <2>2. \/ kind # "unauthenticated"
        \/ req[r].pc \notin SessionPhases
        \/ req[r].pc = "calling" /\ req[r].kind # "api"
        \/ ~Live(Asked(r)) /\ Asked(r) \in DOMAIN ident
    BY <1>1, <1>5 DEF ReqInv, SessionInv, Usable, Authenticated
  <2>3. Evolves /\ IdentInv'
    BY <2>1, <1>4
  <2>4. ReqInv(r)' /\ ~Fresh(r)'
    BY <1>1, <1>5, <2>1, <2>2, <2>3, NoGoodAnswer
  <2>5. QED
    BY <2>1, <2>3, <2>4
<1> HIDE DEF Good
<1>6. ASSUME AnswerGetSession(r) PROVE Good
  <2>1. ASSUME Authenticated(Asked(r)), NEW e \in {ident[Asked(r)].expires, Granted},
               ident' = [ident EXCEPT ![Asked(r)].expires = e],
               Answered(r, "ok", Asked(r), e)
        PROVE  Good
    <3>1. Asked(r) \in DOMAIN ident /\ Live(Asked(r)) /\ req[r].pc \in GetSession
      BY <2>1, <1>6 DEF Authenticated, AnswerGetSession
    <3>2. /\ Evolves /\ IdentInv'
          /\ ident'[Asked(r)].expires = e /\ ident'[Asked(r)].revokedAt = Never
          /\ e \in Nat /\ ident[Asked(r)].expires <= e
      BY <1>1, <2>1, <3>1, EvolveSlide
    <3>3. ReqInv(r)' /\ ~Fresh(r)'
      BY <1>1, <2>1, <3>1, <3>2, SameCookieAnswer
    <3>4. QED
      BY <2>1, <3>2, <3>3 DEF Good
  <2>2. QED
    BY <1>6, <2>1, <1>2, <1>5 DEF AnswerGetSession
<1>7. ASSUME AnswerCall(r) PROVE Good
  <2>0. req[r].pc = "calling"
    BY <1>7 DEF AnswerCall
  <2>1. ASSUME ident' = ident, Answered(r, "ok", Asked(r), 0) PROVE Good
    <3>1. Evolves /\ IdentInv'
      BY <2>1, <1>4
    <3>2. ReqInv(r)' /\ ~Fresh(r)'
      BY <1>1, <2>0, <2>1, <3>1, NoGoodAnswer DEF GetSession
    <3>3. QED
      BY <2>1, <3>1, <3>2 DEF Good
  <2>2. ASSUME Authenticated(Asked(r)), EndOwnSession(r) PROVE Good
    <3>1. /\ ident' = [ident EXCEPT ![Asked(r)].revokedAt = now]
          /\ Answered(r, "ok", None, 0) /\ Live(Asked(r))
      BY <2>2 DEF EndOwnSession, Authenticated
    <3>2. Evolves /\ IdentInv'
      BY <1>1, <3>1, EvolveRevoke
    <3>3. ReqInv(r)' /\ ~Fresh(r)'
      BY <1>1, <2>0, <3>1, <3>2, NoGoodAnswer DEF GetSession
    <3>4. QED
      BY <3>1, <3>2, <3>3 DEF Good
  <2>3. QED
    BY <1>7, <2>0, <2>1, <2>2, <1>2, <1>5 DEF AnswerCall
<1>8. ASSUME AnswerSignIn(r) PROVE Good
  <2>0. req[r].pc = "signIn"
    BY <1>8 DEF AnswerSignIn
  <2>1. ASSUME NEW second \in BOOLEAN, ident' = Append(ident, NewIdentity(second)),
               Answered(r, IF second THEN "two_factor" ELSE "ok", Len(ident) + 1, 0)
        PROVE  Good
    <3>1. Evolves /\ IdentInv'
      BY <1>1, <2>1, EvolveNew
    <3>2. PICK kind \in {"two_factor", "ok"} : Answered(r, kind, Len(ident) + 1, 0)
      BY <2>1
    <3>3. ReqInv(r)' /\ ~Fresh(r)'
      BY <1>1, <2>0, <3>1, <3>2, NoGoodAnswer DEF GetSession, SessionPhases
    <3>4. QED
      BY <3>1, <3>2, <3>3 DEF Good
  <2>2. QED
    BY <1>8, <2>0, <2>1, <1>5 DEF AnswerSignIn, SessionPhases
<1>9. ASSUME AnswerVerify(r) PROVE Good
  <2>0. req[r].pc = "verifying"
    BY <1>9 DEF AnswerVerify
  <2>1. ASSUME ident[Asked(r)].pending,
               ident' = [ident EXCEPT ![Asked(r)] = NewIdentity(FALSE)],
               Answered(r, "ok", Asked(r), 0)
        PROVE  Good
    <3>1. Asked(r) \in DOMAIN ident
      BY <1>1, <2>0, IdentDomain DEF TypedInv, Known
    <3>2. Evolves /\ IdentInv'
      BY <1>1, <2>1, <3>1, EvolveVerify
    <3>3. ReqInv(r)' /\ ~Fresh(r)'
      BY <1>1, <2>0, <2>1, <3>2, NoGoodAnswer DEF GetSession, SessionPhases
    <3>4. QED
      BY <2>1, <3>2, <3>3 DEF Good
  <2>2. QED
    BY <1>9, <2>0, <2>1, <1>5 DEF AnswerVerify, SessionPhases
<1>10. ASSUME AnswerSignOut(r) PROVE Good
  <2>1. /\ req[r].pc = "signingOut" /\ Answered(r, "ok", None, 0)
        /\ ident' = IF Live(Asked(r)) THEN [ident EXCEPT ![Asked(r)].revokedAt = now] ELSE ident
    BY <1>10 DEF AnswerSignOut
  <2>2. Evolves /\ IdentInv'
    <3>1. CASE Live(Asked(r))
      BY <1>1, <2>1, <3>1, EvolveRevoke
    <3>2. CASE ~Live(Asked(r))
      BY <1>4, <2>1, <3>2
    <3>3. QED
      BY <3>1, <3>2
  <2>3. ReqInv(r)' /\ ~Fresh(r)'
    BY <1>1, <2>1, <2>2, NoGoodAnswer DEF GetSession
  <2>4. \E kind, cookie, expires : Answered(r, kind, cookie, expires)
    BY <2>1
  <2>5. QED
    BY <2>2, <2>3, <2>4 DEF Good
<1>11. Good
  BY <1>6, <1>7, <1>8, <1>9, <1>10 DEF IdentityAnswers
<1>12. PICK kind, cookie, expires : Answered(r, kind, cookie, expires)
  BY <1>11 DEF Good
<1>13. /\ req'[r].id = req[r].id
       /\ req'[r].setSession = req[r].setSession /\ req'[r].setLogin = req[r].setLogin
  BY <1>1, <1>12, AnswerKept
<1>14. \A q \in Requests : q # r => req'[q] = req[q]
  BY <1>1, OthersKeep DEF CallStep
<1>15. IssuedInv'
  BY <1>1, <1>13, <1>14 DEF SafetyInv, IssuedInv
<1>16. /\ \A id \in DOMAIN rows' : RowInv(id)'
       /\ \A q \in Requests : q # r => ReqInv(q)' /\ (HasRow(q)' => HasRow(q))
  BY <1>1, <1>11, <1>14, RestKept DEF Good
<1>17. ASSUME Fresh(r)', NEW q \in Requests, q # r, Fresh(q), HasRow(q), req[q].id = req[r].id
       PROVE  FALSE
  <2>1. Authenticated(Asked(r)) /\ Rotate(r)
    BY <1>11, <1>17 DEF Good
  <2>2. req[r].pc \in SessionPhases
    BY <2>1, SessionsAssumption DEF Rotate, MayRotate, SessionPhases
  <2>3. Asked(r) = RowCookie(r) /\ HasRow(r)
    BY <1>1, <1>17, <2>1, <2>2
    DEF ReqInv, SessionInv, HasRow, RowCookie, Authenticated, Live, Revoked
  <2>4. Revoked(RowCookie(r))
    BY <1>17 DEF SafetyInv, ReqInv, FreshInv, Heir, RowCookie
  <2>5. QED
    BY <2>1, <2>3, <2>4 DEF Authenticated, Live, Revoked
<1>18. HasRow(r)' => HasRow(r)
  BY <1>1, <1>13 DEF HasRow
<1>19. issued' >= issued
  BY <1>1, Types
<1>20. QED
  BY <1>1, <1>11, <1>13, <1>14, <1>15, <1>16, <1>17, <1>18, <1>19, Assemble DEF Good

\* A call fails: its answer is not the one that was given, and is known not to be.
LEMMA FailureSafety ==
  ASSUME SafetyInv, NEW r \in Requests, UpstreamFails(r) \/ BodyCutOff(r) PROVE SafetyInv'
<1>1. /\ TypedInv /\ WellTyped /\ IdentInv /\ ReqInv(r) /\ req[r].pc \in Calls
      /\ TypedInv' /\ WellTyped'
      /\ UNCHANGED <<now, ident, rows, challenges, issued, browser, sent, loggedOut>>
      /\ req \in [Requests -> Request] /\ req[r] \in Request
  <2>1. TypedInv /\ WellTyped /\ IdentInv /\ ReqInv(r)
    BY DEF SafetyInv, TypedInv, TypeOK
  <2>2. TypedInv'
    BY <2>1, TypedFailure
  <2>3. req \in [Requests -> Request] /\ req[r] \in Request
    BY <2>1 DEF WellTyped
  <2>4. req[r].pc \in Calls
    BY DEF UpstreamFails, BodyCutOff, Calls
  <2>5. UNCHANGED <<now, ident, rows, challenges, issued, browser, sent, loggedOut>>
    BY DEF UpstreamFails, BodyCutOff
  <2>6. QED
    BY <2>1, <2>2, <2>3, <2>4, <2>5 DEF TypedInv, TypeOK
<1>2. PICK answer \in {[NoAnswer EXCEPT !.kind = "unavailable"],
                       [NoAnswer EXCEPT !.kind = "unauthenticated"]}, cut \in BOOLEAN :
        /\ req' = [req EXCEPT ![r].answer = answer, ![r].cut = cut]
        /\ answer.kind = "unauthenticated" => cut
  BY DEF UpstreamFails, BodyCutOff, NoAnswer
<1>3. answer.kind \in {"unavailable", "unauthenticated"}
  BY DEF NoAnswer
<1>4. /\ req'[r].answer = answer /\ req'[r].cut = cut
      /\ req'[r].pc = req[r].pc /\ req'[r].id = req[r].id /\ req'[r].cookie = req[r].cookie
      /\ req'[r].at = req[r].at
      /\ req'[r].setSession = req[r].setSession /\ req'[r].setLogin = req[r].setLogin
  <2>1. req'[r] = [req[r] EXCEPT !.answer = answer, !.cut = cut]
    BY <1>1, <1>2
  <2>2. QED
    BY <1>1, <2>1 DEF Request
<1>5. Evolves /\ IdentInv' /\ issued' >= issued
  <2>1. now' >= now /\ issued' >= issued
    BY <1>1, Types
  <2>2. QED
    BY <2>1, <1>1, EvolveSame DEF IdentInv, Revoked
<1>6. ~Fresh(r)'
  BY <1>3, <1>4 DEF Fresh
<1>7. ReqInv(r)'
  <2>1. SessionInv(r)'
    <3>1. RowStays(r)
      BY <1>1 DEF RowStays, HasRow, RowCookie
    <3>2. req'[r].at \in Nat
      BY <1>1, <1>4, Types
    <3>3. QED
      BY <1>1, <1>4, <1>5, <3>1, <3>2, SessionKept DEF ReqInv
  <2>2. AnswerInv(r)'
    BY <1>1, <1>4 DEF AnswerInv, Calls, GetSession
  <2>3. FreshInv(r)' /\ SyncInv(r)'
    BY <1>3, <1>4, <1>6 DEF FreshInv, SyncInv
  <2>4. EstablishInv(r)'
    BY <1>1, <1>3, <1>4 DEF ReqInv, EstablishInv, Calls, GetSession
  <2>5. EndInv(r)'
    BY <1>2, <1>3, <1>4 DEF EndInv
  <2>6. TrustInv(r)'
    BY <1>1, <1>4 DEF TrustInv, Calls, GetSession
  <2>7. QED
    BY <2>1, <2>2, <2>3, <2>4, <2>5, <2>6 DEF ReqInv
<1>8. \A q \in Requests : q # r => req'[q] = req[q]
  BY <1>1, OthersKeep DEF CallStep
<1>9. IssuedInv'
  BY <1>1, <1>4, <1>8 DEF SafetyInv, IssuedInv
<1>10. /\ \A id \in DOMAIN rows' : RowInv(id)'
       /\ \A q \in Requests : q # r => ReqInv(q)' /\ (HasRow(q)' => HasRow(q))
  BY <1>1, <1>5, <1>8, RestKept
<1>11. QED
  BY <1>1, <1>5, <1>6, <1>7, <1>8, <1>9, <1>10, Assemble

-----------------------------------------------------------------------------
(* The steps of the browser, of time, of the sweep and of a restart.       *)

LEMMA SendSafety ==
  ASSUME SafetyInv, NEW r \in Requests, NEW kind \in Kinds, Send(r, kind) PROVE SafetyInv'
<1>1. /\ TypedInv /\ WellTyped /\ IdentInv /\ ReqInv(r) /\ IssuedInv
      /\ TypedInv' /\ WellTyped'
      /\ UNCHANGED <<now, ident, rows, challenges, issued, browser, loggedOut>>
      /\ req \in [Requests -> Request] /\ req[r] \in Request /\ req[r].pc = "idle"
      /\ issued \in Nat /\ browser.session \in Nat /\ browser.login \in Nat
  <2>1. TypedInv /\ WellTyped /\ IdentInv /\ ReqInv(r) /\ IssuedInv
    BY DEF SafetyInv, TypedInv, TypeOK
  <2>2. TypedInv'
    BY <2>1, TypedSend
  <2>3. QED
    BY <2>1, <2>2 DEF Send, TypedInv, TypeOK, WellTyped
<1>2. PICK pc \in {"signIn", "finding"}, at \in Nat, id \in Nat :
        /\ req' = [req EXCEPT ![r].kind = kind, ![r].pc = pc, ![r].at = at, ![r].id = id]
        /\ id <= issued
  <2> DEFINE id == CASE kind = "login"  -> None
                     [] kind = "verify" -> browser.login
                     [] OTHER           -> browser.session
                pc == IF kind = "login" THEN "signIn" ELSE "finding"
                at == IF kind = "login" THEN now ELSE 0
  <2>1. id \in Nat /\ id <= issued /\ pc \in {"signIn", "finding"} /\ at \in Nat
    BY <1>1, Types DEF None, IssuedInv
  <2>2. req' = [req EXCEPT ![r].kind = kind, ![r].pc = pc, ![r].at = at, ![r].id = id]
    BY DEF Send
  <2> HIDE DEF id, pc, at
  <2>3. QED
    BY <2>1, <2>2
<1>3. /\ req'[r].answer = req[r].answer /\ req'[r].pc = pc /\ req'[r].id = id
      /\ req'[r].setSession = req[r].setSession /\ req'[r].setLogin = req[r].setLogin
  <2>1. req'[r] = [req[r] EXCEPT !.kind = kind, !.pc = pc, !.at = at, !.id = id]
    BY <1>1, <1>2
  <2>2. QED
    BY <1>1, <2>1 DEF Request
<1>4. req'[r].answer.kind = "none"
  BY <1>1, <1>3 DEF ReqInv, AnswerInv, Calls, GetSession
<1>5. ReqInv(r)'
  BY <1>3, <1>4, QuietReq DEF SessionPhases
<1>6. ~Fresh(r)'
  BY <1>3 DEF Fresh
<1>7. \A q \in Requests : q # r => req'[q] = req[q]
  BY <1>1, <1>2
<1>8. Evolves /\ IdentInv' /\ issued' >= issued
  <2>1. now' >= now /\ issued' >= issued
    BY <1>1, Types
  <2>2. QED
    BY <2>1, <1>1, EvolveSame DEF IdentInv, Revoked
<1>9. IssuedInv'
  BY <1>1, <1>2, <1>3, <1>7 DEF IssuedInv
<1>10. /\ \A k \in DOMAIN rows' : RowInv(k)'
       /\ \A q \in Requests : q # r => ReqInv(q)' /\ (HasRow(q)' => HasRow(q))
  BY <1>1, <1>7, <1>8, RestKept
<1>11. QED
  BY <1>1, <1>5, <1>6, <1>7, <1>8, <1>9, <1>10, Assemble

\* No request makes a step: rows may go, and time and identity-service go on.
LEMMA ElsewhereSafety ==
  ASSUME SafetyInv, TypedInv', Evolves, IdentInv', UNCHANGED <<issued, browser, req>>,
         \A id \in DOMAIN rows' : id \in DOMAIN rows /\ rows'[id] = rows[id],
         \A q \in Requests : Unhurried(q)
  PROVE  SafetyInv'
<1>1. WellTyped /\ WellTyped' /\ IdentInv /\ IssuedInv /\ OneFresh
  BY DEF SafetyInv, TypedInv, TypeOK
<1>2. ASSUME NEW id \in DOMAIN rows' PROVE RowInv(id)'
  BY <1>1, RowKept DEF SafetyInv
<1>3. ASSUME NEW q \in Requests PROVE ReqInv(q)'
  <2>1. RowStays(q) /\ req'[q] = req[q]
    BY DEF RowStays, HasRow, RowCookie
  <2>2. issued' >= issued
    BY <1>1, Types
  <2>3. QED
    BY <1>1, <2>1, <2>2, FrameReq DEF SafetyInv
<1>4. OneFresh'
  BY <1>1 DEF OneFresh, Fresh, HasRow, Asked
<1>5. IssuedInv'
  BY <1>1 DEF IssuedInv
<1>6. QED
  BY <1>2, <1>3, <1>4, <1>5 DEF SafetyInv

LEMMA RestSafety ==
  ASSUME SafetyInv,
         \/ \E i \in DOMAIN ident : Revoke(i)
         \/ \E both \in BOOLEAN : Sweep(both)
         \/ Restart
         \/ Tick
         \/ UNCHANGED vars
  PROVE  SafetyInv'
<1>1. /\ TypedInv /\ TypedInv' /\ WellTyped /\ IdentInv /\ IssuedInv
      /\ now \in Nat /\ issued \in Nat
      /\ \A q \in Requests : ReqInv(q) /\ req[q].at \in Nat
      /\ UpstreamTimeout \in Nat /\ StoreDelay \in Nat
  <2>1. TypedInv /\ WellTyped
    BY DEF SafetyInv, TypedInv, TypeOK
  <2>2. TypedInv'
    BY <2>1, TypedRest
  <2>3. QED
    BY <2>1, <2>2, Types DEF SafetyInv
<1>2. ASSUME now' = now PROVE \A q \in Requests : Unhurried(q)
  BY <1>1, <1>2 DEF Unhurried, ReqInv, EstablishInv
<1>3. ASSUME ident' = ident, now' = now PROVE Evolves /\ IdentInv'
  <2>1. now' >= now
    BY <1>1, <1>3
  <2>2. QED
    BY <2>1, <1>1, <1>3, EvolveSame DEF IdentInv, Revoked
<1>4. ASSUME NEW i \in DOMAIN ident, Revoke(i) PROVE SafetyInv'
  <2>1. /\ Live(i) /\ ident' = [ident EXCEPT ![i].revokedAt = now]
        /\ UNCHANGED <<now, rows, issued, browser, req>>
    BY <1>4 DEF Revoke
  <2>2. Evolves /\ IdentInv'
    BY <1>1, <2>1, EvolveRevoke
  <2>3. QED
    BY <1>1, <1>2, <2>1, <2>2, ElsewhereSafety
<1>5. ASSUME NEW both \in BOOLEAN, Sweep(both) PROVE SafetyInv'
  <2>1. /\ \A id \in DOMAIN rows' : id \in DOMAIN rows /\ rows'[id] = rows[id]
        /\ UNCHANGED <<now, ident, issued, browser, req>>
    BY <1>5 DEF Sweep, Restrict
  <2>2. QED
    BY <1>1, <1>2, <1>3, <2>1, ElsewhereSafety
<1>6. CASE Restart
  <2>1. /\ \A q \in Requests : req'[q] = FreeSlot
        /\ UNCHANGED <<now, ident, rows, issued, browser>>
    BY <1>6 DEF Restart
  <2>2. \A q \in Requests : ReqInv(q)' /\ ~Fresh(q)'
    <3>1. \A q \in Requests : req'[q].pc = "idle" /\ req'[q].answer.kind = "none"
      BY <2>1 DEF FreeSlot, NoAnswer
    <3>2. QED
      BY <3>1, QuietReq DEF SessionPhases, Fresh
  <2>3. IssuedInv'
    BY <1>1, <2>1 DEF IssuedInv, FreeSlot, None, Keep
  <2>4. \A id \in DOMAIN rows' : RowInv(id)'
    BY <2>1 DEF SafetyInv, RowInv, Usable, LiveSince
  <2>5. QED
    BY <1>1, <1>3, <2>1, <2>2, <2>3, <2>4 DEF SafetyInv, OneFresh
<1>7. CASE Tick
  <2>1. /\ now' = now + 1 /\ UNCHANGED <<ident, rows, issued, browser, req>>
        /\ \A q \in Requests : MayWait(q)
    BY <1>7 DEF Tick
  <2>2. Evolves /\ IdentInv'
    <3>1. now' >= now
      BY <1>1, <2>1
    <3>2. \A i \in DOMAIN ident : ident[i].expires \in Nat /\ ident[i].revokedAt \in Nat \cup {Never}
      BY <1>1, Types
    <3>3. Life \in Nat
      BY SessionsAssumption
    <3>4. IdentInv'
      BY <1>1, <2>1, <3>2, <3>3 DEF IdentInv, Revoked
    <3>5. QED
      BY <3>1, <3>4, <1>1, <2>1, EvolveSame
  <2>3. ASSUME NEW q \in Requests PROVE Unhurried(q)
    <3>1. MayWait(q) /\ req[q].at \in Nat
      BY <1>1, <2>1
    <3>2. QED
      BY <1>1, <2>1, <3>1 DEF MayWait, Unhurried, Calls, GetSession
  <2>4. QED
    BY <1>1, <2>1, <2>2, <2>3, ElsewhereSafety
<1>8. CASE UNCHANGED vars
  BY <1>1, <1>2, <1>3, <1>8, ElsewhereSafety DEF vars
<1>9. QED
  BY <1>4, <1>5, <1>6, <1>7, <1>8

-----------------------------------------------------------------------------
(* The steps of the BFF: what they do to the rows.                         *)

\* The other requests, when rows keep their cookies, go, or are new.
LEMMA OthersKept ==
  ASSUME SafetyInv, WellTyped', UNCHANGED <<now, ident>>, issued' >= issued,
         NEW q \in Requests, req'[q] = req[q], RowStays(q)
  PROVE  ReqInv(q)' /\ (HasRow(q)' => HasRow(q))
<1>1. WellTyped /\ IdentInv /\ ReqInv(q) /\ \A id \in DOMAIN rows : RowInv(id)
  BY DEF SafetyInv, TypedInv, TypeOK
<1>2. Evolves
  <2>1. now' >= now
    BY <1>1, Types
  <2>2. QED
    BY <2>1, <1>1, EvolveSame
<1>3. Unhurried(q)
  BY <1>1 DEF Unhurried, ReqInv, EstablishInv
<1>4. ReqInv(q)'
  BY <1>1, <1>2, <1>3, FrameReq
<1>5. QED
  BY <1>4 DEF HasRow, RowStays

LEMMA BffBasics ==
  ASSUME SafetyInv, NEW r \in Requests, BffStep(r)
  PROVE  /\ TypedInv /\ TypedInv' /\ WellTyped /\ WellTyped'
         /\ IdentInv /\ IdentInv' /\ Evolves
         /\ ReqInv(r) /\ \A id \in DOMAIN rows : RowInv(id)
         /\ UNCHANGED <<now, ident>> /\ issued' >= issued /\ issued' \in Nat
         /\ \A q \in Requests : q # r => req'[q] = req[q]
         /\ req \in [Requests -> Request] /\ req[r] \in Request
<1>1. /\ TypedInv /\ WellTyped /\ IdentInv /\ ReqInv(r)
      /\ \A id \in DOMAIN rows : RowInv(id)
  BY DEF SafetyInv, TypedInv, TypeOK
<1>2. TypedInv' /\ WellTyped'
  <2>1. TypedInv'
    BY <1>1, TypedBff
  <2>2. QED
    BY <2>1 DEF TypedInv, TypeOK
<1>3. ident' = ident /\ issued' >= issued /\ issued' \in Nat
  BY <1>1, TablesKept
<1>4. now' = now
  BY DEF BffStep, Admit, TurnAway, FindChallenge, SyncArrives, PersistSynced,
    MarkSynced, SyncUnavailable, EndSession, ServeAlone, Call, CallArrives, PersistCalled,
    CallFails, Check, PassRefusal, AuthenticationFails, StartSecondFactor, Establish,
    EstablishArrives, CreateSession, DeleteForLogout, StoreThrows, Receive
<1>5. Evolves /\ IdentInv'
  <2>1. now' >= now
    BY <1>1, <1>4, Types
  <2>2. QED
    BY <2>1, <1>1, <1>3, <1>4, EvolveSame DEF IdentInv, Revoked
<1>6. \A q \in Requests : q # r => req'[q] = req[q]
  BY <1>1, OthersKeep
<1>7. req \in [Requests -> Request] /\ req[r] \in Request
  BY <1>1 DEF WellTyped
<1>8. QED
  BY <1>1, <1>2, <1>3, <1>4, <1>5, <1>6, <1>7

\* Only the newest cookie is ever written, over the one it replaced.
LEMMA Stores ==
  ASSUME SafetyInv, NEW r \in Requests, req[r].pc \in {"persisting", "storing"}
  PROVE  /\ Fresh(r) /\ HasRow(r) =>
              /\ DOMAIN StoreCookie(r) = DOMAIN rows
              /\ StoreCookie(r)[req[r].id].cookie = req[r].answer.cookie
              /\ StoreCookie(r)[req[r].id].expires = rows[req[r].id].expires
              /\ StoreCookie(r)[req[r].id].synced = rows[req[r].id].synced
              /\ \A id \in DOMAIN rows : id # req[r].id => StoreCookie(r)[id] = rows[id]
         /\ ~(Fresh(r) /\ HasRow(r)) => StoreCookie(r) = rows
<1>1. req[r].answer.kind = "ok"
  BY DEF SafetyInv, ReqInv, AnswerInv
<1>2. Fresh(r) <=> req[r].answer.cookie # None /\ req[r].answer.cookie # Asked(r)
  BY <1>1 DEF Fresh
<1>3. \A id \in DOMAIN rows : rows[id] \in Row
  BY DEF SafetyInv, TypedInv, TypeOK, WellTyped
<1>4. CASE Fresh(r) /\ HasRow(r)
  <2>1. /\ StoreCookie(r) = [rows EXCEPT ![req[r].id].cookie = req[r].answer.cookie]
        /\ req[r].id \in DOMAIN rows /\ rows[req[r].id] \in Row
    BY <1>2, <1>3, <1>4 DEF StoreCookie, HasRow
  <2>2. StoreCookie(r)[req[r].id] = [rows[req[r].id] EXCEPT !.cookie = req[r].answer.cookie]
    BY <2>1
  <2>3. /\ StoreCookie(r)[req[r].id].cookie = req[r].answer.cookie
        /\ StoreCookie(r)[req[r].id].expires = rows[req[r].id].expires
        /\ StoreCookie(r)[req[r].id].synced = rows[req[r].id].synced
    BY <2>1, <2>2 DEF Row
  <2>4. /\ DOMAIN StoreCookie(r) = DOMAIN rows
        /\ \A id \in DOMAIN rows : id # req[r].id => StoreCookie(r)[id] = rows[id]
    BY <2>1
  <2>5. QED
    BY <2>3, <2>4, <1>4
<1>5. CASE ~(Fresh(r) /\ HasRow(r))
  BY <1>2, <1>5 DEF StoreCookie, HasRow
<1>6. QED
  BY <1>4, <1>5

LEMMA StoreRows ==
  ASSUME SafetyInv, NEW r \in Requests, BffStep(r), issued' = issued,
         req[r].pc \in {"persisting", "storing"}, rows' = StoreCookie(r)
  PROVE  /\ \A id \in DOMAIN rows' : id \in DOMAIN rows /\ RowInv(id)'
         /\ \A q \in Requests : q # r => ReqInv(q)' /\ (HasRow(q)' => HasRow(q))
<1>1. /\ WellTyped /\ WellTyped' /\ IdentInv /\ Evolves /\ ReqInv(r)
      /\ \A id \in DOMAIN rows : RowInv(id)
      /\ UNCHANGED <<now, ident>> /\ issued' >= issued
      /\ \A q \in Requests : q # r => req'[q] = req[q]
  BY BffBasics
<1>2. CASE ~(Fresh(r) /\ HasRow(r))
  <2>1. rows' = rows
    BY <1>2, Stores
  <2>2. \A id \in DOMAIN rows' : id \in DOMAIN rows /\ RowInv(id)'
    BY <1>1, <2>1, RowKept
  <2>3. \A q \in Requests : RowStays(q)
    BY <2>1 DEF RowStays, HasRow, RowCookie
  <2>4. QED
    BY <1>1, <2>2, <2>3, OthersKept
<1>3. CASE Fresh(r) /\ HasRow(r)
  <2>0. PICK id, i, j : id = req[r].id /\ i = Asked(r) /\ j = req[r].answer.cookie
    OBVIOUS
  <2>1. /\ DOMAIN rows' = DOMAIN rows /\ id \in DOMAIN rows
        /\ rows'[id].cookie = j /\ rows'[id].expires = rows[id].expires
        /\ rows'[id].synced = rows[id].synced
        /\ \A k \in DOMAIN rows : k # id => rows'[k] = rows[k]
    BY <1>3, <2>0, Stores DEF HasRow
  <2>2. /\ Usable(j) /\ j \in DOMAIN ident /\ Heir(i, j)
        /\ rows[id].cookie = i /\ i \in DOMAIN ident
    BY <1>1, <1>3, <2>0, <2>1 DEF ReqInv, FreshInv, RowCookie, RowInv, Usable
  <2>3. RowInv(id)'
    <3> DEFINE t == rows[id].synced - UpstreamTimeout - StoreDelay
    <3>1. /\ rows[id].expires <= ident[i].expires /\ rows[id].synced <= now /\ LiveSince(i, t)
      BY <1>1, <2>1, <2>2 DEF RowInv
    <3>2. /\ rows[id].expires \in Nat /\ ident[i].expires \in Nat /\ ident[j].expires \in Nat
          /\ rows[id].synced \in Nat
      BY <1>1, <2>1, <2>2, Types
    <3>3. t \in Int
      BY <3>2, SessionsAssumption
    <3>4. rows[id].expires <= ident[j].expires
      BY <2>2, <3>1, <3>2 DEF Heir
    <3>5. LiveSince(j, t)
      BY <1>1, <2>2, <3>1, <3>3, HeirLives
    <3>6. QED
      BY <1>1, <2>1, <2>2, <3>1, <3>4, <3>5 DEF RowInv, Usable, LiveSince
  <2>4. ASSUME NEW k \in DOMAIN rows' PROVE k \in DOMAIN rows /\ RowInv(k)'
    <3>1. CASE k = id
      BY <3>1, <2>1, <2>3
    <3>2. CASE k # id
      BY <3>2, <1>1, <2>1, RowKept
    <3>3. QED
      BY <3>1, <3>2
  <2>5. ASSUME NEW q \in Requests, q # r PROVE ReqInv(q)' /\ (HasRow(q)' => HasRow(q))
    <3>1. req'[q] = req[q] /\ ReqInv(q)
      BY <1>1, <2>5 DEF SafetyInv
    <3>2. CASE req[q].id # id
      <4>1. RowStays(q)
        BY <3>2, <2>1 DEF RowStays, HasRow, RowCookie
      <4>2. QED
        BY <1>1, <3>1, <4>1, OthersKept
    <3>3. CASE req[q].id = id
      <4>1. HasRow(q) /\ HasRow(q)' /\ RowCookie(q) = i /\ RowCookie(q)' = j
        BY <3>1, <3>3, <2>1, <2>2 DEF HasRow, RowCookie
      <4>2. ~Fresh(q)
        BY <1>3, <2>0, <2>5, <3>3 DEF SafetyInv, OneFresh
      <4>3. Heir(RowCookie(q), rows'[req[q].id].cookie)
        BY <3>3, <4>1, <2>1, <2>2
      <4>4. ReqInv(q)'
        BY <1>1, <2>2, <3>1, <4>1, <4>2, <4>3, ReplacedReq
      <4>5. QED
        BY <4>1, <4>4
    <3>4. QED
      BY <3>2, <3>3
  <2>6. QED
    BY <2>4, <2>5
<1>4. QED
  BY <1>2, <1>3

\* What is marked was true of the row when it was answered, and still is.
LEMMA MarkRows ==
  ASSUME SafetyInv, NEW r \in Requests, MarkSynced(r)
  PROVE  /\ \A id \in DOMAIN rows' : id \in DOMAIN rows /\ RowInv(id)'
         /\ \A q \in Requests : RowStays(q)
<1>1. BffStep(r) /\ rows' = MarkedRow(r) /\ req[r].pc = "marking"
  BY DEF BffStep, MarkSynced
<1>2. /\ WellTyped /\ WellTyped' /\ IdentInv /\ Evolves /\ ReqInv(r)
      /\ \A id \in DOMAIN rows : RowInv(id) /\ rows[id] \in Row
      /\ UNCHANGED <<now, ident>>
  <2>1. \A id \in DOMAIN rows : rows[id] \in Row
    BY DEF SafetyInv, TypedInv, TypeOK, WellTyped
  <2>2. QED
    BY <1>1, <2>1, BffBasics
<1>3. CASE ~HasRow(r)
  <2>1. rows' = rows
    BY <1>1, <1>3 DEF MarkedRow, HasRow
  <2>2. QED
    BY <1>2, <2>1, RowKept DEF RowStays, HasRow, RowCookie
<1>4. CASE HasRow(r)
  <2>0. PICK id, c, expires, at : /\ id = req[r].id /\ c = RowCookie(r)
                                  /\ expires = req[r].answer.expires /\ at = req[r].at
    OBVIOUS
  <2>1. /\ rows' = [rows EXCEPT ![id].expires = expires, ![id].synced = at]
        /\ id \in DOMAIN rows /\ c = rows[id].cookie
    BY <1>1, <1>4, <2>0 DEF MarkedRow, HasRow, RowCookie
  <2>2. /\ DOMAIN rows' = DOMAIN rows
        /\ rows'[id].cookie = c /\ rows'[id].expires = expires /\ rows'[id].synced = at
        /\ \A k \in DOMAIN rows : k # id => rows'[k] = rows[k]
    <3>1. rows'[id] = [rows[id] EXCEPT !.expires = expires, !.synced = at]
      BY <2>1
    <3>2. /\ rows'[id].cookie = c /\ rows'[id].expires = expires /\ rows'[id].synced = at
      BY <1>2, <2>1, <3>1 DEF Row
    <3>3. QED
      BY <2>1, <3>2
  <2>3. /\ expires <= ident[c].expires /\ LiveSince(c, at) /\ at <= now
        /\ Usable(c) /\ c \in DOMAIN ident
    <3>1. ~Fresh(r)
      BY <1>1 DEF Fresh
    <3>2. expires <= ident[c].expires /\ LiveSince(c, at)
      BY <1>1, <1>2, <1>4, <2>0, <3>1 DEF ReqInv, SyncInv, AnswerInv
    <3>3. at <= now
      BY <1>1, <1>2, <2>0 DEF ReqInv, SessionInv, SessionPhases
    <3>4. Usable(c)
      BY <1>2, <2>1 DEF RowInv
    <3>5. QED
      BY <3>2, <3>3, <3>4 DEF Usable
  <2>4. LiveSince(c, at - UpstreamTimeout - StoreDelay)
    <3>1. at \in Nat /\ UpstreamTimeout \in Nat /\ StoreDelay \in Nat
      BY <1>2, <2>0, Types
    <3>2. /\ at \in Int /\ at - UpstreamTimeout - StoreDelay \in Int
          /\ at - UpstreamTimeout - StoreDelay <= at
      BY <3>1
    <3>3. QED
      BY <1>2, <2>3, <3>2, LiveBefore
  <2>5. RowInv(id)'
    BY <1>2, <2>2, <2>3, <2>4 DEF RowInv, Usable, LiveSince
  <2>6. ASSUME NEW k \in DOMAIN rows' PROVE k \in DOMAIN rows /\ RowInv(k)'
    <3>1. CASE k = id
      BY <3>1, <2>2, <2>1, <2>5
    <3>2. CASE k # id
      BY <3>2, <1>2, <2>2, RowKept
    <3>3. QED
      BY <3>1, <3>2
  <2>7. \A k \in DOMAIN rows : rows'[k].cookie = rows[k].cookie
    BY <2>1, <2>2
  <2>8. \A q \in Requests : RowStays(q)
    BY <2>2, <2>7 DEF RowStays, HasRow, RowCookie
  <2>9. QED
    BY <2>6, <2>8
<1>5. QED
  BY <1>3, <1>4

\* A new session's row, as get-session and the INSERT left it.
LEMMA NewRow ==
  ASSUME SafetyInv, NEW r \in Requests, CreateSession(r)
  PROVE  /\ \A id \in DOMAIN rows' : RowInv(id)' /\ (id <= issued => id \in DOMAIN rows)
         /\ \A q \in Requests : RowStays(q)
<1>1. BffStep(r) /\ req[r].pc = "creating"
  BY DEF BffStep, CreateSession
<1>2. /\ WellTyped /\ WellTyped' /\ IdentInv /\ Evolves /\ ReqInv(r) /\ IssuedInv
      /\ \A id \in DOMAIN rows : RowInv(id)
      /\ UNCHANGED <<now, ident>> /\ issued \in Nat
      /\ DOMAIN rows \subseteq 1 .. issued
      /\ \A q \in Requests : req[q].id \in Nat
  <2>1. WellTyped /\ IssuedInv /\ DOMAIN rows \subseteq 1 .. issued
    BY DEF SafetyInv, TypedInv, TypeOK, WellTyped
  <2>2. QED
    BY <1>1, <2>1, BffBasics, Types
<1>3. PICK id, c, expires, at : /\ id = issued + 1 /\ c = req[r].answer.cookie
                                /\ expires = req[r].answer.expires /\ at = req[r].at
  OBVIOUS
<1>4. /\ DOMAIN rows' = DOMAIN rows \cup {id}
      /\ rows'[id].cookie = c /\ rows'[id].expires = expires /\ rows'[id].synced = now
      /\ \A k \in DOMAIN rows : k # id => rows'[k] = rows[k]
  <2>1. rows' = WithEntry(rows, id, [cookie |-> c, expires |-> expires, synced |-> now])
    BY <1>3 DEF CreateSession
  <2>2. /\ DOMAIN rows' = DOMAIN rows \cup {id}
        /\ rows'[id] = [cookie |-> c, expires |-> expires, synced |-> now]
        /\ \A k \in DOMAIN rows : k # id => rows'[k] = rows[k]
    BY <2>1 DEF WithEntry
  <2>3. QED
    BY <2>2
<1>5. /\ at <= now /\ now <= at + StoreDelay
      /\ Usable(c) /\ c \in DOMAIN ident /\ expires <= ident[c].expires
      /\ LiveSince(c, at - UpstreamTimeout)
  BY <1>1, <1>2, <1>3 DEF ReqInv, EstablishInv, Usable
<1>6. LiveSince(c, now - UpstreamTimeout - StoreDelay)
  <2>1. /\ at \in Nat /\ now \in Nat /\ UpstreamTimeout \in Nat /\ StoreDelay \in Nat
    BY <1>2, <1>3, Types
  <2>2. /\ at - UpstreamTimeout \in Int /\ now - UpstreamTimeout - StoreDelay \in Int
        /\ now - UpstreamTimeout - StoreDelay <= at - UpstreamTimeout
    BY <1>5, <2>1
  <2>3. QED
    BY <1>2, <1>5, <2>2, LiveBefore
<1>7. RowInv(id)'
  <2>1. now <= now
    BY <1>2, Types
  <2>2. QED
    BY <1>2, <1>4, <1>5, <1>6, <2>1 DEF RowInv, Usable, LiveSince
<1>8. ASSUME NEW k \in DOMAIN rows' PROVE RowInv(k)' /\ (k <= issued => k \in DOMAIN rows)
  <2>1. CASE k = id
    BY <2>1, <1>2, <1>3, <1>7
  <2>2. CASE k # id
    BY <2>2, <1>2, <1>4, RowKept
  <2>3. QED
    BY <2>1, <2>2
<1>9. ASSUME NEW q \in Requests PROVE RowStays(q)
  <2>1. req[q].id # id
    BY <1>2, <1>3 DEF IssuedInv
  <2>2. QED
    BY <2>1, <1>4 DEF RowStays, HasRow, RowCookie
<1>10. QED
  BY <1>8, <1>9

LEMMA BffRows ==
  ASSUME SafetyInv, NEW r \in Requests, BffStep(r)
  PROVE  /\ \A id \in DOMAIN rows' : RowInv(id)' /\ (id <= issued => id \in DOMAIN rows)
         /\ \A q \in Requests : q # r => ReqInv(q)' /\ (HasRow(q)' => HasRow(q))
<1>1. /\ WellTyped /\ WellTyped' /\ IdentInv /\ Evolves
      /\ \A id \in DOMAIN rows : RowInv(id)
      /\ UNCHANGED <<now, ident>> /\ issued' >= issued
      /\ \A q \in Requests : q # r => req'[q] = req[q]
  BY BffBasics
<1>2. CASE PersistSynced(r) \/ PersistCalled(r)
  <2>1. rows' = StoreCookie(r) /\ req[r].pc \in {"persisting", "storing"} /\ issued' = issued
    BY <1>2 DEF PersistSynced, PersistCalled
  <2>2. QED
    BY <2>1, StoreRows
<1>3. CASE MarkSynced(r)
  BY <1>1, <1>3, MarkRows, OthersKept
<1>4. CASE CreateSession(r)
  BY <1>1, <1>4, NewRow, OthersKept
<1>5. CASE \A id \in DOMAIN rows' : id \in DOMAIN rows /\ rows'[id] = rows[id]
  <2>1. \A id \in DOMAIN rows' : id \in DOMAIN rows /\ RowInv(id)'
    BY <1>1, <1>5, RowKept
  <2>2. \A q \in Requests : RowStays(q)
    BY <1>5 DEF RowStays, HasRow, RowCookie
  <2>3. QED
    BY <1>1, <2>1, <2>2, OthersKept
<1>6. CASE EndSession(r) \/ DeleteForLogout(r)
  <2>1. rows' = Restrict(rows, DOMAIN rows \ {req[r].id})
    BY <1>6 DEF EndSession, DeleteForLogout
  <2>2. QED
    <3>1. \A id \in DOMAIN rows' : id \in DOMAIN rows /\ rows'[id] = rows[id]
      BY <2>1 DEF Restrict
    <3>2. QED
      BY <3>1, <1>5
<1>7. CASE rows' = rows
  BY <1>5, <1>7
<1>8. QED
  BY <1>2, <1>3, <1>4, <1>6, <1>7
  DEF BffStep, Admit, TurnAway, FindChallenge, SyncArrives, SyncUnavailable,
    ServeAlone, Call, CallArrives, CallFails, Check, PassRefusal, AuthenticationFails,
    StartSecondFactor, Establish, EstablishArrives, StoreThrows, Receive

-----------------------------------------------------------------------------
(* The steps of the BFF: what they do to the request itself.               *)

Keeps(r) == ReqInv(r)' /\ (Fresh(r)' => Fresh(r) /\ req'[r].id = req[r].id)

LEMMA QuietKeeps ==
  ASSUME NEW r \in Requests, req'[r].pc \notin SessionPhases \cup {"establishing", "creating"},
         req'[r].answer.kind = "none"
  PROVE  Keeps(r)
<1>1. ReqInv(r)'
  BY QuietReq
<1>2. ~Fresh(r)'
  BY DEF Fresh
<1>3. QED
  BY <1>1, <1>2 DEF Keeps

\* With an empty answer only the session it was admitted with matters.
LEMMA UnansweredKeeps ==
  ASSUME NEW r \in Requests, req'[r].answer.kind = "none", SessionInv(r)', TrustInv(r)',
         req'[r].pc \in {"signingOut", "syncing", "running", "calling", "checking"}
  PROVE  Keeps(r)
<1>1. ~Fresh(r)'
  BY DEF Fresh
<1>2. AnswerInv(r)' /\ FreshInv(r)' /\ SyncInv(r)' /\ EstablishInv(r)' /\ EndInv(r)'
  BY <1>1 DEF AnswerInv, FreshInv, SyncInv, EstablishInv, EndInv
<1>3. QED
  BY <1>1, <1>2 DEF Keeps, ReqInv

\* Admitted: the row is true of identity-service, and not older than SyncEvery.
LEMMA AdmitKeeps ==
  ASSUME SafetyInv, NEW r \in Requests, Admit(r) PROVE Keeps(r)
<1>1. BffStep(r)
  BY DEF BffStep
<1>2. /\ WellTyped /\ ReqInv(r) /\ UNCHANGED <<now, ident>>
      /\ req \in [Requests -> Request] /\ req[r] \in Request
  BY <1>1, BffBasics
<1>3. PICK id, pc : /\ id = req[r].id
                    /\ pc = CASE req[r].kind = "logout"              -> "signingOut"
                              [] req[r].kind = "me" \/ SyncDue(id)   -> "syncing"
                              [] OTHER                               -> "running"
  OBVIOUS
<1>4. PICK c, synced : c = rows[id].cookie /\ synced = rows[id].synced
  OBVIOUS
<1>5. /\ req[r].pc = "finding" /\ id \in DOMAIN rows /\ UNCHANGED <<rows, issued>>
      /\ req' = [req EXCEPT ![r].cookie = c, ![r].at = now, ![r].pc = pc]
  BY <1>3, <1>4 DEF Admit, Unexpired
<1>6. pc \in {"signingOut", "syncing", "running"} /\ (pc = "running" => ~SyncDue(id))
  BY <1>3
<1>7. /\ req'[r].answer = req[r].answer /\ req'[r].pc = pc /\ req'[r].id = id
      /\ req'[r].cookie = c /\ req'[r].at = now
  <2>1. req'[r] = [req[r] EXCEPT !.cookie = c, !.at = now, !.pc = pc]
    BY <1>2, <1>5
  <2>2. QED
    BY <1>2, <1>3, <2>1 DEF Request
<1>8. req'[r].answer.kind = "none"
  BY <1>2, <1>5, <1>7 DEF ReqInv, AnswerInv, Calls, GetSession
<1>9. /\ Usable(c) /\ c \in DOMAIN ident /\ LiveSince(c, synced - UpstreamTimeout - StoreDelay)
      /\ synced \in Nat /\ now \in Nat /\ UpstreamTimeout \in Nat /\ StoreDelay \in Nat
      /\ SyncEvery \in Nat /\ id \in 1 .. issued
  <2>1. /\ Usable(c) /\ LiveSince(c, synced - UpstreamTimeout - StoreDelay)
    BY <1>4, <1>5 DEF SafetyInv, RowInv
  <2>2. id \in 1 .. issued
    BY <1>2, <1>5 DEF WellTyped
  <2>3. QED
    BY <2>1, <2>2, <1>2, <1>4, <1>5, Types DEF Usable
<1>10. SessionInv(r)'
  <2>1. now <= now
    BY <1>9
  <2>2. QED
    BY <1>2, <1>4, <1>5, <1>7, <1>9, <2>1 DEF SessionInv, Usable, Asked, RowCookie
<1>11. TrustInv(r)'
  <2>1. SUFFICES ASSUME pc = "running" PROVE LiveSince(c, now - MaxTrust + 1)
    BY <1>2, <1>7 DEF TrustInv, Asked, LiveSince, MaxTrust
  <2>2. now - synced < SyncEvery
    BY <1>4, <1>6, <1>9, <2>1 DEF SyncDue
  <2>3. /\ now - MaxTrust + 1 \in Int /\ synced - UpstreamTimeout - StoreDelay \in Int
        /\ now - MaxTrust + 1 <= synced - UpstreamTimeout - StoreDelay
    BY <1>9, <2>2 DEF MaxTrust
  <2>4. QED
    BY <1>2, <1>9, <2>3, LiveBefore
<1>12. QED
  BY <1>6, <1>7, <1>8, <1>10, <1>11, UnansweredKeeps

\* What a sync answered is stored, ...
LEMMA PersistKeeps ==
  ASSUME SafetyInv, NEW r \in Requests, PersistSynced(r) PROVE Keeps(r)
<1>1. BffStep(r) /\ req[r].pc = "persisting"
  BY DEF BffStep, PersistSynced
<1>2. /\ WellTyped /\ WellTyped' /\ IdentInv /\ Evolves /\ ReqInv(r)
      /\ UNCHANGED <<now, ident>> /\ issued' >= issued
      /\ req \in [Requests -> Request] /\ req[r] \in Request
  BY <1>1, BffBasics
<1>3. PICK id, i, j : id = req[r].id /\ i = Asked(r) /\ j = req[r].answer.cookie
  OBVIOUS
<1>4. /\ rows' = StoreCookie(r) /\ issued' = issued
      /\ req' = [req EXCEPT ![r].pc = "marking"]
  BY DEF PersistSynced
<1>5. /\ req'[r].pc = "marking" /\ req'[r].id = id /\ req'[r].answer = req[r].answer
      /\ req'[r].cookie = i /\ req'[r].at = req[r].at
  <2>1. req'[r] = [req[r] EXCEPT !.pc = "marking"]
    BY <1>2, <1>4
  <2>2. QED
    BY <1>2, <1>3, <2>1 DEF Request, Asked
<1>6. ~Fresh(r)'
  BY <1>5 DEF Fresh
<1>7. /\ req[r].answer.kind = "ok" /\ Usable(j) /\ j \in DOMAIN ident
      /\ req[r].answer.expires <= ident[j].expires /\ LiveSince(j, req[r].at)
      /\ id \in 1 .. issued /\ Usable(i) /\ req[r].at <= now
      /\ HasRow(r) => i = RowCookie(r) \/ Revoked(i)
  BY <1>1, <1>2, <1>3
  DEF ReqInv, SyncInv, AnswerInv, SessionInv, SessionPhases, Usable
<1>8. CASE Fresh(r) /\ HasRow(r)
  <2>1. id \in DOMAIN rows' /\ rows'[id].cookie = j
    BY <1>1, <1>3, <1>4, <1>8, Stores DEF HasRow
  <2>2. Revoked(i)
    BY <1>2, <1>3, <1>8 DEF ReqInv, FreshInv, Heir
  <2>3. SessionInv(r)'
    BY <1>2, <1>4, <1>5, <1>7, <2>2 DEF SessionInv, Usable, Revoked, Asked
  <2>4. SyncInv(r)'
    BY <1>2, <1>3, <1>5, <1>7, <2>1 DEF SyncInv, Usable, LiveSince, RowCookie
  <2>5. QED
    BY <2>3, <2>4, <1>5, <1>6, <1>7
    DEF Keeps, ReqInv, AnswerInv, FreshInv, EstablishInv, EndInv, TrustInv
<1>9. CASE ~(Fresh(r) /\ HasRow(r))
  <2>1. rows' = rows /\ HasRow(r)' = HasRow(r) /\ RowCookie(r)' = RowCookie(r)
    <3>1. rows' = rows
      BY <1>1, <1>4, <1>9, Stores
    <3>2. QED
      BY <3>1, <1>3, <1>5 DEF HasRow, RowCookie
  <2>2. SessionInv(r)'
    BY <1>2, <1>4, <1>5, <1>7, <2>1 DEF SessionInv, Usable, Revoked, Asked
  <2>3. HasRow(r) => /\ j = RowCookie(r) \/ Revoked(j)
                     /\ req[r].answer.expires <= ident[RowCookie(r)].expires
                     /\ LiveSince(RowCookie(r), req[r].at)
    BY <1>1, <1>2, <1>3, <1>7, <1>9 DEF ReqInv, SyncInv
  <2>4. SyncInv(r)'
    BY <1>2, <1>3, <1>5, <1>7, <2>1, <2>3 DEF SyncInv, Usable, LiveSince, Revoked
  <2>5. QED
    BY <2>2, <2>4, <1>5, <1>6, <1>7
    DEF Keeps, ReqInv, AnswerInv, FreshInv, EstablishInv, EndInv, TrustInv
<1>10. QED
  BY <1>8, <1>9

\* ... and what is stored and marked is what the handler goes on with.
LEMMA MarkKeeps ==
  ASSUME SafetyInv, NEW r \in Requests, MarkSynced(r), req[r].kind # "me" PROVE Keeps(r)
<1>1. BffStep(r) /\ req[r].pc = "marking"
  BY DEF BffStep, MarkSynced
<1>2. /\ WellTyped /\ ReqInv(r) /\ UNCHANGED <<now, ident>>
      /\ req \in [Requests -> Request] /\ req[r] \in Request
  BY <1>1, BffBasics
<1>3. PICK id, j : id = req[r].id /\ j = req[r].answer.cookie
  OBVIOUS
<1>4. /\ req' = [req EXCEPT ![r].pc = "running", ![r].answer = NoAnswer,
                            ![r].cookie = j, ![r].setSession = id]
      /\ issued' = issued
  BY <1>3 DEF MarkSynced
<1>5. /\ req'[r].pc = "running" /\ req'[r].id = id /\ req'[r].answer = NoAnswer
      /\ req'[r].cookie = j /\ req'[r].at = req[r].at
  <2>1. req'[r] = [req[r] EXCEPT !.pc = "running", !.answer = NoAnswer,
                                 !.cookie = j, !.setSession = id]
    BY <1>2, <1>4
  <2>2. QED
    BY <1>2, <1>3, <2>1 DEF Request
<1>6. /\ Usable(j) /\ j \in DOMAIN ident /\ LiveSince(j, req[r].at)
      /\ id \in 1 .. issued /\ req[r].at <= now
      /\ HasRow(r) => j = RowCookie(r) \/ Revoked(j)
  BY <1>1, <1>2, <1>3
  DEF ReqInv, SyncInv, AnswerInv, SessionInv, SessionPhases, Usable, Fresh
<1>7. HasRow(r)' => HasRow(r) /\ RowCookie(r)' = RowCookie(r)
  <2>1. RowStays(r)
    BY MarkRows
  <2>2. QED
    BY <2>1, <1>3, <1>5 DEF RowStays, HasRow, RowCookie
<1>8. SessionInv(r)'
  BY <1>2, <1>4, <1>5, <1>6, <1>7 DEF SessionInv, Usable, Revoked, Asked
<1>9. TrustInv(r)'
  <2>1. req[r].at \in Nat /\ MaxTrust \in Nat \ {0}
    BY <1>2, Types DEF MaxTrust
  <2>2. /\ req[r].at \in Int /\ req[r].at - MaxTrust + 1 \in Int
        /\ req[r].at - MaxTrust + 1 <= req[r].at
    BY <2>1
  <2>3. LiveSince(j, req[r].at - MaxTrust + 1)
    BY <1>2, <1>6, <2>2, LiveBefore
  <2>4. QED
    BY <1>2, <1>5, <2>3 DEF TrustInv, Asked, LiveSince, MaxTrust
<1>10. QED
  BY <1>5, <1>8, <1>9, UnansweredKeeps DEF NoAnswer

\* The steps in between keep what the request was admitted with.
LEMMA BetweenKeeps ==
  ASSUME SafetyInv, NEW r \in Requests,
         \/ SyncArrives(r)
         \/ SyncUnavailable(r) /\ req[r].kind # "me"
         \/ Call(r) \/ CallArrives(r) \/ Check(r)
  PROVE  Keeps(r)
<1>1. BffStep(r) /\ req[r].pc \in {"syncing", "running", "calling"}
  BY DEF BffStep, SyncArrives, SyncUnavailable, Call, CallArrives, Check
<1>2. /\ WellTyped /\ WellTyped' /\ IdentInv /\ Evolves /\ ReqInv(r)
      /\ UNCHANGED <<now, ident, rows, issued>>
      /\ req \in [Requests -> Request] /\ req[r] \in Request
      /\ now \in Nat /\ req[r].at \in Nat /\ issued' >= issued
  <2>1. UNCHANGED <<rows, issued>>
    BY DEF SyncArrives, SyncUnavailable, Call, CallArrives, Check
  <2>2. QED
    BY <1>1, <2>1, BffBasics, Types
<1>3. /\ req'[r].id = req[r].id /\ req'[r].cookie = req[r].cookie
      /\ req'[r].at \in {req[r].at, now, 0}
      /\ req'[r].pc \in SessionPhases
  BY <1>1, <1>2
  DEF SyncArrives, SyncUnavailable, Call, CallArrives, Check, Request, SessionPhases
<1>4. Asked(r)' = Asked(r) /\ HasRow(r)' = HasRow(r) /\ RowCookie(r)' = RowCookie(r)
  BY <1>2, <1>3 DEF Asked, HasRow, RowCookie
<1>5. SessionInv(r)'
  <2>1. req'[r].at \in Nat /\ (req'[r].at <= now' \/ req'[r].at = req[r].at)
    BY <1>2, <1>3
  <2>2. RowStays(r)
    BY <1>2 DEF RowStays, HasRow, RowCookie
  <2>3. req[r].pc \in SessionPhases
    BY <1>1 DEF SessionPhases
  <2>4. QED
    BY <1>2, <1>3, <2>1, <2>2, <2>3, SessionKept DEF ReqInv
<1>6. CASE SyncArrives(r)
  <2>1. /\ req'[r].pc = "persisting" /\ req'[r].answer = req[r].answer /\ req'[r].at = req[r].at
        /\ req[r].pc = "syncing" /\ req[r].answer.kind = "ok"
    BY <1>2, <1>6 DEF SyncArrives, Request
  <2>2. Fresh(r)' <=> Fresh(r)
    BY <1>4, <2>1 DEF Fresh
  <2>3. FreshInv(r)'
    BY <1>2, <1>4, <2>1, <2>2 DEF ReqInv, FreshInv, Usable, Heir, Revoked
  <2>4. SyncInv(r)'
    BY <1>2, <1>4, <2>1, <2>2 DEF ReqInv, SyncInv, Usable, LiveSince, Revoked
  <2>5. QED
    BY <1>3, <1>5, <2>1, <2>2, <2>3, <2>4
    DEF Keeps, ReqInv, AnswerInv, EstablishInv, EndInv, TrustInv
<1>7. CASE SyncUnavailable(r) /\ req[r].kind # "me"
  <2>1. req'[r].pc = "running" /\ req'[r].answer = NoAnswer /\ req'[r].unsynced
    BY <1>2, <1>7 DEF SyncUnavailable, Request
  <2>2. QED
    BY <1>5, <2>1, UnansweredKeeps DEF NoAnswer, TrustInv
<1>8. CASE Call(r)
  <2>1. /\ req'[r].pc = "calling" /\ req'[r].answer = req[r].answer /\ req[r].pc = "running"
    BY <1>2, <1>8 DEF Call, Request
  <2>2. req[r].answer.kind = "none"
    BY <1>2, <2>1 DEF ReqInv, AnswerInv, Calls, GetSession
  <2>3. QED
    BY <1>5, <2>1, <2>2, UnansweredKeeps DEF TrustInv
<1>9. CASE CallArrives(r)
  <2>1. /\ req'[r].pc = "storing" /\ req'[r].answer = req[r].answer
        /\ req[r].pc = "calling" /\ req[r].answer.kind = "ok"
    BY <1>2, <1>9 DEF CallArrives, Request
  <2>2. Fresh(r)' <=> Fresh(r)
    BY <1>4, <2>1 DEF Fresh
  <2>3. FreshInv(r)'
    BY <1>2, <1>4, <2>1, <2>2 DEF ReqInv, FreshInv, Usable, Heir, Revoked
  <2>4. QED
    BY <1>3, <1>5, <2>1, <2>2, <2>3
    DEF Keeps, ReqInv, AnswerInv, SyncInv, EstablishInv, EndInv, TrustInv
<1>10. CASE Check(r)
  <2>1. req'[r].pc = "checking" /\ req'[r].answer = NoAnswer
    BY <1>2, <1>10 DEF Check, Request
  <2>2. QED
    BY <1>5, <2>1, UnansweredKeeps DEF NoAnswer, TrustInv
<1>11. QED
  BY <1>6, <1>7, <1>8, <1>9, <1>10

\* A session that is being established was alive not longer ago than its steps take.
LEMMA EstablishKeeps ==
  ASSUME SafetyInv, NEW r \in Requests, Establish(r) \/ EstablishArrives(r) PROVE Keeps(r)
<1>1. BffStep(r)
  BY DEF BffStep
<1>2. /\ WellTyped /\ ReqInv(r) /\ UNCHANGED <<now, ident>>
      /\ req \in [Requests -> Request] /\ req[r] \in Request
      /\ now \in Nat /\ req[r].at \in Nat /\ UpstreamTimeout \in Nat /\ StoreDelay \in Nat
  BY <1>1, BffBasics, Types
<1>3. CASE Establish(r)
  <2>1. req'[r].pc = "establishing" /\ req'[r].answer = NoAnswer /\ req'[r].at = now
    BY <1>2, <1>3 DEF Establish, Request
  <2>2. now <= now /\ now <= now + UpstreamTimeout
    BY <1>2
  <2>3. QED
    BY <1>2, <2>1, <2>2
    DEF Keeps, ReqInv, SessionInv, AnswerInv, FreshInv, Fresh, SyncInv, EstablishInv, EndInv,
        TrustInv, NoAnswer, SessionPhases
<1>4. CASE EstablishArrives(r)
  <2>1. /\ req'[r].pc = "creating" /\ req'[r].answer = req[r].answer /\ req'[r].at = now
        /\ req[r].pc = "establishing" /\ req[r].answer.kind = "ok"
    BY <1>2, <1>4 DEF EstablishArrives, Request
  <2>2. PICK c : c = req[r].answer.cookie
    OBVIOUS
  <2>3. /\ req[r].at <= now /\ now <= req[r].at + UpstreamTimeout
        /\ Usable(c) /\ c \in DOMAIN ident
        /\ req[r].answer.expires <= ident[c].expires /\ LiveSince(c, req[r].at)
    BY <1>2, <2>1, <2>2 DEF ReqInv, EstablishInv, Usable
  <2>4. now - UpstreamTimeout \in Int /\ now - UpstreamTimeout <= req[r].at /\ req[r].at \in Int
    BY <1>2, <2>3
  <2>5. LiveSince(c, now - UpstreamTimeout)
    BY <1>2, <2>3, <2>4, LiveBefore
  <2>6. now <= now /\ now <= now + StoreDelay
    BY <1>2
  <2>7. EstablishInv(r)'
    BY <1>2, <2>1, <2>2, <2>3, <2>5, <2>6 DEF EstablishInv, Usable, LiveSince
  <2>8. QED
    BY <2>1, <2>7
    DEF Keeps, ReqInv, SessionInv, AnswerInv, FreshInv, Fresh, SyncInv, EndInv,
        TrustInv, SessionPhases
<1>5. QED
  BY <1>3, <1>4

LEMMA BffKeeps ==
  ASSUME SafetyInv, NEW r \in Requests, BffStep(r) PROVE Keeps(r)
<1>1. /\ ReqInv(r) /\ req \in [Requests -> Request] /\ req[r] \in Request
  BY BffBasics
<1>2. ASSUME req'[r].pc \in {"done", "idle"}, req'[r].answer = NoAnswer PROVE Keeps(r)
  BY <1>2, QuietKeeps DEF SessionPhases, NoAnswer
<1>3. ASSUME NEW s, Reply(r, s) PROVE Keeps(r)
  BY <1>1, <1>2, <1>3 DEF Reply, FreeSlot
<1>4. CASE FindChallenge(r)
  <2>1. CASE Unexpired(challenges, req[r].id)
    <3>1. req'[r].pc = "verifying" /\ req'[r].answer = req[r].answer /\ req[r].pc = "finding"
      BY <1>1, <1>4, <2>1 DEF FindChallenge, Request
    <3>2. req[r].answer.kind = "none"
      BY <1>1, <3>1 DEF ReqInv, AnswerInv, Calls, GetSession
    <3>3. QED
      BY <3>1, <3>2, QuietKeeps DEF SessionPhases
  <2>2. CASE ~Unexpired(challenges, req[r].id)
    BY <1>1, <1>2, <1>4, <2>2 DEF FindChallenge, FreeSlot
  <2>3. QED
    BY <2>1, <2>2
<1>5. CASE StartSecondFactor(r)
  BY <1>1, <1>2, <1>5 DEF StartSecondFactor, FreeSlot
<1>6. CASE \E arrives \in BOOLEAN : Receive(r, arrives)
  BY <1>1, <1>2, <1>6 DEF Receive, FreeSlot
<1>7. CASE MarkSynced(r)
  <2>1. CASE req[r].kind = "me"
    BY <1>3, <1>7, <2>1 DEF MarkSynced
  <2>2. QED
    BY <1>7, <2>1, MarkKeeps
<1>8. CASE SyncUnavailable(r)
  <2>1. CASE req[r].kind = "me"
    BY <1>3, <1>8, <2>1 DEF SyncUnavailable
  <2>2. QED
    BY <1>8, <2>1, BetweenKeeps
<1>9. CASE TurnAway(r) \/ EndSession(r) \/ ServeAlone(r) \/ PersistCalled(r) \/ CallFails(r)
           \/ PassRefusal(r) \/ AuthenticationFails(r) \/ CreateSession(r)
           \/ DeleteForLogout(r) \/ StoreThrows(r)
  <2>1. \E s : Reply(r, s)
    BY <1>9 DEF TurnAway, EndSession, ServeAlone, PersistCalled, CallFails, PassRefusal,
                AuthenticationFails, CreateSession, DeleteForLogout, StoreThrows
  <2>2. QED
    BY <2>1, <1>3
<1>10. QED
  BY <1>4, <1>5, <1>6, <1>7, <1>8, <1>9, AdmitKeeps, PersistKeeps, BetweenKeeps, EstablishKeeps
  DEF BffStep

-----------------------------------------------------------------------------
(* The invariant is inductive.                                             *)

\* An id in a cookie or a request is one that was given out.
LEMMA BffIssued ==
  ASSUME SafetyInv, NEW r \in Requests, BffStep(r) PROVE IssuedInv'
<1>1. /\ req \in [Requests -> Request] /\ req[r] \in Request
      /\ \A q \in Requests : q # r => req'[q] = req[q]
      /\ issued \in Nat /\ issued' \in Nat /\ issued' >= issued /\ IssuedInv
      /\ \A q \in Requests : req[q].id \in Nat /\ req[q].setSession \in Int
                                               /\ req[q].setLogin \in Int
      /\ browser.session \in Nat /\ browser.login \in Nat
  <2>1. WellTyped
    BY BffBasics
  <2>2. \A q \in Requests : req[q].id \in Nat /\ req[q].setSession \in Int /\ req[q].setLogin \in Int
    BY <2>1 DEF WellTyped, Request, Keep
  <2>3. issued \in Nat /\ browser.session \in Nat /\ browser.login \in Nat
    BY <2>1 DEF WellTyped
  <2>4. QED
    BY <2>2, <2>3, BffBasics DEF SafetyInv
<1> DEFINE Good == req'[r].id <= issued' /\ req'[r].setSession <= issued'
                                         /\ req'[r].setLogin <= issued'
<1>2. /\ req[r].id <= issued' /\ req[r].setSession <= issued' /\ req[r].setLogin <= issued'
      /\ None <= issued' /\ Keep <= issued' /\ issued' <= issued'
      /\ browser.session <= issued' /\ browser.login <= issued'
  BY <1>1 DEF IssuedInv, None, Keep
<1>3. ASSUME NEW s \in {req[r].id, req[r].setSession, None, Keep, issued'}, Reply(r, s) PROVE Good
  <2>1. /\ req'[r].id = None /\ req'[r].setSession = s /\ req'[r].setLogin = req[r].setLogin
    BY <1>1, <1>3 DEF Reply, FreeSlot
  <2>2. QED
    BY <1>2, <2>1
<1>4. CASE MarkSynced(r) \/ SyncUnavailable(r)
  <2>1. ASSUME req[r].kind = "me" PROVE Good
    BY <1>3, <1>4, <2>1 DEF MarkSynced, SyncUnavailable
  <2>2. ASSUME req[r].kind # "me" PROVE Good
    <3>1. /\ req'[r].id = req[r].id /\ req'[r].setLogin = req[r].setLogin
          /\ req'[r].setSession \in {req[r].id, req[r].setSession}
      BY <1>1, <1>4, <2>2 DEF MarkSynced, SyncUnavailable, Request
    <3>2. QED
      BY <1>2, <3>1
  <2>3. browser' = browser
    BY <1>4 DEF MarkSynced, SyncUnavailable
  <2>4. QED
    BY <1>1, <1>2, <2>1, <2>2, <2>3 DEF IssuedInv
<1>5. CASE Admit(r) \/ SyncArrives(r) \/ PersistSynced(r) \/ Call(r) \/ CallArrives(r) \/ Check(r)
           \/ EstablishArrives(r)
  <2>1. /\ req'[r].id = req[r].id /\ req'[r].setLogin = req[r].setLogin
        /\ req'[r].setSession = req[r].setSession /\ browser' = browser
    BY <1>1, <1>5 DEF Admit, SyncArrives, PersistSynced, Call, CallArrives, Check,
                      EstablishArrives, Request
  <2>2. QED
    BY <1>1, <1>2, <2>1 DEF IssuedInv
<1>6. CASE Establish(r)
  <2>1. /\ req'[r].id = req[r].id /\ req'[r].setLogin \in {None, Keep}
        /\ req'[r].setSession = req[r].setSession /\ browser' = browser
    BY <1>1, <1>6 DEF Establish, Request
  <2>2. QED
    BY <1>1, <1>2, <2>1 DEF IssuedInv
<1>7. CASE FindChallenge(r)
  <2>1. CASE Unexpired(challenges, req[r].id)
    <3>1. /\ req'[r].id = req[r].id /\ req'[r].setLogin = req[r].setLogin
          /\ req'[r].setSession = req[r].setSession /\ browser' = browser
      BY <1>1, <1>7, <2>1 DEF FindChallenge, Request
    <3>2. QED
      BY <1>1, <1>2, <3>1 DEF IssuedInv
  <2>2. CASE ~Unexpired(challenges, req[r].id)
    <3>1. /\ req'[r].id = None /\ req'[r].setLogin = None /\ req'[r].setSession = Keep
          /\ browser' = browser
      BY <1>1, <1>7, <2>2 DEF FindChallenge, FreeSlot
    <3>2. QED
      BY <1>1, <1>2, <3>1 DEF IssuedInv
  <2>3. QED
    BY <2>1, <2>2
<1>8. CASE StartSecondFactor(r)
  <2>1. /\ req'[r].id = None /\ req'[r].setLogin = issued' /\ req'[r].setSession = Keep
        /\ browser' = browser
    BY <1>1, <1>8 DEF StartSecondFactor, FreeSlot
  <2>2. QED
    BY <1>1, <1>2, <2>1 DEF IssuedInv
<1>9. ASSUME NEW arrives \in BOOLEAN, Receive(r, arrives) PROVE IssuedInv'
  <2>1. /\ req'[r].id = None /\ req'[r].setLogin = Keep /\ req'[r].setSession = Keep
    BY <1>1, <1>9 DEF Receive, FreeSlot
  <2>2. /\ browser'.session \in {browser.session, req[r].setSession}
        /\ browser'.login \in {browser.login, req[r].setLogin}
    BY <1>9 DEF Receive
  <2>3. QED
    BY <1>1, <1>2, <2>1, <2>2 DEF IssuedInv
<1>10. CASE TurnAway(r) \/ EndSession(r) \/ ServeAlone(r) \/ PersistCalled(r) \/ CallFails(r)
            \/ PassRefusal(r) \/ AuthenticationFails(r) \/ CreateSession(r)
            \/ DeleteForLogout(r) \/ StoreThrows(r)
  <2>1. \E s \in {req[r].id, req[r].setSession, None, Keep, issued'} : Reply(r, s)
    BY <1>10 DEF TurnAway, EndSession, ServeAlone, PersistCalled, CallFails, PassRefusal,
                 AuthenticationFails, CreateSession, DeleteForLogout, StoreThrows
  <2>2. browser' = browser
    BY <1>10 DEF TurnAway, EndSession, ServeAlone, PersistCalled, CallFails, PassRefusal,
                 AuthenticationFails, CreateSession, DeleteForLogout, StoreThrows
  <2>3. Good
    BY <2>1, <1>3
  <2>4. QED
    BY <1>1, <1>2, <2>2, <2>3 DEF IssuedInv
<1>11. QED
  BY <1>4, <1>5, <1>6, <1>7, <1>8, <1>9, <1>10 DEF BffStep

LEMMA BffSafety ==
  ASSUME SafetyInv, NEW r \in Requests, BffStep(r) PROVE SafetyInv'
<1>1. /\ TypedInv' /\ Evolves /\ IdentInv' /\ issued' >= issued /\ IssuedInv'
      /\ \A q \in Requests : q # r => req'[q] = req[q]
  BY BffBasics, BffIssued
<1>2. /\ \A id \in DOMAIN rows' : RowInv(id)' /\ (id <= issued => id \in DOMAIN rows)
      /\ \A q \in Requests : q # r => ReqInv(q)' /\ (HasRow(q)' => HasRow(q))
  BY BffRows
<1>3. ReqInv(r)' /\ (Fresh(r)' => Fresh(r) /\ req'[r].id = req[r].id)
  BY BffKeeps DEF Keeps
<1>4. ASSUME req'[r].id = req[r].id, HasRow(r)' PROVE HasRow(r)
  BY <1>2, <1>4 DEF HasRow, SafetyInv, IssuedInv
<1>5. QED
  BY <1>1, <1>2, <1>3, <1>4, Assemble

LEMMA InitSafety == Init => SafetyInv
<1> SUFFICES ASSUME Init PROVE SafetyInv
  OBVIOUS
<1>1. DOMAIN rows = {} /\ DOMAIN ident = {} /\ issued = 0
      /\ browser.session = 0 /\ browser.login = 0
      /\ \A r \in Requests : req[r] = FreeSlot
  BY DEF Init, None
<1>2. IdentInv
  BY <1>1 DEF IdentInv
<1>3. ASSUME NEW r \in Requests PROVE ReqInv(r) /\ ~Fresh(r)
  BY <1>1 DEF ReqInv, SessionInv, AnswerInv, FreshInv, Fresh, SyncInv, EstablishInv, EndInv,
              TrustInv, SessionPhases, FreeSlot, NoAnswer
<1>4. OneFresh
  BY <1>3 DEF OneFresh
<1>5. IssuedInv
  BY <1>1 DEF IssuedInv, FreeSlot, None, Keep
<1>6. QED
  BY <1>1, <1>2, <1>3, <1>4, <1>5, InitTyped DEF SafetyInv

LEMMA NextSafety == SafetyInv /\ [Next]_vars => SafetyInv'
  BY SendSafety, IdentitySafety, FailureSafety, BffSafety, RestSafety DEF Next, CallStep

\* A row goes in the sweep, in a logout, or when identity-service said so.
LEMMA RemovalHasReason ==
  ASSUME SafetyInv, [Next]_vars, NEW id \in DOMAIN rows, Removed(id)
  PROVE  \/ Dead(id)
         \/ id \in loggedOut'
         \/ \E r \in Requests : /\ Ends(r, id)
                                /\ req[r].cut \/ Asked(r) # rows[id].cookie
<1>1. id \notin DOMAIN rows'
  BY DEF Removed
<1>2. ASSUME NEW both \in BOOLEAN, Sweep(both) PROVE Dead(id)
  <2>1. /\ rows' = Restrict(rows, {k \in DOMAIN rows : now < rows[k].expires})
    BY <1>2 DEF Sweep
  <2>2. ~(now < rows[id].expires)
    BY <2>1, <1>1 DEF Restrict
  <2>3. now \in Nat /\ rows[id].expires \in Nat
    BY Types DEF SafetyInv, TypedInv, TypeOK
  <2>4. QED
    BY <2>2, <2>3 DEF Dead
<1>3. ASSUME NEW r \in Requests, DeleteForLogout(r) PROVE id \in loggedOut'
  BY <1>1, <1>3 DEF DeleteForLogout, Restrict
<1>4. ASSUME NEW r \in Requests, EndSession(r)
      PROVE  \/ Dead(id)
             \/ Ends(r, id) /\ (req[r].cut \/ Asked(r) # rows[id].cookie)
  <2>1. id = req[r].id
    BY <1>1, <1>4 DEF EndSession, Restrict
  <2>2. req[r].pc # "done" /\ req'[r].pc = "done"
    <3>1. req \in [Requests -> Request]
      BY DEF SafetyInv, TypedInv, TypeOK, WellTyped
    <3>2. QED
      BY <3>1, <1>4 DEF EndSession, Reply, FreeSlot
  <2>3. req[r].cut \/ ~Live(Asked(r))
    BY <1>4 DEF EndSession, SafetyInv, ReqInv, EndInv, SessionPhases
  <2>4. CASE Asked(r) = rows[id].cookie
    <3>1. req[r].cut \/ ~Live(rows[id].cookie)
      BY <2>3, <2>4 DEF Live
    <3>2. CASE req[r].cut
      BY <2>1, <2>2, <3>2 DEF Ends
    <3>3. CASE ~Live(rows[id].cookie)
      BY <3>3 DEF Dead
    <3>4. QED
      BY <3>1, <3>2, <3>3
  <2>5. CASE Asked(r) # rows[id].cookie
    BY <2>1, <2>2, <2>5 DEF Ends
  <2>6. QED
    BY <2>4, <2>5
<1>5. ASSUME NEW r \in Requests, PersistSynced(r) \/ PersistCalled(r) \/ MarkSynced(r) PROVE FALSE
  <2>1. rows' = StoreCookie(r) \/ rows' = MarkedRow(r)
    BY <1>5 DEF PersistSynced, PersistCalled, MarkSynced
  <2>2. DOMAIN rows' = DOMAIN rows
    BY <2>1 DEF StoreCookie, MarkedRow
  <2>3. QED
    BY <1>1, <2>2
<1>6. ASSUME NEW r \in Requests, CreateSession(r) PROVE FALSE
  <2>1. rows' = WithEntry(rows, issued', [cookie  |-> req[r].answer.cookie,
                                          expires |-> req[r].answer.expires, synced  |-> now])
    BY <1>6 DEF CreateSession
  <2>2. id \in DOMAIN rows'
    BY <2>1 DEF WithEntry
  <2>3. QED
    BY <1>1, <2>2
<1>7. rows' # rows
  BY <1>1
<1>8. ASSUME NEW r \in Requests, BffStep(r)
      PROVE  \/ Dead(id)
             \/ id \in loggedOut'
             \/ Ends(r, id) /\ (req[r].cut \/ Asked(r) # rows[id].cookie)
  BY <1>3, <1>4, <1>5, <1>6, <1>7, <1>8
  DEF BffStep, Admit, TurnAway, FindChallenge, SyncArrives, SyncUnavailable,
    ServeAlone, Call, CallArrives, CallFails, Check, PassRefusal, AuthenticationFails,
    StartSecondFactor, Establish, EstablishArrives, StoreThrows, Receive
<1>9. QED
  BY <1>2, <1>7, <1>8
  DEF Next, CallStep, Send, IdentityAnswers, UpstreamFails, BodyCutOff, Revoke, Restart, Tick, vars

-----------------------------------------------------------------------------
(* The theorems.                                                           *)

LEMMA SpecSafety == Spec => []SafetyInv
  BY InitSafety, NextSafety, PTL DEF Spec

\* However many requests overlap, and whatever they write: unless
\* identity-service could not be reached, a request only gets to its handler
\* with an identity session that was alive less than MaxTrust ago.
THEOREM SpecRevokedIsCutOff == Spec => []RevokedIsCutOff
<1>1. SafetyInv => RevokedIsCutOff
  BY DEF SafetyInv, ReqInv, TrustInv, RevokedIsCutOff
<1>2. QED
  BY <1>1, SpecSafety, PTL

\* In whatever order syncs and rotations are written, no row says of a session
\* that it lives longer than identity-service granted it.
THEOREM SpecNeverOutlives == Spec => []NeverOutlives
<1>1. SafetyInv => NeverOutlives
  BY DEF SafetyInv, RowInv, NeverOutlives
<1>2. QED
  BY <1>1, SpecSafety, PTL

\* A row only goes for a logout, because its identity session is over, or for
\* one of the two exceptions the code has: a cut-off answer, a rotated cookie.
THEOREM SpecEndedForAReason == Spec => EndedForAReason
<1>1. SafetyInv /\ [Next]_vars =>
        [\A id \in DOMAIN rows : Removed(id) =>
           \/ Dead(id)
           \/ id \in loggedOut'
           \/ \E r \in Requests : /\ Ends(r, id)
                                  /\ req[r].cut \/ Asked(r) # rows[id].cookie]_vars
  BY RemovalHasReason
<1>2. QED
  BY <1>1, SpecSafety, PTL DEF Spec, EndedForAReason

=============================================================================
