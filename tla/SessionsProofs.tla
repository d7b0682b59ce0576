---------------------------- MODULE SessionsProofs -----------------------------
(***************************************************************************)
(* Proofs about Sessions, for any number of sessions and requests.         *)
(***************************************************************************)
EXTENDS Sessions, TLAPS

\* The inductive invariant: the types, what is known of requests on their way,
\* and the safety properties themselves.
Sound == SInv /\ ServedWhileActive /\ ForgottenForCause /\ LoggedOutForGood

LEMMA InitSound == Init => Sound
BY DEF Init, Sound, SInv, TypeOK, OnTheWay, Accounts, Cause, ServedWhileActive,
       ForgottenForCause, LoggedOutForGood, Handle, Pending, Kind, Ended, Refused,
       Honoured, Usable

LEMMA CheckOperatorSound ==
    ASSUME Sound, NEW s \in Session, CheckOperator(s)
    PROVE  Sound'
<1>. USE HandleAssumption DEF Handle, Kind, Pending, Refused, Ended, sessionVars, ghostVars
<1>1. TypeOK'
  BY DEF Sound, SInv, TypeOK, CheckOperator, Goto
<1>2. OnTheWay'
  BY SMTT(30) DEF Sound, SInv, TypeOK, OnTheWay, Accounts, Cause, CheckOperator, Goto, Honoured, Usable
<1>3. Accounts'
  BY SMTT(30) DEF Sound, SInv, TypeOK, OnTheWay, Accounts, CheckOperator, Goto
<1>4. ServedWhileActive'
  BY SMTT(30) DEF Sound, SInv, TypeOK, ServedWhileActive, Accounts, CheckOperator, Goto
<1>5. ForgottenForCause'
  BY SMTT(30) DEF Sound, SInv, TypeOK, OnTheWay, ForgottenForCause, Accounts, Cause, CheckOperator, Goto
<1>6. LoggedOutForGood'
  BY SMTT(30) DEF Sound, SInv, TypeOK, OnTheWay, LoggedOutForGood, Accounts, CheckOperator, Goto
<1>. QED  BY <1>1, <1>2, <1>3, <1>4, <1>5, <1>6 DEF Sound, SInv

LEMMA IssueSessionHandleSound ==
    ASSUME Sound, NEW s \in Session, IssueSessionHandle(s)
    PROVE  Sound'
<1>. USE HandleAssumption DEF Handle, Kind, Pending, Refused, Ended, sessionVars, ghostVars
<1>1. TypeOK'
  BY DEF Sound, SInv, TypeOK, IssueSessionHandle, Goto
<1>2. OnTheWay'
  BY SMTT(30) DEF Sound, SInv, TypeOK, OnTheWay, Accounts, Cause, IssueSessionHandle, Goto, Honoured, Usable
<1>3. Accounts'
  BY SMTT(30) DEF Sound, SInv, TypeOK, OnTheWay, Accounts, IssueSessionHandle, Goto
<1>4. ServedWhileActive'
  BY SMTT(30) DEF Sound, SInv, TypeOK, ServedWhileActive, Accounts, IssueSessionHandle, Goto
<1>5. ForgottenForCause'
  BY SMTT(30) DEF Sound, SInv, TypeOK, OnTheWay, ForgottenForCause, Accounts, Cause, IssueSessionHandle, Goto
<1>6. LoggedOutForGood'
  BY SMTT(30) DEF Sound, SInv, TypeOK, OnTheWay, LoggedOutForGood, Accounts, IssueSessionHandle, Goto
<1>. QED  BY <1>1, <1>2, <1>3, <1>4, <1>5, <1>6 DEF Sound, SInv

LEMMA StoreSessionSound ==
    ASSUME Sound, NEW s \in Session, StoreSession(s)
    PROVE  Sound'
<1>. USE HandleAssumption DEF Handle, Kind, Pending, Refused, Ended, sessionVars, ghostVars
<1>1. TypeOK'
  BY DEF Sound, SInv, TypeOK, StoreSession, Goto
<1>2. OnTheWay'
  BY SMTT(30) DEF Sound, SInv, TypeOK, OnTheWay, Accounts, Cause, StoreSession, Goto, Honoured, Usable
<1>3. Accounts'
  BY SMTT(30) DEF Sound, SInv, TypeOK, OnTheWay, Accounts, StoreSession, Goto
<1>4. ServedWhileActive'
  BY SMTT(30) DEF Sound, SInv, TypeOK, ServedWhileActive, Accounts, StoreSession, Goto
<1>5. ForgottenForCause'
  BY SMTT(30) DEF Sound, SInv, TypeOK, OnTheWay, ForgottenForCause, Accounts, Cause, StoreSession, Goto
<1>6. LoggedOutForGood'
  BY SMTT(30) DEF Sound, SInv, TypeOK, OnTheWay, LoggedOutForGood, Accounts, StoreSession, Goto
<1>. QED  BY <1>1, <1>2, <1>3, <1>4, <1>5, <1>6 DEF Sound, SInv

LEMMA SessionExpiresSound ==
    ASSUME Sound, NEW s \in Session, SessionExpires(s)
    PROVE  Sound'
<1>. USE HandleAssumption DEF Handle, Kind, Pending, Refused, Ended, sessionVars, ghostVars
<1>1. TypeOK'
  BY DEF Sound, SInv, TypeOK, SessionExpires, Goto
<1>2. OnTheWay'
  BY SMTT(30) DEF Sound, SInv, TypeOK, OnTheWay, Accounts, Cause, SessionExpires, Goto, Honoured, Usable
<1>3. Accounts'
  BY SMTT(30) DEF Sound, SInv, TypeOK, OnTheWay, Accounts, SessionExpires, Goto
<1>4. ServedWhileActive'
  BY SMTT(30) DEF Sound, SInv, TypeOK, ServedWhileActive, Accounts, SessionExpires, Goto
<1>5. ForgottenForCause'
  BY SMTT(30) DEF Sound, SInv, TypeOK, OnTheWay, ForgottenForCause, Accounts, Cause, SessionExpires, Goto
<1>6. LoggedOutForGood'
  BY SMTT(30) DEF Sound, SInv, TypeOK, OnTheWay, LoggedOutForGood, Accounts, SessionExpires, Goto
<1>. QED  BY <1>1, <1>2, <1>3, <1>4, <1>5, <1>6 DEF Sound, SInv

LEMMA ArriveSound ==
    ASSUME Sound, NEW r \in Request, Arrive(r)
    PROVE  Sound'
<1>. USE HandleAssumption DEF Handle, Kind, Pending, Refused, Ended, sessionVars, ghostVars
<1>1. TypeOK'
  BY DEF Sound, SInv, TypeOK, Arrive, Goto, Honoured, Usable
<1>2. OnTheWay'
  BY SMTT(30) DEF Sound, SInv, TypeOK, OnTheWay, Accounts, Cause, Arrive, Goto, Honoured, Usable
<1>3. Accounts'
  BY SMTT(30) DEF Sound, SInv, TypeOK, OnTheWay, Accounts, Arrive, Goto
<1>4. ServedWhileActive'
  BY SMTT(30) DEF Sound, SInv, TypeOK, ServedWhileActive, Accounts, Arrive, Goto
<1>5. ForgottenForCause'
  BY SMTT(30) DEF Sound, SInv, TypeOK, OnTheWay, ForgottenForCause, Accounts, Cause, Arrive, Goto
<1>6. LoggedOutForGood'
  BY SMTT(30) DEF Sound, SInv, TypeOK, OnTheWay, LoggedOutForGood, Accounts, Arrive, Goto
<1>. QED  BY <1>1, <1>2, <1>3, <1>4, <1>5, <1>6 DEF Sound, SInv

LEMMA LookupSound ==
    ASSUME Sound, NEW r \in Request, Lookup(r)
    PROVE  Sound'
<1>. USE HandleAssumption DEF Handle, Kind, Pending, Refused, Ended, sessionVars, ghostVars
<1>1. TypeOK'
  BY DEF Sound, SInv, TypeOK, Lookup, Goto
<1>2. OnTheWay'
  BY SMTT(30) DEF Sound, SInv, TypeOK, OnTheWay, Accounts, Cause, Lookup, Goto, Honoured, Usable
<1>3. Accounts'
  BY SMTT(30) DEF Sound, SInv, TypeOK, OnTheWay, Accounts, Lookup, Goto
<1>4. ServedWhileActive'
  BY SMTT(30) DEF Sound, SInv, TypeOK, ServedWhileActive, Accounts, Lookup, Goto
<1>5. ForgottenForCause'
  BY SMTT(30) DEF Sound, SInv, TypeOK, OnTheWay, ForgottenForCause, Accounts, Cause, Lookup, Goto
<1>6. LoggedOutForGood'
  BY SMTT(30) DEF Sound, SInv, TypeOK, OnTheWay, LoggedOutForGood, Accounts, Lookup, Goto
<1>. QED  BY <1>1, <1>2, <1>3, <1>4, <1>5, <1>6 DEF Sound, SInv

LEMMA CheckExpirySound ==
    ASSUME Sound, NEW r \in Request, CheckExpiry(r)
    PROVE  Sound'
<1>. USE HandleAssumption DEF Handle, Kind, Pending, Refused, Ended, sessionVars, ghostVars
<1>1. TypeOK'
  BY DEF Sound, SInv, TypeOK, CheckExpiry, Goto
<1>2. OnTheWay'
  BY SMTT(30) DEF Sound, SInv, TypeOK, OnTheWay, Accounts, Cause, CheckExpiry, Goto, Honoured, Usable
<1>3. Accounts'
  BY SMTT(30) DEF Sound, SInv, TypeOK, OnTheWay, Accounts, CheckExpiry, Goto
<1>4. ServedWhileActive'
  BY SMTT(30) DEF Sound, SInv, TypeOK, ServedWhileActive, Accounts, CheckExpiry, Goto
<1>5. ForgottenForCause'
  BY SMTT(30) DEF Sound, SInv, TypeOK, OnTheWay, ForgottenForCause, Accounts, Cause, CheckExpiry, Goto
<1>6. LoggedOutForGood'
  BY SMTT(30) DEF Sound, SInv, TypeOK, OnTheWay, LoggedOutForGood, Accounts, CheckExpiry, Goto
<1>. QED  BY <1>1, <1>2, <1>3, <1>4, <1>5, <1>6 DEF Sound, SInv

LEMMA ResolveSessionSound ==
    ASSUME Sound, NEW r \in Request, ResolveSession(r)
    PROVE  Sound'
<1>. USE HandleAssumption DEF Handle, Kind, Pending, Refused, Ended, sessionVars, ghostVars
<1>1. TypeOK'
  BY DEF Sound, SInv, TypeOK, ResolveSession, Goto
<1>2. OnTheWay'
  BY SMTT(30) DEF Sound, SInv, TypeOK, OnTheWay, Accounts, Cause, ResolveSession, Goto, Honoured, Usable
<1>3. Accounts'
  BY SMTT(30) DEF Sound, SInv, TypeOK, OnTheWay, Accounts, ResolveSession, Goto
<1>4. ServedWhileActive'
  BY SMTT(30) DEF Sound, SInv, TypeOK, ServedWhileActive, Accounts, ResolveSession, Goto
<1>5. ForgottenForCause'
  BY SMTT(30) DEF Sound, SInv, TypeOK, OnTheWay, ForgottenForCause, Accounts, Cause, ResolveSession, Goto
<1>6. LoggedOutForGood'
  BY SMTT(30) DEF Sound, SInv, TypeOK, OnTheWay, LoggedOutForGood, Accounts, ResolveSession, Goto
<1>. QED  BY <1>1, <1>2, <1>3, <1>4, <1>5, <1>6 DEF Sound, SInv

LEMMA MarkExpiredSound ==
    ASSUME Sound, NEW r \in Request, MarkExpired(r)
    PROVE  Sound'
<1>. USE HandleAssumption DEF Handle, Kind, Pending, Refused, Ended, sessionVars, ghostVars
<1>1. TypeOK'
  BY DEF Sound, SInv, TypeOK, MarkExpired, Goto
<1>2. OnTheWay'
  BY SMTT(30) DEF Sound, SInv, TypeOK, OnTheWay, Accounts, Cause, MarkExpired, Goto, Honoured, Usable
<1>3. Accounts'
  BY SMTT(30) DEF Sound, SInv, TypeOK, OnTheWay, Accounts, MarkExpired, Goto
<1>4. ServedWhileActive'
  BY SMTT(30) DEF Sound, SInv, TypeOK, ServedWhileActive, Accounts, MarkExpired, Goto
<1>5. ForgottenForCause'
  BY SMTT(30) DEF Sound, SInv, TypeOK, OnTheWay, ForgottenForCause, Accounts, Cause, MarkExpired, Goto
<1>6. LoggedOutForGood'
  BY SMTT(30) DEF Sound, SInv, TypeOK, OnTheWay, LoggedOutForGood, Accounts, MarkExpired, Goto
<1>. QED  BY <1>1, <1>2, <1>3, <1>4, <1>5, <1>6 DEF Sound, SInv

LEMMA ResolvePrincipalSound ==
    ASSUME Sound, NEW r \in Request, ResolvePrincipal(r)
    PROVE  Sound'
<1>. USE HandleAssumption DEF Handle, Kind, Pending, Refused, Ended, sessionVars, ghostVars
<1>1. TypeOK'
  BY DEF Sound, SInv, TypeOK, ResolvePrincipal, Goto
<1>2. OnTheWay'
  BY SMTT(30) DEF Sound, SInv, TypeOK, OnTheWay, Accounts, Cause, ResolvePrincipal, Goto, Honoured, Usable
<1>3. Accounts'
  BY SMTT(30) DEF Sound, SInv, TypeOK, OnTheWay, Accounts, ResolvePrincipal, Goto
<1>4. ServedWhileActive'
  BY SMTT(30) DEF Sound, SInv, TypeOK, ServedWhileActive, Accounts, ResolvePrincipal, Goto
<1>5. ForgottenForCause'
  BY SMTT(30) DEF Sound, SInv, TypeOK, OnTheWay, ForgottenForCause, Accounts, Cause, ResolvePrincipal, Goto
<1>6. LoggedOutForGood'
  BY SMTT(30) DEF Sound, SInv, TypeOK, OnTheWay, LoggedOutForGood, Accounts, ResolvePrincipal, Goto
<1>. QED  BY <1>1, <1>2, <1>3, <1>4, <1>5, <1>6 DEF Sound, SInv

LEMMA DiscardSound ==
    ASSUME Sound, NEW r \in Request, Discard(r)
    PROVE  Sound'
<1>. USE HandleAssumption DEF Handle, Kind, Pending, Refused, Ended, sessionVars, ghostVars
<1>1. TypeOK'
  BY DEF Sound, SInv, TypeOK, Discard, Goto
<1>2. OnTheWay'
  BY SMTT(30) DEF Sound, SInv, TypeOK, OnTheWay, Accounts, Cause, Discard, Goto, Honoured, Usable
<1>3. Accounts'
  BY SMTT(30) DEF Sound, SInv, TypeOK, OnTheWay, Accounts, Discard, Goto
<1>4. ServedWhileActive'
  BY SMTT(30) DEF Sound, SInv, TypeOK, ServedWhileActive, Accounts, Discard, Goto
<1>5. ForgottenForCause'
  BY SMTT(30) DEF Sound, SInv, TypeOK, OnTheWay, ForgottenForCause, Accounts, Cause, Discard, Goto
<1>6. LoggedOutForGood'
  BY SMTT(30) DEF Sound, SInv, TypeOK, OnTheWay, LoggedOutForGood, Accounts, Discard, Goto
<1>. QED  BY <1>1, <1>2, <1>3, <1>4, <1>5, <1>6 DEF Sound, SInv

LEMMA IssueOwnSound ==
    ASSUME Sound, NEW r \in Request, IssueOwn(r)
    PROVE  Sound'
<1>. USE HandleAssumption DEF Handle, Kind, Pending, Refused, Ended, sessionVars, ghostVars
<1>1. TypeOK'
  BY DEF Sound, SInv, TypeOK, IssueOwn, Goto
<1>2. OnTheWay'
  BY SMTT(30) DEF Sound, SInv, TypeOK, OnTheWay, Accounts, Cause, IssueOwn, Goto, Honoured, Usable
<1>3. Accounts'
  BY SMTT(30) DEF Sound, SInv, TypeOK, OnTheWay, Accounts, IssueOwn, Goto
<1>4. ServedWhileActive'
  BY SMTT(30) DEF Sound, SInv, TypeOK, ServedWhileActive, Accounts, IssueOwn, Goto
<1>5. ForgottenForCause'
  BY SMTT(30) DEF Sound, SInv, TypeOK, OnTheWay, ForgottenForCause, Accounts, Cause, IssueOwn, Goto
<1>6. LoggedOutForGood'
  BY SMTT(30) DEF Sound, SInv, TypeOK, OnTheWay, LoggedOutForGood, Accounts, IssueOwn, Goto
<1>. QED  BY <1>1, <1>2, <1>3, <1>4, <1>5, <1>6 DEF Sound, SInv

LEMMA DecideSound ==
    ASSUME Sound, NEW r \in Request, Decide(r)
    PROVE  Sound'
<1>. USE HandleAssumption DEF Handle, Kind, Pending, Refused, Ended, sessionVars, ghostVars
<1>1. TypeOK'
  BY DEF Sound, SInv, TypeOK, Decide, Goto
<1>2. OnTheWay'
  BY SMTT(30) DEF Sound, SInv, TypeOK, OnTheWay, Accounts, Cause, Decide, Goto, Honoured, Usable
<1>3. Accounts'
  BY SMTT(30) DEF Sound, SInv, TypeOK, OnTheWay, Accounts, Decide, Goto
<1>4. ServedWhileActive'
  BY SMTT(30) DEF Sound, SInv, TypeOK, ServedWhileActive, Accounts, Decide, Goto
<1>5. ForgottenForCause'
  BY SMTT(30) DEF Sound, SInv, TypeOK, OnTheWay, ForgottenForCause, Accounts, Cause, Decide, Goto
<1>6. LoggedOutForGood'
  BY SMTT(30) DEF Sound, SInv, TypeOK, OnTheWay, LoggedOutForGood, Accounts, Decide, Goto
<1>. QED  BY <1>1, <1>2, <1>3, <1>4, <1>5, <1>6 DEF Sound, SInv

LEMMA PluginResolveSound ==
    ASSUME Sound, NEW r \in Request, PluginResolve(r)
    PROVE  Sound'
<1>. USE HandleAssumption DEF Handle, Kind, Pending, Refused, Ended, sessionVars, ghostVars
<1>1. TypeOK'
  BY DEF Sound, SInv, TypeOK, PluginResolve, Goto
<1>2. OnTheWay'
  BY SMTT(30) DEF Sound, SInv, TypeOK, OnTheWay, Accounts, Cause, PluginResolve, Goto, Honoured, Usable
<1>3. Accounts'
  BY SMTT(30) DEF Sound, SInv, TypeOK, OnTheWay, Accounts, PluginResolve, Goto
<1>4. ServedWhileActive'
  BY SMTT(30) DEF Sound, SInv, TypeOK, ServedWhileActive, Accounts, PluginResolve, Goto
<1>5. ForgottenForCause'
  BY SMTT(30) DEF Sound, SInv, TypeOK, OnTheWay, ForgottenForCause, Accounts, Cause, PluginResolve, Goto
<1>6. LoggedOutForGood'
  BY SMTT(30) DEF Sound, SInv, TypeOK, OnTheWay, LoggedOutForGood, Accounts, PluginResolve, Goto
<1>. QED  BY <1>1, <1>2, <1>3, <1>4, <1>5, <1>6 DEF Sound, SInv

LEMMA UndoMarkSound ==
    ASSUME Sound, NEW r \in Request, UndoMark(r)
    PROVE  Sound'
<1>. USE HandleAssumption DEF Handle, Kind, Pending, Refused, Ended, sessionVars, ghostVars
<1>1. TypeOK'
  BY DEF Sound, SInv, TypeOK, UndoMark, Goto
<1>2. OnTheWay'
  BY SMTT(30) DEF Sound, SInv, TypeOK, OnTheWay, Accounts, Cause, UndoMark, Goto, Honoured, Usable
<1>3. Accounts'
  BY SMTT(30) DEF Sound, SInv, TypeOK, OnTheWay, Accounts, UndoMark, Goto
<1>4. ServedWhileActive'
  BY SMTT(30) DEF Sound, SInv, TypeOK, ServedWhileActive, Accounts, UndoMark, Goto
<1>5. ForgottenForCause'
  BY SMTT(30) DEF Sound, SInv, TypeOK, OnTheWay, ForgottenForCause, Accounts, Cause, UndoMark, Goto
<1>6. LoggedOutForGood'
  BY SMTT(30) DEF Sound, SInv, TypeOK, OnTheWay, LoggedOutForGood, Accounts, UndoMark, Goto
<1>. QED  BY <1>1, <1>2, <1>3, <1>4, <1>5, <1>6 DEF Sound, SInv

LEMMA PluginServesSound ==
    ASSUME Sound, NEW r \in Request, PluginServes(r)
    PROVE  Sound'
<1>. USE HandleAssumption DEF Handle, Kind, Pending, Refused, Ended, sessionVars, ghostVars
<1>1. TypeOK'
  BY DEF Sound, SInv, TypeOK, PluginServes, Goto
<1>2. OnTheWay'
  BY SMTT(30) DEF Sound, SInv, TypeOK, OnTheWay, Accounts, Cause, PluginServes, Goto, Honoured, Usable
<1>3. Accounts'
  BY SMTT(30) DEF Sound, SInv, TypeOK, OnTheWay, Accounts, PluginServes, Goto
<1>4. ServedWhileActive'
  BY SMTT(30) DEF Sound, SInv, TypeOK, ServedWhileActive, Accounts, PluginServes, Goto
<1>5. ForgottenForCause'
  BY SMTT(30) DEF Sound, SInv, TypeOK, OnTheWay, ForgottenForCause, Accounts, Cause, PluginServes, Goto
<1>6. LoggedOutForGood'
  BY SMTT(30) DEF Sound, SInv, TypeOK, OnTheWay, LoggedOutForGood, Accounts, PluginServes, Goto
<1>. QED  BY <1>1, <1>2, <1>3, <1>4, <1>5, <1>6 DEF Sound, SInv

LEMMA FailSound ==
    ASSUME Sound, NEW r \in Request, Fail(r)
    PROVE  Sound'
<1>. USE HandleAssumption DEF Handle, Kind, Pending, Refused, Ended, sessionVars, ghostVars
<1>1. TypeOK'
  BY DEF Sound, SInv, TypeOK, Fail, Goto
<1>2. OnTheWay'
  BY SMTT(30) DEF Sound, SInv, TypeOK, OnTheWay, Accounts, Cause, Fail, Goto, Honoured, Usable
<1>3. Accounts'
  BY SMTT(30) DEF Sound, SInv, TypeOK, OnTheWay, Accounts, Fail, Goto
<1>4. ServedWhileActive'
  BY SMTT(30) DEF Sound, SInv, TypeOK, ServedWhileActive, Accounts, Fail, Goto
<1>5. ForgottenForCause'
  BY SMTT(30) DEF Sound, SInv, TypeOK, OnTheWay, ForgottenForCause, Accounts, Cause, Fail, Goto
<1>6. LoggedOutForGood'
  BY SMTT(30) DEF Sound, SInv, TypeOK, OnTheWay, LoggedOutForGood, Accounts, Fail, Goto
<1>. QED  BY <1>1, <1>2, <1>3, <1>4, <1>5, <1>6 DEF Sound, SInv

LEMMA EntombSound ==
    ASSUME Sound, NEW r \in Request, Entomb(r)
    PROVE  Sound'
<1>. USE HandleAssumption DEF Handle, Kind, Pending, Refused, Ended, sessionVars, ghostVars
<1>1. TypeOK'
  BY DEF Sound, SInv, TypeOK, Entomb, Goto
<1>2. OnTheWay'
  BY SMTT(30) DEF Sound, SInv, TypeOK, OnTheWay, Accounts, Cause, Entomb, Goto, Honoured, Usable
<1>3. Accounts'
  BY SMTT(30) DEF Sound, SInv, TypeOK, OnTheWay, Accounts, Entomb, Goto
<1>4. ServedWhileActive'
  BY SMTT(30) DEF Sound, SInv, TypeOK, ServedWhileActive, Accounts, Entomb, Goto
<1>5. ForgottenForCause'
  BY SMTT(30) DEF Sound, SInv, TypeOK, OnTheWay, ForgottenForCause, Accounts, Cause, Entomb, Goto
<1>6. LoggedOutForGood'
  BY SMTT(30) DEF Sound, SInv, TypeOK, OnTheWay, LoggedOutForGood, Accounts, Entomb, Goto
<1>. QED  BY <1>1, <1>2, <1>3, <1>4, <1>5, <1>6 DEF Sound, SInv

LEMMA RevokeHandleSound ==
    ASSUME Sound, NEW r \in Request, RevokeHandle(r)
    PROVE  Sound'
<1>. USE HandleAssumption DEF Handle, Kind, Pending, Refused, Ended, sessionVars, ghostVars
<1>1. TypeOK'
  BY DEF Sound, SInv, TypeOK, RevokeHandle, Goto
<1>2. OnTheWay'
  BY SMTT(30) DEF Sound, SInv, TypeOK, OnTheWay, Accounts, Cause, RevokeHandle, Goto, Honoured, Usable
<1>3. Accounts'
  BY SMTT(30) DEF Sound, SInv, TypeOK, OnTheWay, Accounts, RevokeHandle, Goto
<1>4. ServedWhileActive'
  BY SMTT(30) DEF Sound, SInv, TypeOK, ServedWhileActive, OnTheWay, Accounts, RevokeHandle, Goto
<1>5. ForgottenForCause'
  BY SMTT(30) DEF Sound, SInv, TypeOK, OnTheWay, ForgottenForCause, Accounts, Cause, RevokeHandle, Goto
<1>6. LoggedOutForGood'
  BY SMTT(30) DEF Sound, SInv, TypeOK, OnTheWay, LoggedOutForGood, Accounts, RevokeHandle, Goto
<1>. QED  BY <1>1, <1>2, <1>3, <1>4, <1>5, <1>6 DEF Sound, SInv

LEMMA HandleExpiresSound ==
    ASSUME Sound, NEW h \in Handle, HandleExpires(h)
    PROVE  Sound'
<1>. USE HandleAssumption DEF Handle, Kind, Pending, Refused, Ended, sessionVars, ghostVars
<1>1. TypeOK'
  BY DEF Sound, SInv, TypeOK, HandleExpires, Goto
<1>2. OnTheWay'
  BY SMTT(30) DEF Sound, SInv, TypeOK, OnTheWay, Accounts, Cause, HandleExpires, Goto, Honoured, Usable
<1>3. Accounts'
  BY SMTT(30) DEF Sound, SInv, TypeOK, OnTheWay, Accounts, HandleExpires, Goto
<1>4. ServedWhileActive'
  BY SMTT(30) DEF Sound, SInv, TypeOK, ServedWhileActive, Accounts, HandleExpires, Goto
<1>5. ForgottenForCause'
  BY SMTT(30) DEF Sound, SInv, TypeOK, OnTheWay, ForgottenForCause, Accounts, Cause, HandleExpires, Goto
<1>6. LoggedOutForGood'
  BY SMTT(30) DEF Sound, SInv, TypeOK, OnTheWay, LoggedOutForGood, Accounts, HandleExpires, Goto
<1>. QED  BY <1>1, <1>2, <1>3, <1>4, <1>5, <1>6 DEF Sound, SInv

LEMMA SetActiveSound ==
    ASSUME Sound, SetActive
    PROVE  Sound'
<1>. USE HandleAssumption DEF Handle, Kind, Pending, Refused, Ended, sessionVars, ghostVars
<1>1. TypeOK'
  <2>1. active' \in BOOLEAN
    BY Zenon DEF Sound, SInv, TypeOK, SetActive
  <2>. QED  BY <2>1 DEF Sound, SInv, TypeOK, SetActive, InProgress
<1>2. OnTheWay'
  BY SMTT(30) DEF Sound, SInv, TypeOK, OnTheWay, Accounts, Cause, SetActive, Goto, Honoured, Usable
<1>3. Accounts'
  <2>1. CASE active
    BY <2>1 DEF Sound, SInv, TypeOK, OnTheWay, Accounts, SetActive, InProgress
  <2>2. CASE ~active
    BY <2>2 DEF Sound, SInv, TypeOK, OnTheWay, Accounts, SetActive, InProgress
  <2>. QED  BY <2>1, <2>2
<1>4. ServedWhileActive'
  BY SMTT(30) DEF Sound, SInv, TypeOK, ServedWhileActive, Accounts, SetActive, Goto
<1>5. ForgottenForCause'
  BY SMTT(30) DEF Sound, SInv, TypeOK, OnTheWay, ForgottenForCause, Accounts, Cause, SetActive, Goto
<1>6. LoggedOutForGood'
  BY SMTT(30) DEF Sound, SInv, TypeOK, OnTheWay, LoggedOutForGood, Accounts, SetActive, Goto
<1>. QED  BY <1>1, <1>2, <1>3, <1>4, <1>5, <1>6 DEF Sound, SInv

LEMMA ExpireDueSound ==
    ASSUME Sound, ExpireDue
    PROVE  Sound'
<1>. USE HandleAssumption DEF Handle, Kind, Pending, Refused, Ended, sessionVars, ghostVars
<1>1. TypeOK'
  BY DEF Sound, SInv, TypeOK, ExpireDue, Goto
<1>2. OnTheWay'
  BY SMTT(30) DEF Sound, SInv, TypeOK, OnTheWay, Accounts, Cause, ExpireDue, Goto, Honoured, Usable
<1>3. Accounts'
  BY SMTT(30) DEF Sound, SInv, TypeOK, OnTheWay, Accounts, ExpireDue, Goto
<1>4. ServedWhileActive'
  BY SMTT(30) DEF Sound, SInv, TypeOK, ServedWhileActive, Accounts, ExpireDue, Goto
<1>5. ForgottenForCause'
  BY SMTT(30) DEF Sound, SInv, TypeOK, OnTheWay, ForgottenForCause, Accounts, Cause, ExpireDue, Goto
<1>6. LoggedOutForGood'
  BY SMTT(30) DEF Sound, SInv, TypeOK, OnTheWay, LoggedOutForGood, Accounts, ExpireDue, Goto
<1>. QED  BY <1>1, <1>2, <1>3, <1>4, <1>5, <1>6 DEF Sound, SInv

LEMMA RestartSound ==
    ASSUME Sound, Restart
    PROVE  Sound'
<1>. USE HandleAssumption DEF Handle, Kind, Pending, Refused, Ended, sessionVars, ghostVars
<1>1. TypeOK'
  BY DEF Sound, SInv, TypeOK, Restart, Goto
<1>2. OnTheWay'
  BY SMTT(30) DEF Sound, SInv, TypeOK, OnTheWay, Accounts, Cause, Restart, Goto, Honoured, Usable
<1>3. Accounts'
  BY SMTT(30) DEF Sound, SInv, TypeOK, OnTheWay, Accounts, Restart, Goto
<1>4. ServedWhileActive'
  BY SMTT(30) DEF Sound, SInv, TypeOK, ServedWhileActive, Accounts, Restart, Goto
<1>5. ForgottenForCause'
  BY SMTT(30) DEF Sound, SInv, TypeOK, OnTheWay, ForgottenForCause, Accounts, Cause, Restart, Goto
<1>6. LoggedOutForGood'
  BY SMTT(30) DEF Sound, SInv, TypeOK, OnTheWay, LoggedOutForGood, Accounts, Restart, Goto
<1>. QED  BY <1>1, <1>2, <1>3, <1>4, <1>5, <1>6 DEF Sound, SInv

THEOREM SoundTheorem == Spec => []Sound
<1>1. Sound /\ [Next]_vars => Sound'
  <2>. SUFFICES ASSUME Sound, [Next]_vars
                PROVE  Sound'
    OBVIOUS
  <2>1. CASE \E s \in Session : Login(s) \/ SessionExpires(s)
    BY <2>1, CheckOperatorSound, IssueSessionHandleSound, StoreSessionSound,
       SessionExpiresSound DEF Login
  <2>2. CASE \E r \in Request : Arrive(r) \/ Serve(r) \/ Fail(r)
    BY <2>2, ArriveSound, LookupSound, CheckExpirySound, ResolveSessionSound,
       MarkExpiredSound, ResolvePrincipalSound, DiscardSound, IssueOwnSound, DecideSound,
       PluginResolveSound, UndoMarkSound, PluginServesSound, FailSound, EntombSound,
       RevokeHandleSound DEF Serve
  <2>3. CASE \E h \in Handle : HandleExpires(h)
    BY <2>3, HandleExpiresSound
  <2>4. CASE SetActive \/ ExpireDue \/ Restart
    BY <2>4, SetActiveSound, ExpireDueSound, RestartSound
  <2>5. CASE UNCHANGED vars
    BY <2>5, Zenon DEF vars, Sound, SInv, TypeOK, OnTheWay, Accounts, Cause,
       ServedWhileActive, ForgottenForCause, LoggedOutForGood, Honoured, Usable
  <2>. QED  BY <2>1, <2>2, <2>3, <2>4, <2>5 DEF Next
<1>. QED  BY <1>1, InitSound, PTL DEF Spec

\* The record and the handle of a session under way rest on these.
THEOREM SessionInvariant == Spec => []SInv
BY SoundTheorem, PTL DEF Sound

THEOREM RequestsServedWhileActive == Spec => []ServedWhileActive
BY SoundTheorem, PTL DEF Sound

THEOREM SessionsForgottenForCause == Spec => []ForgottenForCause
BY SoundTheorem, PTL DEF Sound

THEOREM LogoutsAreForGood == Spec => []LoggedOutForGood
BY SoundTheorem, PTL DEF Sound

-------------------------------------------------------------------------------
(* Refinement.                                                             *)

\* A step that only shuts windows and refuses requests.
Shutting ==
    /\ cookie' = cookie
    /\ \A s \in Session : Window'[s] = Window[s] \/ Window'[s] = "shut"
    /\ \A r \in Request :
        Outcome'[r] = Outcome[r] \/ (Outcome[r] \in {"early", "late"} /\ Outcome'[r] = "refused")

LEMMA ShuttingStep == ASSUME Shutting PROVE Promise!WindowNext
<1>. DEFINE S == {s \in Session : Window'[s] = "shut"}
            R == {r \in Request : Outcome'[r] # Outcome[r]}
<1>1. Window' = [s \in Session |-> IF s \in S THEN "shut" ELSE Window[s]]
  BY DEF Shutting, Window
<1>2. Outcome' = [r \in Request |-> IF r \in R THEN "refused" ELSE Outcome[r]]
  BY DEF Shutting, Outcome
<1>3. \A r \in R : Outcome[r] \in {"early", "late"}
  BY DEF Shutting
<1>4. Promise!Shut(S, R)
  BY <1>1, <1>2, <1>3 DEF Promise!Shut, Shutting
<1>5. S \in SUBSET Session /\ R \in SUBSET Request
  OBVIOUS
<1>. QED  BY <1>4, <1>5, Zenon DEF Promise!WindowNext

LEMMA ServingStep ==
    ASSUME NEW r \in Request, cookie' = cookie, Window' = Window, TypeOK,
           kind[r] # "logout", kind' = kind, early' = early,
           pc[r] \in Pending, r \in early, pc' = [pc EXCEPT ![r] = "served"]
    PROVE  Promise!WindowNext
<1>1. Outcome[r] = "early"
  BY DEF Outcome, Pending, Refused
<1>2. Outcome' = [Outcome EXCEPT ![r] = "served"]
  BY DEF Outcome, TypeOK
<1>3. Promise!Serve(r)
  BY <1>1, <1>2 DEF Promise!Serve
<1>. QED  BY <1>3, Zenon DEF Promise!WindowNext

LEMMA CheckOperatorShuts ==
    ASSUME Sound, NEW s \in Session, CheckOperator(s)
    PROVE  Promise!WindowNext
<1>. USE HandleAssumption DEF Handle, Kind, Pending, Refused, Ended, sessionVars, ghostVars
<1>1. cookie' = cookie
  BY DEF CheckOperator
<1>2. \A s0 \in Session : Window'[s0] = Window[s0] \/ Window'[s0] = "shut"
  BY SMTT(30) DEF Sound, SInv, TypeOK, OnTheWay, Accounts, CheckOperator, Goto, Window, Honoured, Usable
<1>3. \A r0 \in Request :
        Outcome'[r0] = Outcome[r0] \/ (Outcome[r0] \in {"early", "late"} /\ Outcome'[r0] = "refused")
  BY SMTT(30) DEF Sound, SInv, TypeOK, OnTheWay, Accounts, CheckOperator, Goto, Outcome
<1>. QED  BY <1>1, <1>2, <1>3, ShuttingStep, Zenon DEF Shutting

LEMMA IssueSessionHandleShuts ==
    ASSUME Sound, NEW s \in Session, IssueSessionHandle(s)
    PROVE  Promise!WindowNext
<1>. USE HandleAssumption DEF Handle, Kind, Pending, Refused, Ended, sessionVars, ghostVars
<1>1. cookie' = cookie
  BY DEF IssueSessionHandle
<1>2. \A s0 \in Session : Window'[s0] = Window[s0] \/ Window'[s0] = "shut"
  BY SMTT(30) DEF Sound, SInv, TypeOK, OnTheWay, Accounts, IssueSessionHandle, Goto, Window, Honoured, Usable
<1>3. \A r0 \in Request :
        Outcome'[r0] = Outcome[r0] \/ (Outcome[r0] \in {"early", "late"} /\ Outcome'[r0] = "refused")
  BY SMTT(30) DEF Sound, SInv, TypeOK, OnTheWay, Accounts, IssueSessionHandle, Goto, Outcome
<1>. QED  BY <1>1, <1>2, <1>3, ShuttingStep, Zenon DEF Shutting

LEMMA SessionExpiresShuts ==
    ASSUME Sound, NEW s \in Session, SessionExpires(s)
    PROVE  Promise!WindowNext
<1>. USE HandleAssumption DEF Handle, Kind, Pending, Refused, Ended, sessionVars, ghostVars
<1>1. cookie' = cookie
  BY DEF SessionExpires
<1>2. \A s0 \in Session : Window'[s0] = Window[s0] \/ Window'[s0] = "shut"
  BY SMTT(30) DEF Sound, SInv, TypeOK, OnTheWay, Accounts, SessionExpires, Goto, Window, Honoured, Usable
<1>3. \A r0 \in Request :
        Outcome'[r0] = Outcome[r0] \/ (Outcome[r0] \in {"early", "late"} /\ Outcome'[r0] = "refused")
  BY SMTT(30) DEF Sound, SInv, TypeOK, OnTheWay, Accounts, SessionExpires, Goto, Outcome
<1>. QED  BY <1>1, <1>2, <1>3, ShuttingStep, Zenon DEF Shutting

LEMMA LookupShuts ==
    ASSUME Sound, NEW r \in Request, Lookup(r)
    PROVE  Promise!WindowNext
<1>. USE HandleAssumption DEF Handle, Kind, Pending, Refused, Ended, sessionVars, ghostVars
<1>1. cookie' = cookie
  BY DEF Lookup
<1>2. \A s0 \in Session : Window'[s0] = Window[s0] \/ Window'[s0] = "shut"
  BY SMTT(30) DEF Sound, SInv, TypeOK, OnTheWay, Accounts, Lookup, Goto, Window, Honoured, Usable
<1>3. \A r0 \in Request :
        Outcome'[r0] = Outcome[r0] \/ (Outcome[r0] \in {"early", "late"} /\ Outcome'[r0] = "refused")
  BY SMTT(30) DEF Sound, SInv, TypeOK, OnTheWay, Accounts, Lookup, Goto, Outcome
<1>. QED  BY <1>1, <1>2, <1>3, ShuttingStep, Zenon DEF Shutting

LEMMA CheckExpiryShuts ==
    ASSUME Sound, NEW r \in Request, CheckExpiry(r)
    PROVE  Promise!WindowNext
<1>. USE HandleAssumption DEF Handle, Kind, Pending, Refused, Ended, sessionVars, ghostVars
<1>1. cookie' = cookie
  BY DEF CheckExpiry
<1>2. \A s0 \in Session : Window'[s0] = Window[s0] \/ Window'[s0] = "shut"
  BY SMTT(30) DEF Sound, SInv, TypeOK, OnTheWay, Accounts, CheckExpiry, Goto, Window, Honoured, Usable
<1>3. \A r0 \in Request :
        Outcome'[r0] = Outcome[r0] \/ (Outcome[r0] \in {"early", "late"} /\ Outcome'[r0] = "refused")
  BY SMTT(30) DEF Sound, SInv, TypeOK, OnTheWay, Accounts, CheckExpiry, Goto, Outcome
<1>. QED  BY <1>1, <1>2, <1>3, ShuttingStep, Zenon DEF Shutting

LEMMA ResolveSessionShuts ==
    ASSUME Sound, NEW r \in Request, ResolveSession(r)
    PROVE  Promise!WindowNext
<1>. USE HandleAssumption DEF Handle, Kind, Pending, Refused, Ended, sessionVars, ghostVars
<1>1. cookie' = cookie
  BY DEF ResolveSession
<1>2. \A s0 \in Session : Window'[s0] = Window[s0] \/ Window'[s0] = "shut"
  BY SMTT(30) DEF Sound, SInv, TypeOK, OnTheWay, Accounts, ResolveSession, Goto, Window, Honoured, Usable
<1>3. \A r0 \in Request :
        Outcome'[r0] = Outcome[r0] \/ (Outcome[r0] \in {"early", "late"} /\ Outcome'[r0] = "refused")
  BY SMTT(30) DEF Sound, SInv, TypeOK, OnTheWay, Accounts, ResolveSession, Goto, Outcome
<1>. QED  BY <1>1, <1>2, <1>3, ShuttingStep, Zenon DEF Shutting

LEMMA MarkExpiredShuts ==
    ASSUME Sound, NEW r \in Request, MarkExpired(r)
    PROVE  Promise!WindowNext
<1>. USE HandleAssumption DEF Handle, Kind, Pending, Refused, Ended, sessionVars, ghostVars
<1>1. cookie' = cookie
  BY DEF MarkExpired
<1>2. \A s0 \in Session : Window'[s0] = Window[s0] \/ Window'[s0] = "shut"
  BY SMTT(30) DEF Sound, SInv, TypeOK, OnTheWay, Accounts, MarkExpired, Goto, Window, Honoured, Usable
<1>3. \A r0 \in Request :
        Outcome'[r0] = Outcome[r0] \/ (Outcome[r0] \in {"early", "late"} /\ Outcome'[r0] = "refused")
  BY SMTT(30) DEF Sound, SInv, TypeOK, OnTheWay, Accounts, MarkExpired, Goto, Outcome
<1>. QED  BY <1>1, <1>2, <1>3, ShuttingStep, Zenon DEF Shutting

LEMMA DiscardShuts ==
    ASSUME Sound, NEW r \in Request, Discard(r)
    PROVE  Promise!WindowNext
<1>. USE HandleAssumption DEF Handle, Kind, Pending, Refused, Ended, sessionVars, ghostVars
<1>1. cookie' = cookie
  BY DEF Discard
<1>2. \A s0 \in Session : Window'[s0] = Window[s0] \/ Window'[s0] = "shut"
  BY SMTT(30) DEF Sound, SInv, TypeOK, OnTheWay, Accounts, Discard, Goto, Window, Honoured, Usable
<1>3. \A r0 \in Request :
        Outcome'[r0] = Outcome[r0] \/ (Outcome[r0] \in {"early", "late"} /\ Outcome'[r0] = "refused")
  BY SMTT(30) DEF Sound, SInv, TypeOK, OnTheWay, Accounts, Discard, Goto, Outcome
<1>. QED  BY <1>1, <1>2, <1>3, ShuttingStep, Zenon DEF Shutting

LEMMA IssueOwnShuts ==
    ASSUME Sound, NEW r \in Request, IssueOwn(r)
    PROVE  Promise!WindowNext
<1>. USE HandleAssumption DEF Handle, Kind, Pending, Refused, Ended, sessionVars, ghostVars
<1>1. cookie' = cookie
  BY DEF IssueOwn
<1>2. \A s0 \in Session : Window'[s0] = Window[s0] \/ Window'[s0] = "shut"
  BY SMTT(30) DEF Sound, SInv, TypeOK, OnTheWay, Accounts, IssueOwn, Goto, Window, Honoured, Usable
<1>3. \A r0 \in Request :
        Outcome'[r0] = Outcome[r0] \/ (Outcome[r0] \in {"early", "late"} /\ Outcome'[r0] = "refused")
  BY SMTT(30) DEF Sound, SInv, TypeOK, OnTheWay, Accounts, IssueOwn, Goto, Outcome
<1>. QED  BY <1>1, <1>2, <1>3, ShuttingStep, Zenon DEF Shutting

LEMMA PluginResolveShuts ==
    ASSUME Sound, NEW r \in Request, PluginResolve(r)
    PROVE  Promise!WindowNext
<1>. USE HandleAssumption DEF Handle, Kind, Pending, Refused, Ended, sessionVars, ghostVars
<1>1. cookie' = cookie
  BY DEF PluginResolve
<1>2. \A s0 \in Session : Window'[s0] = Window[s0] \/ Window'[s0] = "shut"
  BY SMTT(30) DEF Sound, SInv, TypeOK, OnTheWay, Accounts, PluginResolve, Goto, Window, Honoured, Usable
<1>3. \A r0 \in Request :
        Outcome'[r0] = Outcome[r0] \/ (Outcome[r0] \in {"early", "late"} /\ Outcome'[r0] = "refused")
  BY SMTT(30) DEF Sound, SInv, TypeOK, OnTheWay, Accounts, PluginResolve, Goto, Outcome
<1>. QED  BY <1>1, <1>2, <1>3, ShuttingStep, Zenon DEF Shutting

LEMMA UndoMarkShuts ==
    ASSUME Sound, NEW r \in Request, UndoMark(r)
    PROVE  Promise!WindowNext
<1>. USE HandleAssumption DEF Handle, Kind, Pending, Refused, Ended, sessionVars, ghostVars
<1>1. cookie' = cookie
  BY DEF UndoMark
<1>2. \A s0 \in Session : Window'[s0] = Window[s0] \/ Window'[s0] = "shut"
  BY SMTT(30) DEF Sound, SInv, TypeOK, OnTheWay, Accounts, UndoMark, Goto, Window, Honoured, Usable
<1>3. \A r0 \in Request :
        Outcome'[r0] = Outcome[r0] \/ (Outcome[r0] \in {"early", "late"} /\ Outcome'[r0] = "refused")
  BY SMTT(30) DEF Sound, SInv, TypeOK, OnTheWay, Accounts, UndoMark, Goto, Outcome
<1>. QED  BY <1>1, <1>2, <1>3, ShuttingStep, Zenon DEF Shutting

LEMMA FailShuts ==
    ASSUME Sound, NEW r \in Request, Fail(r)
    PROVE  Promise!WindowNext
<1>. USE HandleAssumption DEF Handle, Kind, Pending, Refused, Ended, sessionVars, ghostVars
<1>1. cookie' = cookie
  BY DEF Fail
<1>2. \A s0 \in Session : Window'[s0] = Window[s0] \/ Window'[s0] = "shut"
  BY SMTT(30) DEF Sound, SInv, TypeOK, OnTheWay, Accounts, Fail, Goto, Window, Honoured, Usable
<1>3. \A r0 \in Request :
        Outcome'[r0] = Outcome[r0] \/ (Outcome[r0] \in {"early", "late"} /\ Outcome'[r0] = "refused")
  BY SMTT(30) DEF Sound, SInv, TypeOK, OnTheWay, Accounts, Fail, Goto, Outcome
<1>. QED  BY <1>1, <1>2, <1>3, ShuttingStep, Zenon DEF Shutting

LEMMA EntombShuts ==
    ASSUME Sound, NEW r \in Request, Entomb(r)
    PROVE  Promise!WindowNext
<1>. USE HandleAssumption DEF Handle, Kind, Pending, Refused, Ended, sessionVars, ghostVars
<1>1. cookie' = cookie
  BY DEF Entomb
<1>2. \A s0 \in Session : Window'[s0] = Window[s0] \/ Window'[s0] = "shut"
  BY SMTT(30) DEF Sound, SInv, TypeOK, OnTheWay, Accounts, Entomb, Goto, Window, Honoured, Usable
<1>3. \A r0 \in Request :
        Outcome'[r0] = Outcome[r0] \/ (Outcome[r0] \in {"early", "late"} /\ Outcome'[r0] = "refused")
  BY SMTT(30) DEF Sound, SInv, TypeOK, OnTheWay, Accounts, Entomb, Goto, Outcome
<1>. QED  BY <1>1, <1>2, <1>3, ShuttingStep, Zenon DEF Shutting

LEMMA RevokeHandleShuts ==
    ASSUME Sound, NEW r \in Request, RevokeHandle(r)
    PROVE  Promise!WindowNext
<1>. USE HandleAssumption DEF Handle, Kind, Pending, Refused, Ended, sessionVars, ghostVars
<1>1. cookie' = cookie
  BY DEF RevokeHandle
<1>2. \A s0 \in Session : Window'[s0] = Window[s0] \/ Window'[s0] = "shut"
  BY SMTT(30) DEF Sound, SInv, TypeOK, OnTheWay, Accounts, RevokeHandle, Goto, Window, Honoured, Usable
<1>3. \A r0 \in Request :
        Outcome'[r0] = Outcome[r0] \/ (Outcome[r0] \in {"early", "late"} /\ Outcome'[r0] = "refused")
  BY SMTT(30) DEF Sound, SInv, TypeOK, OnTheWay, Accounts, RevokeHandle, Goto, Outcome
<1>. QED  BY <1>1, <1>2, <1>3, ShuttingStep, Zenon DEF Shutting

LEMMA HandleExpiresShuts ==
    ASSUME Sound, NEW h \in Handle, HandleExpires(h)
    PROVE  Promise!WindowNext
<1>. USE HandleAssumption DEF Handle, Kind, Pending, Refused, Ended, sessionVars, ghostVars
<1>1. cookie' = cookie
  BY DEF HandleExpires
<1>2. \A s0 \in Session : Window'[s0] = Window[s0] \/ Window'[s0] = "shut"
  BY SMTT(30) DEF Sound, SInv, TypeOK, OnTheWay, Accounts, HandleExpires, Goto, Window, Honoured, Usable
<1>3. \A r0 \in Request :
        Outcome'[r0] = Outcome[r0] \/ (Outcome[r0] \in {"early", "late"} /\ Outcome'[r0] = "refused")
  BY SMTT(30) DEF Sound, SInv, TypeOK, OnTheWay, Accounts, HandleExpires, Goto, Outcome
<1>. QED  BY <1>1, <1>2, <1>3, ShuttingStep, Zenon DEF Shutting

LEMMA SetActiveShuts ==
    ASSUME Sound, SetActive
    PROVE  Promise!WindowNext
<1>. USE HandleAssumption DEF Handle, Kind, Pending, Refused, Ended, sessionVars, ghostVars
<1>1. cookie' = cookie
  BY DEF SetActive
<1>2. \A s0 \in Session : Window'[s0] = Window[s0] \/ Window'[s0] = "shut"
  BY SMTT(30) DEF Sound, SInv, TypeOK, OnTheWay, Accounts, SetActive, Goto, Window, Honoured, Usable
<1>3. \A r0 \in Request :
        Outcome'[r0] = Outcome[r0] \/ (Outcome[r0] \in {"early", "late"} /\ Outcome'[r0] = "refused")
  BY SMTT(30) DEF Sound, SInv, TypeOK, OnTheWay, Accounts, SetActive, Goto, Outcome
<1>. QED  BY <1>1, <1>2, <1>3, ShuttingStep, Zenon DEF Shutting

LEMMA ExpireDueShuts ==
    ASSUME Sound, ExpireDue
    PROVE  Promise!WindowNext
<1>. USE HandleAssumption DEF Handle, Kind, Pending, Refused, Ended, sessionVars, ghostVars
<1>1. cookie' = cookie
  BY DEF ExpireDue
<1>2. \A s0 \in Session : Window'[s0] = Window[s0] \/ Window'[s0] = "shut"
  BY SMTT(30) DEF Sound, SInv, TypeOK, OnTheWay, Accounts, ExpireDue, Goto, Window, Honoured, Usable
<1>3. \A r0 \in Request :
        Outcome'[r0] = Outcome[r0] \/ (Outcome[r0] \in {"early", "late"} /\ Outcome'[r0] = "refused")
  BY SMTT(30) DEF Sound, SInv, TypeOK, OnTheWay, Accounts, ExpireDue, Goto, Outcome
<1>. QED  BY <1>1, <1>2, <1>3, ShuttingStep, Zenon DEF Shutting

LEMMA RestartShuts ==
    ASSUME Sound, Restart
    PROVE  Promise!WindowNext
<1>. USE HandleAssumption DEF Handle, Kind, Pending, Refused, Ended, sessionVars, ghostVars
<1>1. cookie' = cookie
  BY DEF Restart
<1>2. \A s0 \in Session : Window'[s0] = Window[s0] \/ Window'[s0] = "shut"
  BY SMTT(30) DEF Sound, SInv, TypeOK, OnTheWay, Accounts, Restart, Goto, Window, Honoured, Usable
<1>3. \A r0 \in Request :
        Outcome'[r0] = Outcome[r0] \/ (Outcome[r0] \in {"early", "late"} /\ Outcome'[r0] = "refused")
  BY SMTT(30) DEF Sound, SInv, TypeOK, OnTheWay, Accounts, Restart, Goto, Outcome
<1>. QED  BY <1>1, <1>2, <1>3, ShuttingStep, Zenon DEF Shutting

LEMMA StoreSessionOpens ==
    ASSUME Sound, NEW s \in Session, StoreSession(s)
    PROVE  Promise!WindowNext
<1>. USE HandleAssumption DEF Handle
<1>1. Window[s] = "new" /\ cookie' = cookie /\ Outcome' = Outcome
  BY DEF StoreSession, Window, Outcome
<1>2. \A s0 \in Session \ {s} : Window'[s0] = Window[s0]
  BY DEF Sound, SInv, TypeOK, StoreSession, Window, Honoured, Usable
<1>3. Window'[s] \in {"open", "shut"}
  BY DEF Sound, SInv, TypeOK, StoreSession, Window
<1>4. CASE Window'[s] = "open"
  <2>1. Window' = [Window EXCEPT ![s] = "open"]
    BY <1>2, <1>4 DEF Window
  <2>. QED  BY <2>1, <1>1, Zenon DEF Promise!WindowNext, Promise!Open
<1>5. CASE Window'[s] = "shut"
  BY <1>1, <1>2, <1>5, ShuttingStep DEF Shutting
<1>. QED  BY <1>3, <1>4, <1>5

LEMMA ArriveAsks ==
    ASSUME Sound, NEW r \in Request, Arrive(r)
    PROVE  Promise!WindowNext \/ UNCHANGED Promise!windowVars
<1>. USE DEF Pending, Refused, Ended, sessionVars
<1>1. cookie' = cookie /\ Window' = Window
  BY DEF Arrive, Window, Honoured, Usable
<1>2. CASE kind[r] = "logout"
  <2>1. Outcome' = Outcome
    BY <1>2 DEF Sound, SInv, TypeOK, Arrive, Goto, Outcome
  <2>. QED  BY <1>1, <2>1 DEF Promise!windowVars
<1>3. CASE kind[r] # "logout"
  <2>1. Outcome[r] = "idle"
    BY DEF Arrive, Outcome
  <2>2. Outcome' = [Outcome EXCEPT ![r] = IF r \in early' THEN "early" ELSE "late"]
    BY <1>3 DEF Sound, SInv, TypeOK, Arrive, Goto, Outcome
  <2>3. r \in early' <=> Window[cookie[r]] = "open"
    BY DEF Sound, SInv, TypeOK, OnTheWay, Accounts, Arrive, Window
  <2>4. Promise!Ask(r)
    BY <1>1, <2>1, <2>2, <2>3 DEF Promise!Ask
  <2>. QED  BY <2>4, Zenon DEF Promise!WindowNext
<1>. QED  BY <1>2, <1>3

LEMMA ResolvePrincipalServes ==
    ASSUME Sound, NEW r \in Request, ResolvePrincipal(r)
    PROVE  Promise!WindowNext
<1>. USE HandleAssumption DEF Handle, Kind, Pending, Refused, Ended, sessionVars, ghostVars
<1>1. /\ cookie' = cookie /\ kind' = kind /\ early' = early /\ Window' = Window
      /\ r \in early /\ kind[r] # "logout" /\ pc[r] \in Pending
  BY DEF Sound, SInv, TypeOK, OnTheWay, ResolvePrincipal, Window, Honoured, Usable
<1>2. CASE pc' = [pc EXCEPT ![r] = "served"]
  <2>1. TypeOK
    BY DEF Sound, SInv
  <2>. QED  BY <1>1, <1>2, <2>1, ServingStep
<1>3. CASE pc' # [pc EXCEPT ![r] = "served"]
  <2>1. PICK l \in Pending \cup Refused : pc' = [pc EXCEPT ![r] = l]
    BY <1>3 DEF ResolvePrincipal, Goto
  <2>2. \A r0 \in Request :
           Outcome'[r0] = Outcome[r0] \/ (Outcome[r0] \in {"early", "late"} /\ Outcome'[r0] = "refused")
    BY <1>1, <2>1, SMTT(30) DEF Sound, SInv, TypeOK, Outcome
  <2>. QED  BY <1>1, <2>2, ShuttingStep DEF Shutting
<1>. QED  BY <1>2, <1>3

LEMMA DecideServes ==
    ASSUME Sound, NEW r \in Request, Decide(r)
    PROVE  Promise!WindowNext
<1>. USE HandleAssumption DEF Handle, Kind, Pending, Refused, Ended, sessionVars, ghostVars
<1>1. /\ cookie' = cookie /\ kind' = kind /\ early' = early /\ Window' = Window
      /\ r \in early /\ kind[r] # "logout" /\ pc[r] \in Pending
  BY DEF Sound, SInv, TypeOK, OnTheWay, Decide, Window, Honoured, Usable
<1>2. CASE pc' = [pc EXCEPT ![r] = "served"]
  <2>1. TypeOK
    BY DEF Sound, SInv
  <2>. QED  BY <1>1, <1>2, <2>1, ServingStep
<1>3. CASE pc' # [pc EXCEPT ![r] = "served"]
  <2>1. \A r0 \in Request :
           Outcome'[r0] = Outcome[r0] \/ (Outcome[r0] \in {"early", "late"} /\ Outcome'[r0] = "refused")
    BY <1>3, SMTT(30) DEF Sound, SInv, TypeOK, OnTheWay, Decide, Goto, Outcome
  <2>. QED  BY <1>1, <2>1, ShuttingStep DEF Shutting
<1>. QED  BY <1>2, <1>3

LEMMA PluginServesServes ==
    ASSUME Sound, NEW r \in Request, PluginServes(r)
    PROVE  Promise!WindowNext
<1>. USE HandleAssumption DEF Handle, Kind, Pending, Refused, Ended, sessionVars, ghostVars
<1>1. /\ cookie' = cookie /\ kind' = kind /\ early' = early /\ Window' = Window
      /\ r \in early /\ kind[r] # "logout" /\ pc[r] \in Pending
  BY DEF Sound, SInv, TypeOK, OnTheWay, PluginServes, Window, Honoured, Usable
<1>2. CASE pc' = [pc EXCEPT ![r] = "served"]
  <2>1. TypeOK
    BY DEF Sound, SInv
  <2>. QED  BY <1>1, <1>2, <2>1, ServingStep
<1>3. CASE pc' # [pc EXCEPT ![r] = "served"]
  <2>1. PICK l \in Pending \cup Refused : pc' = [pc EXCEPT ![r] = l]
    BY <1>3 DEF PluginServes, Goto
  <2>2. \A r0 \in Request :
           Outcome'[r0] = Outcome[r0] \/ (Outcome[r0] \in {"early", "late"} /\ Outcome'[r0] = "refused")
    BY <1>1, <2>1, SMTT(30) DEF Sound, SInv, TypeOK, Outcome
  <2>. QED  BY <1>1, <2>2, ShuttingStep DEF Shutting
<1>. QED  BY <1>2, <1>3

\* The sessions of the web API and the requests that name them implement
\* SessionWindow: what the console promises its users.
THEOREM Refinement == Spec => ImplementsSessionWindow
<1>1. Init => Promise!WindowInit
  BY DEF Init, Promise!WindowInit, Window, Outcome
<1>2. Sound /\ [Next]_vars => [Promise!WindowNext]_Promise!windowVars
  <2>. SUFFICES ASSUME Sound, [Next]_vars
                PROVE  [Promise!WindowNext]_Promise!windowVars
    OBVIOUS
  <2>1. CASE \E s \in Session : Login(s) \/ SessionExpires(s)
    BY <2>1, CheckOperatorShuts, IssueSessionHandleShuts, StoreSessionOpens,
       SessionExpiresShuts DEF Login
  <2>2. CASE \E r \in Request : Arrive(r) \/ Serve(r) \/ Fail(r)
    BY <2>2, ArriveAsks, LookupShuts, CheckExpiryShuts, ResolveSessionShuts,
       MarkExpiredShuts, ResolvePrincipalServes, DiscardShuts, IssueOwnShuts, DecideServes,
       PluginResolveShuts, UndoMarkShuts, PluginServesServes, FailShuts, EntombShuts,
       RevokeHandleShuts DEF Serve
  <2>3. CASE \E h \in Handle : HandleExpires(h)
    BY <2>3, HandleExpiresShuts
  <2>4. CASE SetActive \/ ExpireDue \/ Restart
    BY <2>4, SetActiveShuts, ExpireDueShuts, RestartShuts
  <2>5. CASE UNCHANGED vars
    BY <2>5 DEF vars, Promise!windowVars, Window, Outcome, Honoured, Usable
  <2>. QED  BY <2>1, <2>2, <2>3, <2>4, <2>5 DEF Next
<1>. QED  BY <1>1, <1>2, SoundTheorem, PTL DEF Spec, ImplementsSessionWindow, Promise!WindowSpec

===============================================================================
