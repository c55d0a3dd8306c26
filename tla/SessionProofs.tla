--------------------------- MODULE SessionProofs ---------------------------
(***************************************************************************)
(* What Sessions guarantees for every number of calls, tokens, logins and  *)
(* logouts.  A session that was ended stays ended, with any browsers and   *)
(* tabs.  The tokens of one login leave at most one valid, when a browser  *)
(* has one tab: two tabs of a browser can exchange the same cookie.  What  *)
(* a cookie holds can be exchanged, when there is one browser with one     *)
(* tab, except after a lost answer or a replay: another browser that comes *)
(* back with the cookie of a session that was ended is taken for a replay, *)
(* and ends the new sessions as well.                                      *)
(***************************************************************************)
EXTENDS Sessions, TLAPS

Rows == [used : BOOLEAN, revoked : BOOLEAN, expired : BOOLEAN, login : Nat, born : Nat]
Cookies == Tokens \cup {NoToken}
CallRecords ==
  [pc : {"idle", "sent", "waiting", "checked", "granted"}, kind : {"data", "login", "logout"},
   retried : BOOLEAN, token : Cookies, born : Nat]
\* A refresh that has found a row names it.
RefreshRecords ==
  [pc : {"none", "sent", "failed"}, token : Cookies]
    \cup [pc : {"found", "replayed", "lapsed", "rotated", "created"}, token : Tokens]

\* Every table, cookie jar, call and refresh holds a value of its type.
TypeOK ==
  /\ token \in [Tokens -> Rows]
  /\ jar \in [Browsers -> Cookies]
  /\ call \in [Tabs -> [Calls -> CallRecords]]
  /\ refresh \in [Tabs -> RefreshRecords]
  /\ logins \in Nat /\ ends \in Nat
  /\ raced \in SUBSET Nat /\ crossed \in SUBSET Nat

\* A table update, a call and a refresh that are typed.
LEMMA RowTyped ==
  ASSUME TypeOK, NEW k \in Tokens, NEW r \in Rows, SetRow(k, r)
  PROVE  token' \in [Tokens -> Rows]
BY DEF SetRow, TypeOK

LEMMA CallTyped ==
  ASSUME TypeOK, NEW t \in Tabs, NEW c \in Calls, NEW r \in CallRecords, SetCall(t, c, r)
  PROVE  call' \in [Tabs -> [Calls -> CallRecords]]
BY DEF SetCall, TypeOK

LEMMA RefreshTyped ==
  ASSUME TypeOK, NEW t \in Tabs, NEW r \in RefreshRecords, SetRefresh(t, r)
  PROVE  refresh' \in [Tabs -> RefreshRecords]
BY DEF SetRefresh, TypeOK

LEMMA RevokedTyped ==
  ASSUME TypeOK PROVE \A k \in Tokens : Revoked(token[k]) \in Rows
BY DEF TypeOK, Revoked, Rows

LEMMA RevokeAllTyped ==
  ASSUME TypeOK, RevokeAll
  PROVE  token' \in [Tokens -> Rows]
<1>1. NoRow \in Rows
  BY DEF NoRow, Row, Rows
<1> QED
  BY <1>1, RevokedTyped DEF RevokeAll

LEMMA EndTyped ==
  ASSUME TypeOK, EndSessions
  PROVE  token' \in [Tokens -> Rows] /\ ends' \in Nat /\ raced' \in SUBSET Nat
<1>1. token' \in [Tokens -> Rows] /\ ends' \in Nat
  BY RevokeAllTyped DEF EndSessions, TypeOK
<1>2. ASSUME NEW t \in Tabs, refresh[t].pc \in {"found", "rotated"}
      PROVE  token[refresh[t].token].login \in Nat
  <2>1. refresh[t].token \in Tokens
    BY <1>2 DEF TypeOK, RefreshRecords
  <2> QED
    BY <2>1 DEF TypeOK, Rows
<1>3. raced' \in SUBSET Nat
  BY <1>2 DEF EndSessions, TypeOK
<1> QED
  BY <1>1, <1>3

\* The logins that a refresh can end are logins.
LEMMA LaterTyped ==
  ASSUME TypeOK, NEW t \in Tabs
  PROVE  LaterLogins(t) \in SUBSET Nat
BY DEF LaterLogins, TypeOK, Rows

\* The values that actions write.
LEMMA NoCallTyped == NoCall \in CallRecords
BY DEF NoCall, CallOf, CallRecords, Cookies

LEMMA NoRefreshTyped == NoRefresh \in RefreshRecords
BY DEF NoRefresh, RefreshOf, RefreshRecords, Cookies

LEMMA ResumeTyped ==
  ASSUME TypeOK, NEW t \in Tabs, NEW ok \in BOOLEAN, Resume(t, ok)
  PROVE  call' \in [Tabs -> [Calls -> CallRecords]]
<1>1. ASSUME NEW c \in Calls
      PROVE  CallOf("sent", call[t][c].kind, TRUE, NoToken, 0) \in CallRecords
  BY DEF TypeOK, CallOf, CallRecords, Cookies
<1>2. [c \in Calls |->
         IF call[t][c].pc # "waiting" THEN call[t][c]
         ELSE IF ok THEN CallOf("sent", call[t][c].kind, TRUE, NoToken, 0) ELSE NoCall]
        \in [Calls -> CallRecords]
  BY <1>1, NoCallTyped DEF TypeOK
<1>3. call' = [call EXCEPT ![t] = [c \in Calls |->
         IF call[t][c].pc # "waiting" THEN call[t][c]
         ELSE IF ok THEN CallOf("sent", call[t][c].kind, TRUE, NoToken, 0) ELSE NoCall]]
  BY DEF Resume, TypeOK
<1> QED
  BY <1>2, <1>3 DEF TypeOK

\* Every step keeps the types.
LEMMA TypeStep == TypeOK /\ [Next]_vars => TypeOK'
<1> SUFFICES ASSUME TypeOK, [Next]_vars PROVE TypeOK'
  OBVIOUS
<1> USE NoCallTyped, NoRefreshTyped
<1>a. /\ \A k \in Cookies : /\ RefreshOf("sent", k) \in RefreshRecords
                            /\ RefreshOf("failed", k) \in RefreshRecords
      /\ \A k \in Tokens, pc \in {"found", "replayed", "lapsed", "rotated", "created"} :
           RefreshOf(pc, k) \in RefreshRecords
  BY DEF RefreshOf, RefreshRecords
<1>b. \A t \in Tabs : t[1] \in Browsers
  BY DEF Tabs
<1>c. NoToken \in Cookies /\ \A k \in Tokens : k \in Cookies
  BY DEF Cookies
<1>d. \A t \in Tabs : refresh[t] \in RefreshRecords /\ refresh[t].token \in Cookies
  BY DEF TypeOK, RefreshRecords, Cookies
<1>g. \A t \in Tabs : refresh[t].pc \in {"found", "replayed", "lapsed", "rotated", "created"}
        => refresh[t].token \in Tokens
  BY DEF TypeOK, RefreshRecords
<1>e. \A b \in Browsers : jar[b] \in Cookies
  BY DEF TypeOK
<1>f. \A t \in Tabs, c \in Calls : call[t][c] \in CallRecords /\ call[t][c].token \in Cookies
  BY DEF TypeOK, CallRecords
<1>1. ASSUME NEW t \in Tabs, RefreshStep(t) \/ LoseRefresh(t) PROVE TypeOK'
  <2>1. CASE RefreshFind(t)
    <3>1. PICK pc \in {"found", "replayed", "lapsed", "failed"} :
            /\ pc # "failed" => refresh[t].token \in Tokens
            /\ SetRefresh(t, RefreshOf(pc, refresh[t].token))
      BY <1>d, <2>1 DEF RefreshFind, Cookies
    <3>2. RefreshOf(pc, refresh[t].token) \in RefreshRecords
      BY <1>a, <1>d, <3>1
    <3> QED
      BY <2>1, <3>1, <3>2, RefreshTyped DEF RefreshFind, TypeOK
  <2>2. CASE RefreshReplayed(t)
    BY <1>a, <1>c, <2>2, RevokeAllTyped, RefreshTyped, LaterTyped DEF RefreshReplayed, TypeOK
  <2>3. CASE RefreshLapsed(t) \/ Rotate(t)
    <3>0. refresh[t].token \in Tokens
      BY <1>g, <2>3 DEF RefreshLapsed, Rotate
    <3>1. token' \in [Tokens -> Rows]
      <4>1. token' = [token EXCEPT ![refresh[t].token] = Revoked(token[refresh[t].token])]
        BY <2>3 DEF RefreshLapsed, Rotate, SetRow
      <4> QED
        BY <3>0, <4>1, RevokedTyped DEF TypeOK
    <3> QED
      BY <1>a, <1>c, <2>3, <3>0, <3>1, RefreshTyped DEF RefreshLapsed, Rotate, TypeOK
  <2>4. CASE RefreshCreate(t)
    <3>1. PICK k \in Tokens :
            /\ createAuthPayload(k, token[refresh[t].token].login, token[refresh[t].token].born)
            /\ SetRefresh(t, RefreshOf("created", k))
      BY <2>4 DEF RefreshCreate
    <3>2. Row(TRUE, FALSE, FALSE, token[refresh[t].token].login, token[refresh[t].token].born) \in Rows
      <4>1. refresh[t].token \in Tokens
        BY <1>g, <2>4 DEF RefreshCreate
      <4> QED
        BY <4>1 DEF Row, Rows, TypeOK
    <3> QED
      BY <1>a, <1>c, <2>4, <3>1, <3>2, RowTyped, RefreshTyped DEF RefreshCreate, createAuthPayload, TypeOK
  <2>5. CASE Renewed(t)
    <3>1. jar' \in [Browsers -> Cookies]
      BY <1>b, <1>d, <2>5 DEF Renewed, TypeOK
    <3> QED
      BY <2>5, <3>1, RefreshTyped, ResumeTyped DEF Renewed, TypeOK
  <2>6. CASE NotRenewed(t) \/ LoseRefresh(t)
    <3>1. LoseRefresh(t) => token[refresh[t].token].login \in Nat
      BY <1>g DEF LoseRefresh, TypeOK, Rows
    <3>2. /\ crossed \in SUBSET Nat
          /\ \/ crossed' = crossed
             \/ LoseRefresh(t) /\ crossed' = crossed \cup {token[refresh[t].token].login}
      BY <2>6 DEF NotRenewed, LoseRefresh, TypeOK
    <3>3. crossed' \in SUBSET Nat
      BY <3>1, <3>2
    <3> QED
      BY <2>6, <3>3, RefreshTyped, ResumeTyped DEF NotRenewed, LoseRefresh, TypeOK
  <2> QED
    BY <1>1, <2>1, <2>2, <2>3, <2>4, <2>5, <2>6 DEF RefreshStep
<1>2. ASSUME NEW t \in Tabs, NEW c \in Calls,
             CallStep(t, c) \/ \E kind \in {"data", "login", "logout"} : Send(t, c, kind)
      PROVE  TypeOK'
  <2>1. CASE \E kind \in {"data", "login", "logout"} : Send(t, c, kind)
    <3>1. PICK kind \in {"data", "login", "logout"} : Send(t, c, kind)
      BY <2>1
    <3>2. CallOf("sent", kind, FALSE, IF kind = "logout" THEN jar[t[1]] ELSE NoToken, 0) \in CallRecords
      BY <1>b, <1>c, <1>e DEF CallOf, CallRecords
    <3> QED
      BY <1>2, <3>1, <3>2, CallTyped DEF Send, TypeOK
  <2>2. CASE Served(t, c)
    BY <1>2, <2>2, CallTyped DEF Served, TypeOK
  <2>3. CASE Unauthorized(t, c)
    <3>1. [call[t][c] EXCEPT !.pc = "waiting"] \in CallRecords
      BY <1>f DEF CallRecords
    <3>2. call' \in [Tabs -> [Calls -> CallRecords]]
      BY <1>2, <2>3, <3>1, CallTyped DEF Unauthorized
    <3>3. RefreshOf("sent", jar[t[1]]) \in RefreshRecords
      BY <1>a, <1>b, <1>e
    <3>4. refresh' \in [Tabs -> RefreshRecords]
      BY <2>3, <3>3 DEF Unauthorized, TypeOK
    <3> QED
      BY <2>3, <3>2, <3>4 DEF Unauthorized, TypeOK
  <2>4. CASE LoginCreate(t, c)
    <3>1. PICK k \in Tokens :
            /\ createAuthPayload(k, logins + 1, call[t][c].born)
            /\ SetCall(t, c, CallOf("granted", "login", FALSE, k, 0))
      BY <2>4 DEF LoginCreate
    <3>2. Row(TRUE, FALSE, FALSE, logins + 1, call[t][c].born) \in Rows
      BY DEF Row, Rows, TypeOK, CallRecords
    <3>3. CallOf("granted", "login", FALSE, k, 0) \in CallRecords
      BY <1>c DEF CallOf, CallRecords
    <3>4. token' \in [Tokens -> Rows]
      BY <3>1, <3>2, RowTyped DEF createAuthPayload
    <3>5. call' \in [Tabs -> [Calls -> CallRecords]]
      BY <1>2, <3>1, <3>3, CallTyped
    <3>6. logins' \in Nat /\ raced' \in SUBSET Nat
      BY <2>4 DEF LoginCreate, TypeOK
    <3> QED
      BY <2>4, <3>4, <3>5, <3>6 DEF LoginCreate, TypeOK
  <2>5. CASE LoginAnswered(t, c)
    <3>1. jar' \in [Browsers -> Cookies]
      BY <1>2, <1>b, <1>f, <2>5 DEF LoginAnswered, TypeOK
    <3> QED
      BY <1>2, <2>5, <3>1, CallTyped DEF LoginAnswered, TypeOK
  <2>6. CASE LogoutRevoke(t, c)
    <3>1. CallOf("granted", "logout", FALSE, NoToken, 0) \in CallRecords
      BY <1>c DEF CallOf, CallRecords
    <3> QED
      BY <1>2, <2>6, <3>1, CallTyped, EndTyped DEF LogoutRevoke, TypeOK
  <2>7. CASE LogoutAnswered(t, c)
    <3>1. jar' \in [Browsers -> Cookies]
      BY <1>b, <1>c, <2>7 DEF LogoutAnswered, TypeOK
    <3> QED
      BY <1>2, <2>7, <3>1, CallTyped DEF LogoutAnswered, TypeOK
  <2>8. CASE LoginCheck(t, c)
    <3>1. CallOf("checked", "login", FALSE, NoToken, ends) \in CallRecords
      BY <1>c DEF CallOf, CallRecords, TypeOK
    <3> QED
      BY <1>2, <2>8, <3>1, CallTyped DEF LoginCheck, TypeOK
  <2> QED
    BY <1>2, <2>1, <2>2, <2>3, <2>4, <2>5, <2>6, <2>7, <2>8 DEF CallStep
<1>4. ASSUME NEW l \in Links, RequestReset(l) \/ ResetApply(l) \/ LinkExpires(l)
      PROVE  TypeOK'
  BY <1>4, EndTyped DEF RequestReset, ResetApply, LinkExpires, TypeOK
<1>5. ASSUME NEW k \in Tokens, TokenExpires(k) PROVE TypeOK'
  <2>1. [token[k] EXCEPT !.expired = TRUE] \in Rows
    BY DEF Rows, TypeOK
  <2> QED
    BY <1>5, <2>1, RowTyped DEF TokenExpires, TypeOK
<1>6. CASE Purge
  <2>1. NoRow \in Rows
    BY DEF NoRow, Row, Rows
  <2> QED
    BY <1>6, <2>1, RowTyped DEF Purge, TypeOK
<1>7. CASE UNCHANGED vars
  BY <1>7 DEF vars, TypeOK
<1> QED
  BY <1>1, <1>2, <1>4, <1>5, <1>6, <1>7 DEF Next

\* Whatever the number of browsers, tabs, calls, logins and logouts, every table, jar
\* and request keeps its type.
THEOREM TypeCorrect == Spec => []TypeOK
<1>1. Init => TypeOK
  <2>1. NoRow \in Rows
    BY DEF NoRow, Row, Rows
  <2>2. NoToken \in Cookies
    BY DEF Cookies
  <2> QED
    BY <2>1, <2>2, NoCallTyped, NoRefreshTyped DEF Init, TypeOK
<1> QED
  BY <1>1, TypeStep, PTL DEF Spec

-----------------------------------------------------------------------------
(* An ended session stays ended *)

\* The rows that a cookie, a refresh or a call names are in the table: the purge
\* leaves them.
Refs ==
  /\ \A b \in Browsers : jar[b] \in Tokens => token[jar[b]].used
  /\ \A t \in Tabs : refresh[t].token \in Tokens => token[refresh[t].token].used
  /\ \A t \in Tabs, c \in Calls : call[t][c].token \in Tokens => token[call[t][c].token].used

\* The row descends from a login whose password was checked after the last end, or
\* from one that the end did not stop.
Current(row) == row.born = ends \/ row.login \in raced

\* What is valid, or was found to be and is about to be replaced, is current.
EndInv ==
  /\ \A k \in Tokens : Live(k) => Current(token[k])
  /\ \A t \in Tabs : refresh[t].pc \in {"found", "rotated"} => Current(token[refresh[t].token])

\* The table loses no row, and a cookie, refresh or call keeps its reference, drops it,
\* or takes that to a row n of the new table.
LEMMA RefsKept ==
  ASSUME Refs, NEW n, n \in Tokens => token'[n].used,
         \A k \in Tokens : token[k].used => token'[k].used,
         \A b \in Browsers : \/ jar'[b] = jar[b]
                             \/ jar'[b] = NoToken \/ jar'[b] = n,
         \A t \in Tabs : \/ refresh'[t].token = refresh[t].token
                         \/ refresh'[t].token = NoToken \/ refresh'[t].token = n,
         \A t \in Tabs, c \in Calls : \/ call'[t][c].token = call[t][c].token
                                      \/ call'[t][c].token = NoToken \/ call'[t][c].token = n
  PROVE  Refs'
<1>0. NoToken \notin Tokens
  BY SessionAssumption
<1>1. \A b \in Browsers : jar'[b] \in Tokens => token'[jar'[b]].used
  BY <1>0 DEF Refs
<1>2. \A t \in Tabs : refresh'[t].token \in Tokens => token'[refresh'[t].token].used
  BY <1>0 DEF Refs
<1>3. \A t \in Tabs, c \in Calls : call'[t][c].token \in Tokens => token'[call'[t][c].token].used
  BY <1>0 DEF Refs
<1> QED
  BY <1>1, <1>2, <1>3 DEF Refs

\* Only a purge takes rows from the table, and it leaves the rest of it as it is.
LEMMA RowsStay ==
  ASSUME TypeOK, [Next]_vars, ~Purge
  PROVE  \A k \in Tokens : token[k].used => /\ token'[k].used
                                            /\ token'[k].born = token[k].born
                                            /\ token'[k].login = token[k].login
<1> DEFINE Stays == \A k \in Tokens : token[k].used => /\ token'[k].used
                                                       /\ token'[k].born = token[k].born
                                                       /\ token'[k].login = token[k].login
<1>a. \A k \in Tokens : /\ Revoked(token[k]).used = token[k].used
                        /\ Revoked(token[k]).born = token[k].born
                        /\ Revoked(token[k]).login = token[k].login
  BY DEF Revoked, TypeOK, Rows
<1>b. RevokeAll => Stays
  BY <1>a DEF RevokeAll
<1>c. ASSUME NEW k \in Tokens, NEW login, NEW born, createAuthPayload(k, login, born) PROVE Stays
  BY <1>c DEF createAuthPayload, SetRow, TypeOK
<1>1. ASSUME NEW t \in Tabs, RefreshStep(t) \/ LoseRefresh(t) PROVE Stays
  <2>1. CASE RefreshFind(t) \/ Renewed(t) \/ NotRenewed(t) \/ LoseRefresh(t)
    BY <2>1 DEF RefreshFind, Renewed, NotRenewed, LoseRefresh
  <2>2. CASE RefreshReplayed(t)
    BY <1>b, <2>2 DEF RefreshReplayed
  <2>3. CASE RefreshLapsed(t) \/ Rotate(t)
    <3>1. token' = [token EXCEPT ![refresh[t].token] = Revoked(token[refresh[t].token])]
      BY <2>3 DEF RefreshLapsed, Rotate, SetRow
    <3> QED
      BY <1>a, <3>1 DEF TypeOK
  <2>4. CASE RefreshCreate(t)
    BY <1>c, <2>4 DEF RefreshCreate
  <2> QED
    BY <1>1, <2>1, <2>2, <2>3, <2>4 DEF RefreshStep
<1>2. ASSUME NEW t \in Tabs, NEW c \in Calls,
             CallStep(t, c) \/ \E kind \in {"data", "login", "logout"} : Send(t, c, kind)
      PROVE  Stays
  <2>1. CASE LoginCreate(t, c)
    BY <1>c, <2>1 DEF LoginCreate
  <2>2. CASE LogoutRevoke(t, c)
    BY <1>b, <2>2 DEF LogoutRevoke, EndSessions
  <2> QED
    BY <1>2, <2>1, <2>2 DEF CallStep, Send, Served, Unauthorized, LoginCheck, LoginAnswered, LogoutAnswered
<1>3. ASSUME NEW l \in Links, RequestReset(l) \/ ResetApply(l) \/ LinkExpires(l)
      PROVE  Stays
  BY <1>3, <1>b DEF RequestReset, ResetApply, LinkExpires, EndSessions
<1>4. ASSUME NEW k \in Tokens, TokenExpires(k) PROVE Stays
  BY <1>4 DEF TokenExpires, SetRow, TypeOK, Rows
<1>5. CASE UNCHANGED vars
  BY <1>5 DEF vars
<1> QED
  BY <1>1, <1>2, <1>3, <1>4, <1>5 DEF Next

\* What Resume leaves in a call names a row that the call named before, or none.
LEMMA ResumeNames ==
  ASSUME TypeOK, NEW t \in Tabs, NEW ok, Resume(t, ok)
  PROVE  \A u \in Tabs, c \in Calls : call'[u][c].token = call[u][c].token \/ call'[u][c].token = NoToken
<1> SUFFICES ASSUME NEW u \in Tabs, NEW c \in Calls
             PROVE  call'[u][c].token = call[u][c].token \/ call'[u][c].token = NoToken
  OBVIOUS
<1>1. CASE u # t
  BY <1>1 DEF Resume, TypeOK
<1>2. CASE u = t
  <2>1. call'[t][c] = IF call[t][c].pc # "waiting" THEN call[t][c]
                      ELSE IF ok THEN CallOf("sent", call[t][c].kind, TRUE, NoToken, 0) ELSE NoCall
    BY DEF Resume, TypeOK
  <2> QED
    BY <1>2, <2>1 DEF CallOf, NoCall
<1> QED
  BY <1>1, <1>2

\* The same of a call that is set.
LEMMA CallNames ==
  ASSUME TypeOK, NEW t \in Tabs, NEW c \in Calls, NEW r, SetCall(t, c, r)
  PROVE  \A u \in Tabs, d \in Calls :
           call'[u][d].token = call[u][d].token \/ call'[u][d].token = r.token
<1>1. /\ call'[t][c] = r
      /\ \A u \in Tabs, d \in Calls : u # t \/ d # c => call'[u][d] = call[u][d]
  BY DEF SetCall, TypeOK
<1> QED
  BY <1>1

\* Every step keeps the references.
LEMMA RefsStep ==
  ASSUME TypeOK, Refs, [Next]_vars
  PROVE  Refs'
<1> DEFINE Stays == \A k \in Tokens : token[k].used => token'[k].used
<1>0. NoToken \notin Tokens /\ (~Purge => Stays)
  BY RowsStay, SessionAssumption
<1>a. \A t \in Tabs : t[1] \in Browsers
  BY DEF Tabs
<1>b. ASSUME NEW t \in Tabs, NEW r, SetRefresh(t, r)
      PROVE  refresh'[t] = r /\ \A u \in Tabs : u # t => refresh'[u] = refresh[u]
  BY <1>b DEF SetRefresh, TypeOK
<1>d. /\ NoCall.token = NoToken /\ NoRefresh.token = NoToken
      /\ \A pc, k : RefreshOf(pc, k).token = k
  BY DEF NoCall, NoRefresh, RefreshOf, CallOf
<1>e. ASSUME NEW k \in Tokens, NEW login, NEW born, createAuthPayload(k, login, born)
      PROVE  token'[k].used
  BY <1>e DEF createAuthPayload, SetRow, Row, TypeOK
<1>f. ASSUME NEW t \in Tabs, NEW k,
             jar' = [jar EXCEPT ![t[1]] = k]
      PROVE  \A b \in Browsers : jar'[b] = jar[b] \/ jar'[b] = k
  BY <1>a, <1>f DEF TypeOK
<1>1. ASSUME NEW t \in Tabs, RefreshStep(t) \/ LoseRefresh(t), ~Purge PROVE Refs'
  <2>1. CASE RefreshFind(t) \/ RefreshReplayed(t) \/ RefreshLapsed(t) \/ Rotate(t)
    <3>1. \A u \in Tabs : refresh'[u].token = refresh[u].token \/ refresh'[u].token = NoToken
      BY <1>b, <1>d, <2>1 DEF RefreshFind, RefreshReplayed, RefreshLapsed, Rotate
    <3>2. jar' = jar /\ call' = call
      BY <2>1 DEF RefreshFind, RefreshReplayed, RefreshLapsed, Rotate
    <3> QED
      BY <1>0, <1>1, <3>1, <3>2, RefsKept
  <2>2. CASE RefreshCreate(t)
    <3>1. PICK k \in Tokens :
            /\ createAuthPayload(k, token[refresh[t].token].login, token[refresh[t].token].born)
            /\ SetRefresh(t, RefreshOf("created", k))
      BY <2>2 DEF RefreshCreate
    <3>2. \A u \in Tabs : refresh'[u].token = refresh[u].token \/ refresh'[u].token = k
      BY <1>b, <1>d, <3>1
    <3>3. token'[k].used
      BY <1>e, <3>1
    <3> QED
      BY <1>0, <1>1, <2>2, <3>2, <3>3, RefsKept DEF RefreshCreate
  <2>3. CASE Renewed(t) \/ NotRenewed(t) \/ LoseRefresh(t)
    <3>1. \A u \in Tabs : refresh'[u].token = refresh[u].token \/ refresh'[u].token = NoToken
      BY <1>b, <1>d, <2>3 DEF Renewed, NotRenewed, LoseRefresh
    <3>2. \A u \in Tabs, c \in Calls : call'[u][c].token = call[u][c].token \/ call'[u][c].token = NoToken
      BY <2>3, ResumeNames DEF Renewed, NotRenewed, LoseRefresh
    <3>3. \A b \in Browsers : jar'[b] = jar[b] \/ jar'[b] = refresh[t].token
      BY <1>f, <2>3 DEF Renewed, NotRenewed, LoseRefresh
    <3>4. refresh[t].token \in Tokens => token'[refresh[t].token].used
      BY <1>0, <1>1 DEF Refs
    <3> QED
      BY <1>0, <1>1, <3>1, <3>2, <3>3, <3>4, RefsKept
  <2> QED
    BY <1>1, <2>1, <2>2, <2>3 DEF RefreshStep
<1>2. ASSUME NEW t \in Tabs, NEW c \in Calls, ~Purge,
             CallStep(t, c) \/ \E kind \in {"data", "login", "logout"} : Send(t, c, kind)
      PROVE  Refs'
  <2>1. CASE \E kind \in {"data", "login", "logout"} : Send(t, c, kind)
    <3>1. \A u \in Tabs, d \in Calls : \/ call'[u][d].token = call[u][d].token
                                       \/ call'[u][d].token = NoToken
                                       \/ call'[u][d].token = jar[t[1]]
      <4>1. PICK kind \in {"data", "login", "logout"} : Send(t, c, kind)
        BY <2>1
      <4> DEFINE r == CallOf("sent", kind, FALSE, IF kind = "logout" THEN jar[t[1]] ELSE NoToken, 0)
      <4>2. SetCall(t, c, r)
        BY <4>1 DEF Send
      <4>3. r.token = NoToken \/ r.token = jar[t[1]]
        BY DEF CallOf
      <4> HIDE DEF r
      <4> QED
        BY <4>2, <4>3, CallNames
    <3>2. jar[t[1]] \in Tokens => token'[jar[t[1]]].used
      BY <1>0, <1>2, <1>a DEF Refs
    <3>3. jar' = jar /\ refresh' = refresh
      BY <2>1 DEF Send
    <3> QED
      BY <1>0, <1>2, <3>1, <3>2, <3>3, RefsKept
  <2>2. CASE Unauthorized(t, c)
    <3>1. \A u \in Tabs, d \in Calls : call'[u][d].token = call[u][d].token \/ call'[u][d].token = NoToken
      <4>1. CASE SetCall(t, c, NoCall)
        BY <1>d, <4>1, CallNames
      <4>2. CASE SetCall(t, c, [call[t][c] EXCEPT !.pc = "waiting"])
        <5> DEFINE r == [call[t][c] EXCEPT !.pc = "waiting"]
        <5>1. r.token = call[t][c].token
          BY DEF TypeOK, CallRecords
        <5>2. \A u \in Tabs, d \in Calls :
                call'[u][d].token = call[u][d].token \/ (u = t /\ d = c /\ call'[u][d] = r)
          BY <4>2 DEF SetCall, TypeOK
        <5> QED
          BY <5>1, <5>2
      <4> QED
        BY <2>2, <4>1, <4>2 DEF Unauthorized
    <3>2. \A u \in Tabs : refresh'[u].token = refresh[u].token \/ refresh'[u].token = jar[t[1]]
      BY <1>d, <2>2 DEF Unauthorized, TypeOK
    <3>3. jar[t[1]] \in Tokens => token'[jar[t[1]]].used
      BY <1>0, <1>2, <1>a DEF Refs
    <3>4. jar' = jar
      BY <2>2 DEF Unauthorized
    <3> QED
      BY <1>0, <1>2, <3>1, <3>2, <3>3, <3>4, RefsKept
  <2>3. CASE LoginCreate(t, c)
    <3>1. PICK k \in Tokens :
            /\ createAuthPayload(k, logins + 1, call[t][c].born)
            /\ SetCall(t, c, CallOf("granted", "login", FALSE, k, 0))
      BY <2>3 DEF LoginCreate
    <3>2. \A u \in Tabs, d \in Calls : call'[u][d].token = call[u][d].token \/ call'[u][d].token = k
      <4> DEFINE r == CallOf("granted", "login", FALSE, k, 0)
      <4>1. SetCall(t, c, r) /\ r.token = k
        BY <3>1 DEF CallOf
      <4> HIDE DEF r
      <4> QED
        BY <4>1, CallNames
    <3>3. token'[k].used
      BY <1>e, <3>1
    <3> QED
      BY <1>0, <1>2, <2>3, <3>2, <3>3, RefsKept DEF LoginCreate
  <2>4. CASE \/ LoginAnswered(t, c) \/ LogoutAnswered(t, c) \/ Served(t, c) \/ LogoutRevoke(t, c)
             \/ LoginCheck(t, c)
    <3>1. \A u \in Tabs, d \in Calls : call'[u][d].token = call[u][d].token \/ call'[u][d].token = NoToken
      <4>1. CASE SetCall(t, c, NoCall)
        BY <1>d, <4>1, CallNames
      <4>2. CASE LogoutRevoke(t, c)
        <5> DEFINE r == CallOf("granted", "logout", FALSE, NoToken, 0)
        <5>1. SetCall(t, c, r) /\ r.token = NoToken
          BY <4>2 DEF LogoutRevoke, CallOf
        <5> HIDE DEF r
        <5> QED
          BY <5>1, CallNames
      <4>3. CASE LoginCheck(t, c)
        <5> DEFINE r == CallOf("checked", "login", FALSE, NoToken, ends)
        <5>1. SetCall(t, c, r) /\ r.token = NoToken
          BY <4>3 DEF LoginCheck, CallOf
        <5> HIDE DEF r
        <5> QED
          BY <5>1, CallNames
      <4> QED
        BY <2>4, <4>1, <4>2, <4>3 DEF LoginAnswered, LogoutAnswered, Served
    <3>2. \A b \in Browsers : jar'[b] = jar[b] \/ jar'[b] = NoToken \/ jar'[b] = call[t][c].token
      BY <1>f, <2>4 DEF LoginAnswered, LogoutAnswered, Served, LogoutRevoke, LoginCheck
    <3>3. call[t][c].token \in Tokens => token'[call[t][c].token].used
      BY <1>0, <1>2 DEF Refs
    <3>4. refresh' = refresh
      BY <2>4 DEF LoginAnswered, LogoutAnswered, Served, LogoutRevoke, LoginCheck
    <3> QED
      BY <1>0, <1>2, <3>1, <3>2, <3>3, <3>4, RefsKept
  <2> QED
    BY <1>2, <2>1, <2>2, <2>3, <2>4 DEF CallStep
<1>3. CASE Purge
  <2>1. PICK k \in Tokens : /\ \A b \in Browsers : jar[b] # k
                            /\ \A t \in Tabs : refresh[t].token # k /\ \A c \in Calls : call[t][c].token # k
                            /\ SetRow(k, NoRow)
    BY <1>3 DEF Purge
  <2>2. \A x \in Tokens : x # k => token'[x] = token[x]
    BY <2>1 DEF SetRow, TypeOK
  <2>3. jar' = jar /\ refresh' = refresh /\ call' = call
    BY <1>3 DEF Purge
  <2> QED
    BY <2>1, <2>2, <2>3 DEF Refs
<1>5. CASE /\ ~Purge
           /\ \/ \E l \in Links : RequestReset(l) \/ ResetApply(l) \/ LinkExpires(l)
              \/ \E k \in Tokens : TokenExpires(k)
              \/ UNCHANGED vars
  <2>1. jar' = jar /\ refresh' = refresh /\ call' = call
    BY <1>5 DEF RequestReset, ResetApply, LinkExpires, TokenExpires, vars
  <2> QED
    BY <1>0, <1>5, <2>1, RefsKept
<1> QED
  BY <1>1, <1>2, <1>3, <1>5 DEF Next

\* EndInv survives a step that ends no session: what becomes valid or is found valid is
\* current, and the rest keeps its row.
LEMMA EndKept ==
  ASSUME TypeOK, Refs, EndInv, ends' = ends, raced \subseteq raced',
         \A k \in Tokens : token[k].used =>
           \/ token'[k].born = token[k].born /\ token'[k].login = token[k].login
           \/ \A t \in Tabs : refresh'[t].token # k,
         \A k \in Tokens : Live(k)' =>
           \/ Live(k) /\ token'[k].born = token[k].born /\ token'[k].login = token[k].login
           \/ token'[k].born = ends \/ token'[k].login \in raced',
         \A t \in Tabs : refresh'[t].pc \in {"found", "rotated"}
           => \/ refresh'[t] = refresh[t]
              \/ LET row == token'[refresh'[t].token] IN row.born = ends \/ row.login \in raced'
  PROVE  EndInv'
<1>1. \A k \in Tokens : Live(k) => token[k].born = ends \/ token[k].login \in raced
  BY DEF EndInv, Current
<1>2. \A t \in Tabs : refresh[t].pc \in {"found", "rotated"} =>
        /\ token[refresh[t].token].born = ends \/ token[refresh[t].token].login \in raced
        /\ refresh[t].token \in Tokens /\ token[refresh[t].token].used
  BY DEF EndInv, Current, Refs, TypeOK, RefreshRecords
<1>3. \A k \in Tokens : Live(k)' => token'[k].born = ends' \/ token'[k].login \in raced'
  BY <1>1
<1>4. \A t \in Tabs : refresh'[t].pc \in {"found", "rotated"} =>
        LET row == token'[refresh'[t].token] IN row.born = ends' \/ row.login \in raced'
  BY <1>2
<1> QED
  BY <1>3, <1>4 DEF EndInv, Current

\* A logout or a reset leaves no token valid; the login of a refresh that it overtook
\* is in raced.
LEMMA EndEnds ==
  ASSUME TypeOK, Refs, EndSessions, refresh' = refresh
  PROVE  EndInv'
<1>0. \A k \in Tokens : token'[k] = IF token[k].used THEN Revoked(token[k]) ELSE NoRow
  BY DEF EndSessions, RevokeAll
<1>1. \A k \in Tokens : ~Live(k)'
  <2> SUFFICES ASSUME NEW k \in Tokens PROVE ~Live(k)'
    OBVIOUS
  <2>1. Revoked(token[k]).revoked = TRUE /\ NoRow.used = FALSE
    BY DEF Revoked, NoRow, Row, TypeOK, Rows
  <2> QED
    BY <1>0, <2>1 DEF Live
<1>2. ASSUME NEW t \in Tabs, refresh'[t].pc \in {"found", "rotated"}
      PROVE  token'[refresh'[t].token].login \in raced'
  <2>1. /\ refresh[t].pc \in {"found", "rotated"}
        /\ refresh[t].token \in Tokens /\ token[refresh[t].token].used
    BY <1>2 DEF TypeOK, RefreshRecords, Refs
  <2>2. token'[refresh[t].token].login = token[refresh[t].token].login
    BY <1>0, <2>1 DEF Revoked, TypeOK, Rows
  <2>3. token[refresh[t].token].login \in raced'
    BY <2>1 DEF EndSessions
  <2> QED
    BY <2>2, <2>3
<1> QED
  BY <1>1, <1>2 DEF EndInv, Current

\* Every step keeps EndInv.
LEMMA EndStep ==
  ASSUME TypeOK, Refs, EndInv, [Next]_vars
  PROVE  EndInv'
<1>0. raced \subseteq raced'
  <2>1. EndSessions => raced \subseteq raced'
    BY DEF EndSessions
  <2>2. ASSUME NEW t \in Tabs, RefreshStep(t) \/ LoseRefresh(t) PROVE raced' = raced
    BY <2>2, Zenon DEF RefreshStep, RefreshFind, RefreshReplayed, RefreshLapsed, Rotate,
         RefreshCreate, Renewed, NotRenewed, LoseRefresh
  <2>3. ASSUME NEW t \in Tabs, NEW c \in Calls,
               CallStep(t, c) \/ \E kind \in {"data", "login", "logout"} : Send(t, c, kind)
        PROVE  raced \subseteq raced' \/ EndSessions
    <3>1. CASE LoginCreate(t, c)
      BY <3>1 DEF LoginCreate
    <3>2. CASE ~LoginCreate(t, c)
      BY <2>3, <3>2, Zenon DEF CallStep, Send, Served, Unauthorized, LoginCheck, LoginAnswered,
         LogoutRevoke, LogoutAnswered
    <3> QED
      BY <3>1, <3>2
  <2>4. ASSUME NEW l \in Links, RequestReset(l) \/ ResetApply(l) \/ LinkExpires(l)
        PROVE  raced' = raced \/ EndSessions
    BY <2>4, Zenon DEF RequestReset, ResetApply, LinkExpires
  <2>5. CASE \/ \E k \in Tokens : TokenExpires(k)
             \/ Purge \/ UNCHANGED vars
    BY <2>5, Zenon DEF TokenExpires, Purge, vars
  <2> QED
    BY <2>1, <2>2, <2>3, <2>4, <2>5, Zenon DEF Next
<1>a. ASSUME token' = token, refresh' = refresh, ends' = ends PROVE EndInv'
  BY <1>0, <1>a, EndKept DEF Live
<1>b. ASSUME NEW t \in Tabs, NEW r, SetRefresh(t, r)
      PROVE  refresh'[t] = r /\ \A u \in Tabs : u # t => refresh'[u] = refresh[u]
  BY <1>b DEF SetRefresh, TypeOK
<1>d. /\ NoRefresh.pc = "none"
      /\ \A pc, k : RefreshOf(pc, k).token = k /\ RefreshOf(pc, k).pc = pc
  BY DEF NoRefresh, RefreshOf
<1>e. ~Purge => \A k \in Tokens : token[k].used =>
        token'[k].born = token[k].born /\ token'[k].login = token[k].login
  BY RowsStay
<1>f. \A k \in Tokens : /\ Revoked(token[k]).revoked /\ Revoked(token[k]).born = token[k].born
                        /\ Revoked(token[k]).login = token[k].login
  BY DEF Revoked, TypeOK, Rows
<1>g. ASSUME NEW k \in Tokens, NEW login, NEW born, createAuthPayload(k, login, born)
      PROVE  /\ token'[k].born = born /\ token'[k].login = login
             /\ \A x \in Tokens : x # k => token'[x] = token[x]
  BY <1>g DEF createAuthPayload, SetRow, Row, TypeOK
<1>1. ASSUME NEW t \in Tabs, RefreshStep(t) \/ LoseRefresh(t), ~Purge PROVE EndInv'
  <2>1. CASE RefreshFind(t)
    <3>0. token' = token /\ ends' = ends
      BY <2>1 DEF RefreshFind
    <3>1. refresh'[t].pc \in {"found", "rotated"} =>
            token[refresh'[t].token].born = ends \/ token[refresh'[t].token].login \in raced
      <4> SUFFICES ASSUME refresh'[t].pc \in {"found", "rotated"}
                   PROVE  token[refresh'[t].token].born = ends \/ token[refresh'[t].token].login \in raced
        OBVIOUS
      <4>1. /\ refresh[t].token # NoToken /\ ~token[refresh[t].token].revoked
            /\ ~token[refresh[t].token].expired
            /\ refresh'[t].token = refresh[t].token
        BY <1>b, <1>d, <2>1 DEF RefreshFind
      <4>2. refresh[t].token \in Tokens
        BY <4>1 DEF TypeOK, RefreshRecords, Cookies
      <4>3. Live(refresh[t].token)
        BY <4>1, <4>2 DEF Refs, Live
      <4> QED
        BY <4>1, <4>2, <4>3 DEF EndInv, Current
    <3>2. \A u \in Tabs : u # t => refresh'[u] = refresh[u]
      BY <1>b, <2>1 DEF RefreshFind
    <3> QED
      BY <1>0, <3>0, <3>1, <3>2, EndKept DEF Live
  <2>2. CASE RefreshReplayed(t)
    <3>1. \A k \in Tokens : ~Live(k)'
      <4> SUFFICES ASSUME NEW k \in Tokens PROVE ~Live(k)'
        OBVIOUS
      <4>1. token'[k] = IF token[k].used THEN Revoked(token[k]) ELSE NoRow
        BY <2>2 DEF RefreshReplayed, RevokeAll
      <4>2. NoRow.used = FALSE
        BY DEF NoRow, Row
      <4> QED
        BY <1>f, <4>1, <4>2 DEF Live
    <3>2. \A u \in Tabs : refresh'[u].pc \in {"found", "rotated"} => refresh'[u] = refresh[u]
      BY <1>b, <1>d, <2>2 DEF RefreshReplayed
    <3> QED
      BY <1>0, <1>1, <1>e, <2>2, <3>1, <3>2, EndKept DEF RefreshReplayed
  <2>3. CASE RefreshLapsed(t) \/ Rotate(t)
    <3>1. /\ token' = [token EXCEPT ![refresh[t].token] = Revoked(token[refresh[t].token])]
          /\ refresh[t].token \in Tokens /\ ends' = ends
      BY <2>3 DEF RefreshLapsed, Rotate, SetRow, TypeOK, RefreshRecords
    <3>2. \A k \in Tokens : Live(k)' => /\ Live(k) /\ token'[k].born = token[k].born
                                        /\ token'[k].login = token[k].login
      BY <1>f, <3>1 DEF Live, TypeOK
    <3>3. LET k == refresh[t].token IN token'[k].born = token[k].born /\ token'[k].login = token[k].login
      BY <1>f, <3>1 DEF TypeOK
    <3>4. CASE RefreshLapsed(t)
      <4>1. \A u \in Tabs : refresh'[u].pc \in {"found", "rotated"} => refresh'[u] = refresh[u]
        BY <1>b, <1>d, <3>4 DEF RefreshLapsed
      <4> QED
        BY <1>0, <1>1, <1>e, <3>1, <3>2, <4>1, EndKept
    <3>5. CASE Rotate(t)
      <4>1. /\ refresh'[t].token = refresh[t].token
            /\ token[refresh[t].token].born = ends \/ token[refresh[t].token].login \in raced
        BY <1>b, <1>d, <3>5 DEF Rotate, EndInv, Current
      <4>2. \A u \in Tabs : u # t => refresh'[u] = refresh[u]
        BY <1>b, <3>5 DEF Rotate
      <4> QED
        BY <1>0, <1>1, <1>e, <3>1, <3>2, <3>3, <4>1, <4>2, EndKept
    <3> QED
      BY <2>3, <3>4, <3>5
  <2>4. CASE RefreshCreate(t)
    <3>1. PICK k \in Tokens :
            /\ createAuthPayload(k, token[refresh[t].token].login, token[refresh[t].token].born)
            /\ SetRefresh(t, RefreshOf("created", k))
      BY <2>4 DEF RefreshCreate
    <3>2. /\ token[refresh[t].token].born = ends \/ token[refresh[t].token].login \in raced
          /\ ends' = ends
      BY <2>4 DEF RefreshCreate, EndInv, Current
    <3>3. \A x \in Tokens : Live(x)' =>
            \/ Live(x) /\ token'[x].born = token[x].born /\ token'[x].login = token[x].login
            \/ token'[x].born = ends \/ token'[x].login \in raced'
      BY <1>0, <1>g, <3>1, <3>2 DEF Live
    <3>4. \A u \in Tabs : refresh'[u].pc \in {"found", "rotated"} => refresh'[u] = refresh[u]
      BY <1>b, <1>d, <3>1
    <3> QED
      BY <1>0, <1>1, <1>e, <3>2, <3>3, <3>4, EndKept
  <2>5. CASE Renewed(t) \/ NotRenewed(t) \/ LoseRefresh(t)
    <3>1. \A u \in Tabs : refresh'[u].pc \in {"found", "rotated"} => refresh'[u] = refresh[u]
      BY <1>b, <1>d, <2>5 DEF Renewed, NotRenewed, LoseRefresh
    <3>2. token' = token /\ ends' = ends
      BY <2>5 DEF Renewed, NotRenewed, LoseRefresh
    <3> QED
      BY <1>0, <3>1, <3>2, EndKept DEF Live
  <2> QED
    BY <1>1, <2>1, <2>2, <2>3, <2>4, <2>5 DEF RefreshStep
<1>2. ASSUME NEW t \in Tabs, NEW c \in Calls, ~Purge,
             CallStep(t, c) \/ \E kind \in {"data", "login", "logout"} : Send(t, c, kind)
      PROVE  EndInv'
  <2>1. CASE \/ Served(t, c) \/ LoginCheck(t, c) \/ LoginAnswered(t, c) \/ LogoutAnswered(t, c)
             \/ \E kind \in {"data", "login", "logout"} : Send(t, c, kind)
    BY <1>a, <2>1 DEF Served, LoginCheck, LoginAnswered, LogoutAnswered, Send
  <2>2. CASE Unauthorized(t, c)
    <3>1. token' = token /\ ends' = ends
      BY <2>2 DEF Unauthorized
    <3>2. \A u \in Tabs : refresh'[u].pc \in {"found", "rotated"} => refresh'[u] = refresh[u]
      BY <1>d, <2>2 DEF Unauthorized, TypeOK
    <3> QED
      BY <1>0, <3>1, <3>2, EndKept DEF Live
  <2>3. CASE LoginCreate(t, c)
    <3>1. PICK k \in Tokens : createAuthPayload(k, logins + 1, call[t][c].born)
      BY <2>3 DEF LoginCreate
    <3>2. \A x \in Tokens : Live(x)' =>
            \/ Live(x) /\ token'[x].born = token[x].born /\ token'[x].login = token[x].login
            \/ token'[x].born = ends \/ token'[x].login \in raced'
      BY <1>g, <2>3, <3>1 DEF Live, LoginCreate
    <3>3. refresh' = refresh /\ ends' = ends
      BY <2>3 DEF LoginCreate
    <3> QED
      BY <1>0, <1>2, <1>e, <3>2, <3>3, EndKept
  <2>4. CASE LogoutRevoke(t, c)
    <3>1. CASE call[t][c].token = NoToken
      BY <1>a, <2>4, <3>1 DEF LogoutRevoke
    <3>2. CASE call[t][c].token # NoToken
      BY <2>4, <3>2, EndEnds DEF LogoutRevoke
    <3> QED
      BY <3>1, <3>2
  <2> QED
    BY <1>2, <2>1, <2>2, <2>3, <2>4 DEF CallStep
<1>3. CASE Purge
  <2>1. PICK k \in Tokens : /\ \A t \in Tabs : refresh[t].token # k
                            /\ SetRow(k, NoRow)
    BY <1>3 DEF Purge
  <2>2. /\ \A x \in Tokens : x # k => token'[x] = token[x]
        /\ token'[k] = NoRow /\ NoRow.used = FALSE
    BY <2>1 DEF SetRow, TypeOK, NoRow, Row
  <2>3. refresh' = refresh /\ ends' = ends
    BY <1>3 DEF Purge
  <2>4. \A x \in Tokens : Live(x)' => /\ Live(x) /\ token'[x].born = token[x].born
                                      /\ token'[x].login = token[x].login
    BY <2>2 DEF Live
  <2> QED
    BY <1>0, <2>1, <2>2, <2>3, <2>4, EndKept
<1>4. ASSUME NEW l \in Links, ResetApply(l) PROVE EndInv'
  BY <1>4, EndEnds DEF ResetApply
<1>5. ASSUME NEW k \in Tokens, TokenExpires(k), ~Purge PROVE EndInv'
  <2>1. token' = [token EXCEPT ![k] = [token[k] EXCEPT !.expired = TRUE]]
    BY <1>5 DEF TokenExpires, SetRow
  <2>2. [token[k] EXCEPT !.expired = TRUE].expired = TRUE
    BY DEF TypeOK, Rows
  <2>3. \A x \in Tokens : Live(x)' => /\ Live(x) /\ token'[x].born = token[x].born
                                      /\ token'[x].login = token[x].login
    BY <2>1, <2>2 DEF Live, TypeOK
  <2>4. refresh' = refresh /\ ends' = ends
    BY <1>5 DEF TokenExpires
  <2> QED
    BY <1>0, <1>5, <1>e, <2>3, <2>4, EndKept
<1>6. CASE \/ \E l \in Links : RequestReset(l) \/ LinkExpires(l)
           \/ UNCHANGED vars
  BY <1>6, <1>a DEF RequestReset, LinkExpires, vars
<1> QED
  BY <1>1, <1>2, <1>3, <1>4, <1>5, <1>6 DEF Next

\* However many browsers hold a cookie of the user and whichever answers are late: after
\* a logout or a reset every valid token descends from a login whose password was checked
\* later, or from the login of a refresh that had found its token valid at that moment, or
\* of a password that had been checked but whose token had not been inserted.
THEOREM EndedForGoodHolds == Spec => []EndedForGood
<1>1. Init => Refs /\ EndInv
  <2>1. /\ NoRow.used = FALSE /\ NoRefresh.pc = "none"
        /\ NoRefresh.token = NoToken /\ NoCall.token = NoToken /\ NoToken \notin Tokens
    BY SessionAssumption DEF NoRow, Row, NoRefresh, RefreshOf, NoCall, CallOf
  <2>2. Init => Refs
    BY <2>1 DEF Init, Refs
  <2>3. Init => EndInv
    BY <2>1 DEF Init, EndInv, Live
  <2> QED
    BY <2>2, <2>3
<1>2. TypeOK /\ (Refs /\ EndInv) /\ [Next]_vars => (Refs /\ EndInv)'
  BY RefsStep, EndStep
<1>3. EndInv => EndedForGood
  BY DEF EndInv, Current, EndedForGood
<1> QED
  BY <1>1, <1>2, <1>3, TypeCorrect, PTL DEF Spec

-----------------------------------------------------------------------------
(* One login, one valid token.  The refreshPromise belongs to a tab: two   *)
(* tabs of a browser can exchange the same cookie, and leave two tokens.   *)
OneTab == \E t : TabIds = {t}

\* The rows that browser b, its refreshes and its calls name.
Names(b, k) ==
  \/ jar[b] = k
  \/ \E t \in Tabs : t[1] = b /\ (refresh[t].token = k \/ \E c \in Calls : call[t][c].token = k)

\* What descends from one login is named by one browser, has at most one valid token,
\* and none any more when a refresh is about to insert the next.
FamilyInv ==
  /\ \A k \in Tokens : token[k].login <= logins
  /\ \A a, b \in Browsers, k, l \in Tokens :
       Names(a, k) /\ Names(b, l) /\ token[k].login = token[l].login => a = b
  /\ OneLiveTokenPerLogin
  /\ \A t \in Tabs, k \in Tokens :
       refresh[t].pc \in {"found", "rotated"} /\ Live(k) /\ token[k].login = token[refresh[t].token].login
         => refresh[t].pc = "found" /\ k = refresh[t].token

\* A step that issues no token keeps the family.
LEMMA FamilyKept ==
  ASSUME TypeOK, TypeOK', FamilyInv,
         \A k \in Tokens : token'[k].login <= logins',
         \A k \in Tokens : Live(k)' => Live(k) /\ token'[k].login = token[k].login,
         \A b \in Browsers, k \in Tokens : Names(b, k)' => Names(b, k) /\ token'[k].login = token[k].login,
         \A t \in Tabs : refresh'[t].pc = "found" => refresh'[t] = refresh[t] \/ Live(refresh'[t].token),
         \A t \in Tabs : refresh'[t].pc = "rotated" =>
           \/ refresh'[t] = refresh[t]
           \/ /\ refresh[t].pc = "found" /\ refresh'[t].token = refresh[t].token
              /\ ~Live(refresh[t].token)'
  PROVE  FamilyInv'
<1>1. \A a, b \in Browsers, k, l \in Tokens :
        Names(a, k)' /\ Names(b, l)' /\ token'[k].login = token'[l].login => a = b
  BY DEF FamilyInv
<1>2. OneLiveTokenPerLogin'
  BY DEF FamilyInv, OneLiveTokenPerLogin
<1>3. ASSUME NEW t \in Tabs, NEW k \in Tokens, refresh'[t].pc \in {"found", "rotated"}, Live(k)',
             token'[k].login = token'[refresh'[t].token].login
      PROVE  refresh'[t].pc = "found" /\ k = refresh'[t].token
  <2>1. refresh'[t].token \in Tokens /\ t[1] \in Browsers
    BY <1>3 DEF TypeOK, RefreshRecords, Tabs
  <2>2. Names(t[1], refresh[t].token)'
    BY DEF Names
  <2>3. Live(k) /\ token[k].login = token[refresh'[t].token].login
    BY <1>3, <2>1, <2>2
  <2>4. CASE refresh'[t] = refresh[t]
    BY <1>3, <2>3, <2>4 DEF FamilyInv
  <2>5. CASE refresh'[t].pc = "found" /\ Live(refresh'[t].token)
    BY <2>1, <2>3, <2>5 DEF FamilyInv, OneLiveTokenPerLogin
  <2>6. CASE /\ refresh[t].pc = "found" /\ refresh'[t].token = refresh[t].token
             /\ ~Live(refresh[t].token)'
    BY <1>3, <2>3, <2>6 DEF FamilyInv
  <2> QED
    BY <1>3, <2>4, <2>5, <2>6
<1> QED
  BY <1>1, <1>2, <1>3 DEF FamilyInv

\* A new row k is issued to browser b, to a login of its own or to one that b has and
\* that has no valid token.
LEMMA FamilyGrows ==
  ASSUME TypeOK, TypeOK', FamilyInv, NEW k \in Tokens, NEW b \in Browsers, ~token[k].used,
         \A l \in Tokens \ {k} : token'[l] = token[l],
         token'[k].login <= logins', logins <= logins',
         \A a \in Browsers, l \in Tokens : Names(a, l)' => IF l = k THEN a = b ELSE Names(a, l),
         \A a \in Browsers, l \in Tokens : Names(a, l) /\ token[l].login = token'[k].login => a = b,
         \A l \in Tokens \ {k} : Live(l) => token[l].login # token'[k].login,
         \A t \in Tabs : refresh'[t].pc \in {"found", "rotated"} =>
           /\ refresh'[t] = refresh[t] /\ refresh[t].token # k
           /\ token[refresh[t].token].login # token'[k].login
  PROVE  FamilyInv'
<1>1. \A l \in Tokens : token'[l].login <= logins'
  BY DEF FamilyInv, TypeOK, Rows
<1>2. \A a, d \in Browsers, m, l \in Tokens :
        Names(a, m)' /\ Names(d, l)' /\ token'[m].login = token'[l].login => a = d
  BY DEF FamilyInv
<1>3. \A l \in Tokens \ {k} : Live(l)' => Live(l)
  BY DEF Live
<1>4. OneLiveTokenPerLogin'
  BY <1>3 DEF FamilyInv, OneLiveTokenPerLogin
<1>5. \A t \in Tabs : refresh'[t].pc \in {"found", "rotated"} => refresh'[t].token \in Tokens
  BY DEF TypeOK, RefreshRecords
<1>6. ASSUME NEW t \in Tabs, NEW l \in Tokens, refresh'[t].pc \in {"found", "rotated"}, Live(l)',
             token'[l].login = token'[refresh'[t].token].login
      PROVE  refresh'[t].pc = "found" /\ l = refresh'[t].token
  <2>1. l # k
    BY <1>5, <1>6
  <2> QED
    BY <1>3, <1>5, <1>6, <2>1 DEF FamilyInv
<1> QED
  BY <1>1, <1>2, <1>4, <1>6 DEF FamilyInv

\* A cookie, a refresh or a call names nothing that its browser has not named.
LEMMA NamesKept ==
  ASSUME \A b \in Browsers : jar'[b] = NoToken \/ Names(b, jar'[b]),
         \A t \in Tabs : refresh'[t].token = NoToken \/ Names(t[1], refresh'[t].token),
         \A t \in Tabs, c \in Calls : call'[t][c].token = NoToken \/ Names(t[1], call'[t][c].token)
  PROVE  \A b \in Browsers, k \in Tokens : Names(b, k)' => Names(b, k)
<1>1. NoToken \notin Tokens
  BY SessionAssumption
<1> QED
  BY <1>1 DEF Names

\* What is there is named.
LEMMA NamesOwn ==
  /\ \A b \in Browsers : Names(b, jar[b])
  /\ \A t \in Tabs : Names(t[1], refresh[t].token)
  /\ \A t \in Tabs, c \in Calls : Names(t[1], call[t][c].token)
  /\ \A t \in Tabs : t[1] \in Browsers
BY DEF Names, Tabs

\* The table issues no token: what is valid was, and what is named keeps its login.
Shrinks ==
  \A k \in Tokens :
    /\ token'[k].login <= logins
    /\ Live(k)' => Live(k) /\ token'[k].login = token[k].login
    /\ \A b \in Browsers : Names(b, k) => token'[k].login = token[k].login

LEMMA NamedUsed ==
  ASSUME TypeOK, Refs
  PROVE  \A b \in Browsers, k \in Tokens : Names(b, k) => token[k].used
BY DEF Refs, Names

LEMMA RowFacts ==
  ASSUME TypeOK
  PROVE  /\ NoRow.used = FALSE /\ NoRow.login = 0
         /\ \A k \in Tokens : /\ Revoked(token[k]).login = token[k].login
                              /\ Revoked(token[k]).revoked /\ Revoked(token[k]).used = token[k].used
                              /\ Revoked(token[k]).born = token[k].born
                              /\ Revoked(token[k]).expired = token[k].expired
         /\ \A login, born : LET r == Row(TRUE, FALSE, FALSE, login, born)
                             IN  r.used /\ ~r.revoked /\ ~r.expired /\ r.login = login /\ r.born = born
<1>1. NoRow.used = FALSE /\ NoRow.login = 0
  BY DEF NoRow, Row
<1>2. \A k \in Tokens : /\ Revoked(token[k]).login = token[k].login
                        /\ Revoked(token[k]).revoked /\ Revoked(token[k]).used = token[k].used
                        /\ Revoked(token[k]).born = token[k].born
                        /\ Revoked(token[k]).expired = token[k].expired
  BY DEF Revoked, TypeOK, Rows
<1>3. ASSUME NEW login, NEW born
      PROVE  LET r == Row(TRUE, FALSE, FALSE, login, born)
             IN  r.used /\ ~r.revoked /\ ~r.expired /\ r.login = login /\ r.born = born
  BY DEF Row
<1> QED
  BY <1>1, <1>2, <1>3

LEMMA RowSet ==
  ASSUME TypeOK, NEW k \in Tokens, NEW r, SetRow(k, r)
  PROVE  token'[k] = r /\ \A l \in Tokens \ {k} : token'[l] = token[l]
BY DEF SetRow, TypeOK

LEMMA TableShrinks ==
  ASSUME TypeOK, Refs, FamilyInv,
         \/ token' = token \/ RevokeAll
         \/ \E k \in Tokens : SetRow(k, Revoked(token[k]))
         \/ \E k \in Tokens : TokenExpires(k)
         \/ Purge
  PROVE  Shrinks
<1>0. \A k \in Tokens : token[k].login <= logins /\ 0 <= logins
  BY DEF FamilyInv, TypeOK
<1>1. CASE token' = token
  BY <1>0, <1>1 DEF Shrinks, Live
<1>2. CASE RevokeAll
  BY <1>0, <1>2, NamedUsed, RowFacts DEF RevokeAll, Shrinks, Live
<1>3. ASSUME NEW k \in Tokens, SetRow(k, Revoked(token[k]))
      PROVE  Shrinks
  <2>1. token'[k] = Revoked(token[k]) /\ \A l \in Tokens \ {k} : token'[l] = token[l]
    BY <1>3 DEF SetRow, TypeOK
  <2> QED
    BY <1>0, <2>1, RowFacts DEF Shrinks, Live
<1>4. ASSUME NEW k \in Tokens, TokenExpires(k)
      PROVE  Shrinks
  <2>1. /\ token'[k].login = token[k].login /\ token'[k].expired
        /\ \A l \in Tokens \ {k} : token'[l] = token[l]
    BY <1>4 DEF TokenExpires, SetRow, TypeOK, Rows
  <2> QED
    BY <1>0, <2>1 DEF Shrinks, Live
<1>5. CASE Purge
  <2>1. PICK k \in Tokens : /\ \A b \in Browsers : jar[b] # k
                            /\ \A t \in Tabs : refresh[t].token # k /\ \A c \in Calls : call[t][c].token # k
                            /\ SetRow(k, NoRow)
    BY <1>5 DEF Purge
  <2>2. token'[k] = NoRow /\ \A l \in Tokens \ {k} : token'[l] = token[l]
    <3>1. SetRow(k, NoRow)
      BY <2>1
    <3> QED
      BY <3>1, RowSet
  <2>3. \A b \in Browsers : ~Names(b, k)
    BY <2>1 DEF Names
  <2> QED
    BY <1>0, <2>2, <2>3, RowFacts DEF Shrinks, Live
<1> QED
  BY <1>1, <1>2, <1>3, <1>4, <1>5

\* The same as FamilyKept, for a step after which no refresh has newly found or replaced.
LEMMA FamilyShrinks ==
  ASSUME TypeOK, TypeOK', FamilyInv, Shrinks, logins' = logins,
         \A b \in Browsers, k \in Tokens : Names(b, k)' => Names(b, k),
         \A t \in Tabs : refresh'[t].pc \in {"found", "rotated"} => refresh'[t] = refresh[t]
  PROVE  FamilyInv'
BY FamilyKept DEF Shrinks

LEMMA RefreshSet ==
  ASSUME TypeOK, NEW t \in Tabs, NEW r, SetRefresh(t, r)
  PROVE  refresh'[t] = r /\ \A u \in Tabs \ {t} : refresh'[u] = refresh[u]
BY DEF SetRefresh, TypeOK

LEMMA RefreshFacts ==
  /\ NoRefresh.pc = "none" /\ NoRefresh.token = NoToken
  /\ \A pc, k : RefreshOf(pc, k).token = k /\ RefreshOf(pc, k).pc = pc
BY DEF NoRefresh, RefreshOf

LEMMA CookieSet ==
  ASSUME TypeOK, NEW t \in Tabs, NEW k, jar' = [jar EXCEPT ![t[1]] = k]
  PROVE  jar'[t[1]] = k /\ \A b \in Browsers \ {t[1]} : jar'[b] = jar[b]
BY NamesOwn DEF TypeOK

\* A refresh finds its token valid, revokes it, and later inserts the next; whatever
\* else it does, no token is issued.
LEMMA FamilyRefresh ==
  ASSUME OneTab, TypeOK, TypeOK', Refs, FamilyInv, NEW t \in Tabs, RefreshStep(t) \/ LoseRefresh(t)
  PROVE  FamilyInv'
<1> DEFINE old == refresh[t].token
<1>1. CASE RefreshFind(t)
  <2>1. token' = token /\ jar' = jar /\ call' = call /\ logins' = logins
    BY <1>1 DEF RefreshFind
  <2>2. /\ refresh'[t].token = old /\ refresh'[t].pc # "rotated"
        /\ refresh'[t].pc = "found" => old # NoToken /\ ~token[old].revoked /\ ~token[old].expired
        /\ \A u \in Tabs \ {t} : refresh'[u] = refresh[u]
    BY <1>1, RefreshSet, RefreshFacts DEF RefreshFind
  <2>3. refresh'[t].pc = "found" => Live(old)
    BY <2>2 DEF Refs, Live, TypeOK, RefreshRecords, Cookies
  <2>4. \A b \in Browsers, k \in Tokens : Names(b, k)' => Names(b, k)
    BY <2>1, <2>2 DEF Names
  <2> QED
    BY <2>1, <2>2, <2>3, <2>4, TableShrinks, FamilyKept DEF Shrinks
<1>2. CASE Rotate(t)
  <2>1. jar' = jar /\ call' = call /\ logins' = logins /\ refresh[t].pc = "found"
    BY <1>2 DEF Rotate
  <2>2. refresh'[t].token = old /\ refresh'[t].pc = "rotated" /\ \A u \in Tabs \ {t} : refresh'[u] = refresh[u]
    BY <1>2, RefreshSet, RefreshFacts DEF Rotate
  <2>3. old \in Tokens /\ SetRow(old, Revoked(token[old]))
    BY <1>2, <2>1 DEF Rotate, TypeOK, RefreshRecords
  <2>4. token'[old] = Revoked(token[old])
    BY <2>3, RowSet
  <2>5. ~Live(refresh[t].token)'
    BY <2>2, <2>3, <2>4, RowFacts DEF Live
  <2>6. \A b \in Browsers, k \in Tokens : Names(b, k)' => Names(b, k)
    BY <2>1, <2>2 DEF Names
  <2> QED
    BY <2>1, <2>2, <2>3, <2>5, <2>6, TableShrinks, FamilyKept DEF Shrinks
<1>3. CASE RefreshCreate(t)
  <2>1. PICK k \in Tokens : /\ createAuthPayload(k, token[old].login, token[old].born)
                            /\ SetRefresh(t, RefreshOf("created", k))
    BY <1>3 DEF RefreshCreate
  <2>2. jar' = jar /\ call' = call /\ logins' = logins /\ refresh[t].pc = "rotated" /\ old \in Tokens
    BY <1>3 DEF RefreshCreate, TypeOK, RefreshRecords
  <2>3. /\ ~token[k].used /\ token'[k].login = token[old].login
        /\ \A l \in Tokens \ {k} : token'[l] = token[l]
    <3> DEFINE r == Row(TRUE, FALSE, FALSE, token[old].login, token[old].born)
    <3>1. ~token[k].used /\ SetRow(k, r) /\ r.login = token[old].login
      BY <2>1, RowFacts DEF createAuthPayload
    <3> HIDE DEF r
    <3> QED
      BY <3>1, RowSet
  <2>4. /\ refresh'[t].pc = "created" /\ refresh'[t].token = k
        /\ \A u \in Tabs \ {t} : refresh'[u] = refresh[u]
    BY <2>1, RefreshSet, RefreshFacts
  <2>5. \A b \in Browsers, l \in Tokens : Names(b, l)' => IF l = k THEN b = t[1] ELSE Names(b, l)
    <3>1. \A b \in Browsers : ~Names(b, k)
      BY <2>3, NamedUsed
    <3> QED
      BY <2>2, <2>4, <3>1 DEF Names
  <2>6. \A b \in Browsers, l \in Tokens : Names(b, l) /\ token[l].login = token[old].login => b = t[1]
    BY <2>2, NamesOwn DEF FamilyInv
  <2>7. \A l \in Tokens \ {k} : Live(l) => token[l].login # token'[k].login
    BY <2>2, <2>3 DEF FamilyInv
  <2>8. ASSUME NEW u \in Tabs, refresh'[u].pc \in {"found", "rotated"}
        PROVE  /\ refresh'[u] = refresh[u] /\ refresh[u].token # k
               /\ token[refresh[u].token].login # token'[k].login
    <3>1. u # t /\ refresh'[u] = refresh[u] /\ refresh[u].token \in Tokens
      BY <2>4, <2>8 DEF TypeOK, RefreshRecords
    <3>2. u[1] # t[1]
      BY <3>1 DEF OneTab, Tabs
    <3> QED
      BY <2>3, <2>6, <3>1, <3>2, NamesOwn, NamedUsed
  <2>9. token'[k].login <= logins' /\ logins <= logins'
    BY <2>2, <2>3 DEF FamilyInv, TypeOK
  <2> QED
    BY <2>2, <2>3, <2>5, <2>6, <2>7, <2>8, <2>9, NamesOwn, FamilyGrows
<1>4. CASE RefreshReplayed(t) \/ RefreshLapsed(t)
  <2>1. jar' = jar /\ call' = call /\ logins' = logins
    BY <1>4 DEF RefreshReplayed, RefreshLapsed
  <2>2. /\ refresh'[t].token = NoToken /\ refresh'[t].pc = "failed"
        /\ \A u \in Tabs \ {t} : refresh'[u] = refresh[u]
    BY <1>4, RefreshSet, RefreshFacts DEF RefreshReplayed, RefreshLapsed
  <2>3. RevokeAll \/ \E k \in Tokens : SetRow(k, Revoked(token[k]))
    BY <1>4 DEF RefreshReplayed, RefreshLapsed, TypeOK, RefreshRecords
  <2>4. \A b \in Browsers, k \in Tokens : Names(b, k)' => Names(b, k)
    BY <2>1, <2>2, NamesOwn, NamesKept
  <2> QED
    BY <2>1, <2>2, <2>3, <2>4, TableShrinks, FamilyShrinks
<1>5. CASE Renewed(t) \/ NotRenewed(t) \/ LoseRefresh(t)
  <2>1. token' = token /\ logins' = logins
    BY <1>5 DEF Renewed, NotRenewed, LoseRefresh
  <2>2. /\ refresh'[t].token = NoToken /\ refresh'[t].pc = "none"
        /\ \A u \in Tabs \ {t} : refresh'[u] = refresh[u]
    BY <1>5, RefreshSet, RefreshFacts DEF Renewed, NotRenewed, LoseRefresh
  <2>3. \A u \in Tabs, c \in Calls : call'[u][c].token = call[u][c].token \/ call'[u][c].token = NoToken
    BY <1>5, ResumeNames DEF Renewed, NotRenewed, LoseRefresh
  <2>4. \A b \in Browsers : jar'[b] = jar[b] \/ (b = t[1] /\ jar'[b] = old)
    <3>1. CASE Renewed(t)
      BY <3>1, CookieSet, Zenon DEF Renewed
    <3>2. CASE jar' = jar
      BY <3>2
    <3> QED
      BY <1>5, <3>1, <3>2 DEF NotRenewed, LoseRefresh
  <2>5. \A b \in Browsers, k \in Tokens : Names(b, k)' => Names(b, k)
    BY <2>2, <2>3, <2>4, NamesOwn, NamesKept
  <2> QED
    BY <2>1, <2>2, <2>5, TableShrinks, FamilyShrinks
<1> QED
  BY <1>1, <1>2, <1>3, <1>4, <1>5 DEF RefreshStep

LEMMA CallSet ==
  ASSUME TypeOK, NEW t \in Tabs, NEW c \in Calls, NEW r, SetCall(t, c, r)
  PROVE  call'[t][c] = r /\ \A u \in Tabs, d \in Calls : u # t \/ d # c => call'[u][d] = call[u][d]
BY DEF SetCall, TypeOK

\* A login gets a number that nothing else has; no other call issues a token.
LEMMA FamilyCall ==
  ASSUME TypeOK, TypeOK', Refs, FamilyInv, NEW t \in Tabs, NEW c \in Calls,
         CallStep(t, c) \/ \E kind \in {"data", "login", "logout"} : Send(t, c, kind)
  PROVE  FamilyInv'
<1>1. CASE LoginCreate(t, c)
  <2>1. PICK k \in Tokens : /\ createAuthPayload(k, logins + 1, call[t][c].born)
                            /\ SetCall(t, c, CallOf("granted", "login", FALSE, k, 0))
    BY <1>1 DEF LoginCreate
  <2>2. jar' = jar /\ refresh' = refresh /\ logins' = logins + 1 /\ logins \in Nat
    BY <1>1 DEF LoginCreate, TypeOK
  <2>3. /\ ~token[k].used /\ token'[k].login = logins + 1
        /\ \A l \in Tokens \ {k} : token'[l] = token[l]
    <3> DEFINE r == Row(TRUE, FALSE, FALSE, logins + 1, call[t][c].born)
    <3>1. ~token[k].used /\ SetRow(k, r) /\ r.login = logins + 1
      BY <2>1, RowFacts DEF createAuthPayload
    <3> HIDE DEF r
    <3> QED
      BY <3>1, RowSet
  <2>4. call'[t][c].token = k /\ \A u \in Tabs, d \in Calls : u # t \/ d # c => call'[u][d] = call[u][d]
    <3> DEFINE r == CallOf("granted", "login", FALSE, k, 0)
    <3>1. SetCall(t, c, r) /\ r.token = k
      BY <2>1 DEF CallOf
    <3> HIDE DEF r
    <3> QED
      BY <3>1, CallSet
  <2>5. \A b \in Browsers, l \in Tokens : Names(b, l)' => IF l = k THEN b = t[1] ELSE Names(b, l)
    <3>1. \A b \in Browsers : ~Names(b, k)
      BY <2>3, NamedUsed
    <3> QED
      BY <2>2, <2>4, <3>1 DEF Names
  <2>6. \A l \in Tokens : token[l].login # token'[k].login
    BY <2>2, <2>3 DEF FamilyInv, TypeOK, Rows
  <2>7. ASSUME NEW u \in Tabs, refresh'[u].pc \in {"found", "rotated"}
        PROVE  /\ refresh'[u] = refresh[u] /\ refresh[u].token # k
               /\ token[refresh[u].token].login # token'[k].login
    <3>1. refresh[u].token \in Tokens
      BY <2>2, <2>7 DEF TypeOK, RefreshRecords
    <3> QED
      BY <2>2, <2>3, <2>6, <3>1, NamesOwn, NamedUsed
  <2>8. token'[k].login <= logins' /\ logins <= logins'
    BY <2>2, <2>3
  <2> QED
    BY <2>3, <2>5, <2>6, <2>7, <2>8, NamesOwn, FamilyGrows
<1>2. CASE ~LoginCreate(t, c)
  <2>1. logins' = logins /\ (token' = token \/ RevokeAll)
    BY <1>2 DEF CallStep, Send, Served, Unauthorized, LoginCheck, LoginAnswered, LogoutRevoke, LogoutAnswered,
       EndSessions
  <2>2. \A u \in Tabs : \/ refresh'[u] = refresh[u]
                        \/ (refresh'[u].pc = "sent" /\ refresh'[u].token = jar[u[1]])
    <3>1. CASE Unauthorized(t, c)
      BY <3>1, RefreshFacts DEF Unauthorized, TypeOK
    <3>2. CASE refresh' = refresh
      BY <3>2
    <3> QED
      BY <1>2, <3>1, <3>2 DEF CallStep, Send, Served, LoginCheck, LoginAnswered, LogoutRevoke, LogoutAnswered
  <2>3. \E r : /\ SetCall(t, c, r)
               /\ (r.token = NoToken \/ r.token = jar[t[1]] \/ r.token = call[t][c].token)
    <3>1. CASE \E kind \in {"data", "login", "logout"} : Send(t, c, kind)
      BY <3>1 DEF Send, CallOf
    <3>2. CASE Unauthorized(t, c)
      <4>1. [call[t][c] EXCEPT !.pc = "waiting"].token = call[t][c].token /\ NoCall.token = NoToken
        BY DEF TypeOK, CallRecords, NoCall, CallOf
      <4> QED
        BY <3>2, <4>1 DEF Unauthorized
    <3>3. CASE \/ Served(t, c) \/ LoginCheck(t, c) \/ LoginAnswered(t, c)
               \/ LogoutRevoke(t, c) \/ LogoutAnswered(t, c)
      BY <3>3 DEF Served, LoginCheck, LoginAnswered, LogoutRevoke, LogoutAnswered, NoCall, CallOf
    <3> QED
      BY <1>2, <3>1, <3>2, <3>3 DEF CallStep
  <2>4. \A u \in Tabs, d \in Calls : call'[u][d].token = NoToken \/ Names(u[1], call'[u][d].token)
    BY <2>3, CallSet, NamesOwn
  <2>5. \A b \in Browsers : \/ jar'[b] = jar[b] \/ jar'[b] = NoToken
                            \/ (b = t[1] /\ jar'[b] = call[t][c].token)
    <3>1. ASSUME NEW k, k = NoToken \/ k = call[t][c].token,
                 jar' = [jar EXCEPT ![t[1]] = k]
          PROVE  \A b \in Browsers : \/ jar'[b] = jar[b] \/ jar'[b] = NoToken
                                     \/ (b = t[1] /\ jar'[b] = call[t][c].token)
      BY <3>1, CookieSet
    <3>2. CASE jar' = jar
      BY <3>2
    <3> QED
      BY <1>2, <3>1, <3>2 DEF CallStep, Send, Served, Unauthorized, LogoutRevoke, LoginCheck, LoginAnswered,
         LogoutAnswered
  <2>6. \A b \in Browsers, k \in Tokens : Names(b, k)' => Names(b, k)
    BY <2>2, <2>4, <2>5, NamesOwn, NamesKept
  <2> QED
    BY <2>1, <2>2, <2>6, TableShrinks, FamilyShrinks
<1> QED
  BY <1>1, <1>2

LEMMA FamilyStep ==
  ASSUME OneTab, TypeOK, TypeOK', Refs, FamilyInv, [Next]_vars
  PROVE  FamilyInv'
<1>1. ASSUME UNCHANGED <<call, refresh, logins>>, \A b \in Browsers : jar'[b] = jar[b], Shrinks
      PROVE  FamilyInv'
  <2>1. \A b \in Browsers, k \in Tokens : Names(b, k)' => Names(b, k)
    BY <1>1 DEF Names
  <2> QED
    BY <1>1, <2>1, FamilyShrinks
<1>3. ASSUME NEW l \in Links, RequestReset(l) \/ ResetApply(l) \/ LinkExpires(l)
      PROVE  FamilyInv'
  BY <1>1, <1>3, TableShrinks DEF RequestReset, ResetApply, LinkExpires, EndSessions
<1>4. ASSUME NEW k \in Tokens, TokenExpires(k)
      PROVE  FamilyInv'
  <2>1. Shrinks
    BY <1>4, TableShrinks
  <2> QED
    BY <1>1, <1>4, <2>1 DEF TokenExpires
<1>5. CASE Purge
  <2>1. Shrinks
    BY <1>5, TableShrinks
  <2> QED
    BY <1>1, <1>5, <2>1 DEF Purge
<1>6. CASE UNCHANGED vars
  <2>1. Shrinks
    BY <1>6, TableShrinks DEF vars
  <2> QED
    BY <1>1, <1>6, <2>1 DEF vars
<1> QED
  BY <1>3, <1>4, <1>5, <1>6, FamilyRefresh, FamilyCall DEF Next

LEMMA RefsCorrect == Spec => []Refs
<1>1. Init => Refs
  BY SessionAssumption DEF Init, Refs, NoRefresh, RefreshOf, NoCall, CallOf
<1>2. TypeOK /\ Refs /\ [Next]_vars => Refs'
  BY RefsStep
<1> QED
  BY <1>1, <1>2, TypeCorrect, PTL DEF Spec

\* Rotation with one tab to a browser: whatever answers are lost, however the refreshes
\* of several browsers, logouts and resets interleave, the tokens that descend from one
\* login never leave two of them valid.
THEOREM OneLiveTokenOneTab == OneTab => (Spec => []OneLiveTokenPerLogin)
<1> SUFFICES ASSUME OneTab PROVE Spec => []OneLiveTokenPerLogin
  OBVIOUS
<1>1. Init => FamilyInv
  <2>1. NoRow.login = 0 /\ NoRow.used = FALSE /\ NoRefresh.pc = "none" /\ NoRefresh.token = NoToken
        /\ NoCall.token = NoToken /\ NoToken \notin Tokens
    BY SessionAssumption DEF NoRow, Row, NoRefresh, RefreshOf, NoCall, CallOf
  <2> QED
    BY <2>1 DEF Init, FamilyInv, Names, Live, OneLiveTokenPerLogin
<1>2. TypeOK /\ TypeOK' /\ Refs /\ FamilyInv /\ [Next]_vars => FamilyInv'
  BY FamilyStep
<1>3. FamilyInv => OneLiveTokenPerLogin
  BY DEF FamilyInv
<1> QED
  BY <1>1, <1>2, <1>3, TypeCorrect, RefsCorrect, PTL DEF Spec

-----------------------------------------------------------------------------
(* One browser with one tab: its cookie can be exchanged.  Another browser *)
(* that comes back with a cookie of before the last end is taken for a     *)
(* replay, and ends the session of this one.                               *)
OneBrowser == \E b : Browsers = {b}

\* A cookie that holds k can be exchanged, or must not be.
Sound(k) ==
  \/ ~token[k].revoked \/ token[k].expired
  \/ token[k].born # ends \/ token[k].login \in crossed

\* A login whose cookie is on its way.
Granted(t, c) == call[t][c].pc = "granted" /\ call[t][c].kind = "login"

\* What is in the cookie, or about to be, is sound, except while the refresh of the
\* cookie has revoked it: its answer brings the next token of the same login.
CookieSound(t) ==
  /\ jar[t[1]] \in Tokens => \/ Sound(jar[t[1]])
                             \/ /\ refresh[t].pc \in {"rotated", "created"}
                                /\ token[jar[t[1]]].login = token[refresh[t].token].login
  /\ refresh[t].pc = "created" => Sound(refresh[t].token)
  /\ \A c \in Calls : Granted(t, c) => call[t][c].token \in Tokens /\ Sound(call[t][c].token)

\* The row of such a login is its own: no refresh that runs beside it rotates that row.
Apart(t) ==
  \A c \in Calls : Granted(t, c) =>
    /\ call[t][c].token # jar[t[1]] /\ call[t][c].token # refresh[t].token
    /\ \A d \in Calls \ {c} : Granted(t, d) => call[t][d].token # call[t][c].token

\* A refresh that takes its token for replayed or for too old is right about it, and no
\* row, nor a login that will insert one, is younger than the last end.
Judged ==
  /\ \A k \in Tokens : token[k].born <= ends
  /\ \A t \in Tabs, c \in Calls : call[t][c].born <= ends
  /\ \A t \in Tabs : /\ refresh[t].pc = "replayed" => token[refresh[t].token].revoked
                     /\ refresh[t].pc = "lapsed" => token[refresh[t].token].expired

ContinuesInv == Judged /\ \A t \in Tabs : CookieSound(t) /\ Apart(t)

\* The calls that waited are sent again or return; the others stay.
LEMMA ResumeSteps ==
  ASSUME TypeOK, NEW t \in Tabs, NEW ok \in BOOLEAN, Resume(t, ok)
  PROVE  /\ \A u \in Tabs \ {t} : call'[u] = call[u]
         /\ \A c \in Calls : \/ call'[t][c] = call[t][c]
                             \/ call'[t][c].pc \in {"idle", "sent"} /\ call'[t][c].born = 0
<1>1. \A u \in Tabs \ {t} : call'[u] = call[u]
  BY DEF Resume, TypeOK
<1>2. ASSUME NEW c \in Calls
      PROVE  \/ call'[t][c] = call[t][c]
             \/ call'[t][c].pc \in {"idle", "sent"} /\ call'[t][c].born = 0
  <2> DEFINE r == CallOf("sent", call[t][c].kind, TRUE, NoToken, 0)
  <2>1. call'[t][c] = call[t][c] \/ call'[t][c] = r \/ call'[t][c] = NoCall
    BY DEF Resume, TypeOK
  <2>2. NoCall.pc = "idle" /\ NoCall.born = 0 /\ r.pc = "sent" /\ r.born = 0
    BY DEF NoCall, CallOf
  <2> HIDE DEF r
  <2> QED
    BY <2>1, <2>2
<1> QED
  BY <1>1, <1>2

\* No answer of a refresh is forgotten.
LEMMA CrossedStep ==
  ASSUME [Next]_vars
  PROVE  crossed \subseteq crossed'
<1>1. ASSUME NEW t \in Tabs, RefreshStep(t) \/ LoseRefresh(t)
      PROVE  crossed \subseteq crossed'
  BY <1>1 DEF RefreshStep, LoseRefresh, RefreshFind, RefreshReplayed, RefreshLapsed, Rotate,
     RefreshCreate, Renewed, NotRenewed
<1>2. ASSUME NEW t \in Tabs, NEW c \in Calls,
             CallStep(t, c) \/ \E kind \in {"data", "login", "logout"} : Send(t, c, kind)
      PROVE  crossed' = crossed
  BY <1>2 DEF CallStep, Served, Unauthorized, LoginCheck, LoginCreate, LoginAnswered, LogoutRevoke,
     LogoutAnswered, Send
<1>3. CASE \/ \E l \in Links : RequestReset(l) \/ ResetApply(l) \/ LinkExpires(l)
           \/ \E k \in Tokens : TokenExpires(k)
           \/ Purge \/ UNCHANGED vars
  BY <1>3 DEF RequestReset, ResetApply, LinkExpires, TokenExpires, Purge, vars
<1> QED
  BY <1>1, <1>2, <1>3 DEF Next

\* A row stays sound when it stays, when the user ends the session, and when a replay or
\* its age would have had it refused already.
LEMMA SoundKept ==
  ASSUME TypeOK, Judged, NEW k \in Tokens, token[k].used, Sound(k), crossed \subseteq crossed',
         \/ token'[k] = token[k] /\ ends' = ends
         \/ EndSessions
         \/ RevokeAll /\ (token[k].revoked \/ token[k].login \in crossed') /\ ends' = ends
         \/ token'[k] = Revoked(token[k]) /\ token[k].expired /\ ends' = ends
  PROVE  Sound(k)'
<1>0. /\ Revoked(token[k]).born = token[k].born /\ Revoked(token[k]).expired = token[k].expired
      /\ Revoked(token[k]).login = token[k].login
      /\ Revoked(token[k]).revoked /\ token[k].born \in Nat /\ ends \in Nat /\ token[k].born <= ends
  BY RowFacts DEF TypeOK, Rows, Judged
<1>1. CASE token'[k] = token[k] /\ ends' = ends
  BY <1>1 DEF Sound
<1>2. CASE EndSessions
  <2>1. token'[k] = Revoked(token[k]) /\ ends' = ends + 1
    BY <1>2 DEF EndSessions, RevokeAll
  <2>2. token'[k].born # ends'
    BY <1>0, <2>1
  <2> QED
    BY <2>2 DEF Sound
<1>3. CASE RevokeAll /\ (token[k].revoked \/ token[k].login \in crossed') /\ ends' = ends
  <2>1. token'[k] = Revoked(token[k])
    BY <1>3 DEF RevokeAll
  <2> QED
    BY <1>0, <1>3, <2>1 DEF Sound
<1>4. CASE token'[k] = Revoked(token[k]) /\ token[k].expired /\ ends' = ends
  BY <1>0, <1>4 DEF Sound
<1> QED
  BY <1>1, <1>2, <1>3, <1>4

\* The password of a login is not checked later than now.
LEMMA BornStep ==
  ASSUME TypeOK, Judged, [Next]_vars
  PROVE  \A t \in Tabs, c \in Calls : call'[t][c].born <= ends'
<1>0. /\ ends \in Nat /\ \A t \in Tabs, c \in Calls : call[t][c].born <= ends /\ call[t][c].born \in Nat
      /\ NoCall.born = 0
  BY DEF Judged, TypeOK, CallRecords, NoCall, CallOf
<1>1. ASSUME call' = call, ends' = ends \/ ends' = ends + 1
      PROVE  \A t \in Tabs, c \in Calls : call'[t][c].born <= ends'
  BY <1>0, <1>1
<1>2. ASSUME NEW t \in Tabs, NEW c \in Calls, NEW r, SetCall(t, c, r), r.born \in {0, ends, call[t][c].born},
             ends' = ends \/ ends' = ends + 1
      PROVE  \A u \in Tabs, d \in Calls : call'[u][d].born <= ends'
  BY <1>0, <1>2, CallSet
<1>3. ASSUME NEW t \in Tabs, RefreshStep(t) \/ LoseRefresh(t)
      PROVE  \A u \in Tabs, d \in Calls : call'[u][d].born <= ends'
  <2>1. CASE call' = call
    BY <1>1, <1>3, <2>1 DEF RefreshStep, LoseRefresh, RefreshFind, RefreshReplayed, RefreshLapsed, Rotate,
       RefreshCreate, Renewed, NotRenewed
  <2>2. ASSUME NEW ok \in BOOLEAN, Resume(t, ok), ends' = ends
        PROVE  \A u \in Tabs, d \in Calls : call'[u][d].born <= ends'
    <3>1. \A u \in Tabs, d \in Calls : call'[u][d] = call[u][d] \/ call'[u][d].born = 0
      BY <2>2, ResumeSteps
    <3> QED
      BY <1>0, <2>2, <3>1
  <2> QED
    BY <1>3, <2>1, <2>2 DEF RefreshStep, LoseRefresh, RefreshFind, RefreshReplayed, RefreshLapsed, Rotate,
       RefreshCreate, Renewed, NotRenewed
<1>4. ASSUME NEW t \in Tabs, NEW c \in Calls,
             CallStep(t, c) \/ \E kind \in {"data", "login", "logout"} : Send(t, c, kind)
      PROVE  \A u \in Tabs, d \in Calls : call'[u][d].born <= ends'
  <2>1. ends' = ends \/ ends' = ends + 1
    BY <1>4 DEF CallStep, Send, Served, Unauthorized, LoginCheck, LoginCreate, LoginAnswered, LogoutRevoke,
       LogoutAnswered, EndSessions
  <2>2. \E r : SetCall(t, c, r) /\ r.born \in {0, ends, call[t][c].born}
    <3>1. CASE Unauthorized(t, c)
      <4>1. [call[t][c] EXCEPT !.pc = "waiting"].born = call[t][c].born
        BY DEF TypeOK, CallRecords
      <4> QED
        BY <1>0, <3>1, <4>1 DEF Unauthorized
    <3>2. CASE \E kind \in {"data", "login", "logout"} : Send(t, c, kind)
      BY <3>2 DEF Send, CallOf
    <3>3. CASE Served(t, c) \/ LoginAnswered(t, c) \/ LogoutAnswered(t, c)
      BY <1>0, <3>3 DEF Served, LoginAnswered, LogoutAnswered
    <3>4. CASE LoginCheck(t, c) \/ LogoutRevoke(t, c)
      BY <3>4 DEF LoginCheck, LogoutRevoke, CallOf
    <3>5. CASE LoginCreate(t, c)
      <4>1. PICK k \in Tokens : SetCall(t, c, CallOf("granted", "login", FALSE, k, 0))
        BY <3>5 DEF LoginCreate
      <4>2. CallOf("granted", "login", FALSE, k, 0).born = 0
        BY DEF CallOf
      <4> QED
        BY <4>1, <4>2
    <3> QED
      BY <1>4, <3>1, <3>2, <3>3, <3>4, <3>5 DEF CallStep
  <2> QED
    BY <1>2, <2>1, <2>2
<1>5. CASE \/ \E l \in Links : RequestReset(l) \/ ResetApply(l) \/ LinkExpires(l)
           \/ \E k \in Tokens : TokenExpires(k)
           \/ Purge \/ UNCHANGED vars
  BY <1>1, <1>5 DEF RequestReset, ResetApply, LinkExpires, TokenExpires, Purge, vars, EndSessions
<1> QED
  BY <1>3, <1>4, <1>5 DEF Next

LEMMA JudgedStep ==
  ASSUME TypeOK, TypeOK', Refs, Judged, [Next]_vars
  PROVE  Judged'
<1> DEFINE Grows == \A k \in Tokens :
             /\ token'[k].born <= ends'
             /\ (\E b \in Browsers : Names(b, k)) /\ token[k].revoked => token'[k].revoked
             /\ (\E b \in Browsers : Names(b, k)) /\ token[k].expired => token'[k].expired
<1>0. \A k \in Tokens : token[k].born <= ends /\ token[k].born \in Nat /\ ends \in Nat
  BY DEF Judged, TypeOK, Rows
<1>b. \A t \in Tabs, c \in Calls : call'[t][c].born <= ends'
  BY BornStep
<1>1. ASSUME Grows,
             \A t \in Tabs : refresh'[t] = refresh[t] \/ refresh'[t].pc \notin {"replayed", "lapsed"}
      PROVE  Judged'
  <2>1. ASSUME NEW t \in Tabs, refresh'[t].pc \in {"replayed", "lapsed"}
        PROVE  /\ refresh'[t].pc = "replayed" => token'[refresh'[t].token].revoked
               /\ refresh'[t].pc = "lapsed" => token'[refresh'[t].token].expired
    <3>1. refresh'[t] = refresh[t] /\ refresh[t].token \in Tokens /\ t[1] \in Browsers
      BY <1>1, <2>1, NamesOwn DEF TypeOK, RefreshRecords
    <3> QED
      BY <1>1, <2>1, <3>1, NamesOwn DEF Judged
  <2> QED
    BY <1>1, <1>b, <2>1 DEF Judged
<1>2. token' = token /\ ends' = ends => Grows
  BY <1>0
<1>3. RevokeAll /\ (ends' = ends \/ ends' = ends + 1) => Grows
  <2> SUFFICES ASSUME RevokeAll, ends' = ends \/ ends' = ends + 1, NEW k \in Tokens
               PROVE  /\ token'[k].born <= ends'
                      /\ (\E b \in Browsers : Names(b, k)) /\ token[k].revoked => token'[k].revoked
                      /\ (\E b \in Browsers : Names(b, k)) /\ token[k].expired => token'[k].expired
    OBVIOUS
  <2>1. CASE token[k].used
    BY <1>0, <2>1, RowFacts DEF RevokeAll
  <2>2. CASE ~token[k].used
    <3>1. token'[k] = NoRow /\ NoRow.born = 0 /\ ~\E b \in Browsers : Names(b, k)
      BY <2>2, NamedUsed DEF RevokeAll, NoRow, Row
    <3> QED
      BY <1>0, <3>1
  <2> QED
    BY <2>1, <2>2
<1>4. ASSUME NEW k \in Tokens, SetRow(k, Revoked(token[k])), ends' = ends
      PROVE  Grows
  BY <1>0, <1>4, RowSet, RowFacts
<1>5. ASSUME NEW k \in Tokens, NEW login, NEW born, createAuthPayload(k, login, born), born <= ends, ends' = ends
      PROVE  Grows
  <2> DEFINE r == Row(TRUE, FALSE, FALSE, login, born)
  <2>1. SetRow(k, r) /\ ~token[k].used
    BY <1>5 DEF createAuthPayload
  <2>3. r.born = born
    BY DEF Row
  <2> HIDE DEF r
  <2>2. token'[k] = r /\ \A l \in Tokens \ {k} : token'[l] = token[l]
    BY <2>1, RowSet
  <2> QED
    BY <1>0, <1>5, <2>1, <2>2, <2>3, NamedUsed
<1>6. ASSUME NEW t \in Tabs, RefreshStep(t) \/ LoseRefresh(t)
      PROVE  Judged'
  <2>1. CASE RefreshFind(t)
    <3>1. token' = token /\ ends' = ends /\ \A u \in Tabs \ {t} : refresh'[u] = refresh[u]
      BY <2>1, RefreshSet DEF RefreshFind
    <3>2. /\ refresh'[t].pc = "replayed" => token[refresh'[t].token].revoked
          /\ refresh'[t].pc = "lapsed" => token[refresh'[t].token].expired
      BY <2>1, RefreshSet, RefreshFacts DEF RefreshFind
    <3> QED
      BY <1>b, <3>1, <3>2 DEF Judged
  <2>2. CASE ~RefreshFind(t)
    <3>0. \E pc \in {"failed", "rotated", "created", "none"} : \E k : SetRefresh(t, RefreshOf(pc, k))
      BY <1>6, <2>2 DEF RefreshStep, RefreshReplayed, RefreshLapsed, Rotate,
         RefreshCreate, Renewed, NotRenewed, LoseRefresh, NoRefresh
    <3>1. \A u \in Tabs : refresh'[u] = refresh[u] \/ refresh'[u].pc \notin {"replayed", "lapsed"}
      <4>1. PICK pc \in {"failed", "rotated", "created", "none"} : \E k : SetRefresh(t, RefreshOf(pc, k))
        BY <3>0
      <4> QED
        BY <4>1, RefreshSet, RefreshFacts
    <3>2. CASE RefreshReplayed(t)
      BY <1>1, <1>3, <3>1, <3>2 DEF RefreshReplayed
    <3>3. CASE RefreshLapsed(t) \/ Rotate(t)
      BY <1>1, <1>4, <3>1, <3>3 DEF RefreshLapsed, Rotate, TypeOK, RefreshRecords
    <3>4. CASE RefreshCreate(t)
      <4>1. refresh[t].token \in Tokens /\ token[refresh[t].token].born <= ends /\ ends' = ends
        BY <1>0, <3>4 DEF RefreshCreate, TypeOK, RefreshRecords
      <4> QED
        BY <1>1, <1>5, <3>1, <3>4, <4>1 DEF RefreshCreate
    <3>5. CASE Renewed(t) \/ NotRenewed(t) \/ LoseRefresh(t)
      BY <1>1, <1>2, <3>1, <3>5 DEF Renewed, NotRenewed, LoseRefresh
    <3> QED
      BY <1>6, <2>2, <3>2, <3>3, <3>4, <3>5 DEF RefreshStep
  <2> QED
    BY <2>1, <2>2
<1>7. ASSUME NEW t \in Tabs, NEW c \in Calls,
             CallStep(t, c) \/ \E kind \in {"data", "login", "logout"} : Send(t, c, kind)
      PROVE  Judged'
  <2>1. CASE Unauthorized(t, c)
    <3>1. \A u \in Tabs : refresh'[u] = refresh[u] \/ refresh'[u].pc \notin {"replayed", "lapsed"}
      BY <2>1, RefreshFacts DEF Unauthorized, TypeOK
    <3> QED
      BY <1>1, <1>2, <2>1, <3>1 DEF Unauthorized
  <2>2. CASE LoginCreate(t, c)
    <3>1. call[t][c].born <= ends
      BY DEF Judged
    <3> QED
      BY <1>0, <1>1, <1>5, <2>2, <3>1 DEF LoginCreate
  <2>3. CASE LogoutRevoke(t, c)
    BY <1>1, <1>2, <1>3, <2>3 DEF LogoutRevoke, EndSessions
  <2> QED
    BY <1>1, <1>2, <1>7, <2>1, <2>2, <2>3 DEF CallStep, Send, Served, LoginCheck, LoginAnswered, LogoutAnswered
<1>8. ASSUME NEW l \in Links, RequestReset(l) \/ ResetApply(l) \/ LinkExpires(l)
      PROVE  Judged'
  BY <1>1, <1>2, <1>3, <1>8 DEF RequestReset, ResetApply, LinkExpires, EndSessions
<1>9. ASSUME NEW k \in Tokens, TokenExpires(k)
      PROVE  Judged'
  <2>1. /\ token'[k].born = token[k].born /\ token'[k].expired /\ token'[k].revoked = token[k].revoked
        /\ \A l \in Tokens \ {k} : token'[l] = token[l]
    BY <1>9 DEF TokenExpires, SetRow, TypeOK, Rows
  <2>2. ends' = ends /\ refresh' = refresh
    BY <1>9 DEF TokenExpires
  <2> QED
    BY <1>0, <1>1, <2>1, <2>2
<1>10. CASE Purge
  <2>1. PICK k \in Tokens :
          /\ \A b \in Browsers : jar[b] # k
          /\ \A t \in Tabs : refresh[t].token # k /\ \A c \in Calls : call[t][c].token # k
          /\ SetRow(k, NoRow)
    BY <1>10 DEF Purge
  <2>2. token'[k] = NoRow /\ \A l \in Tokens \ {k} : token'[l] = token[l]
    BY <2>1, RowSet
  <2>3. NoRow.born = 0 /\ \A b \in Browsers : ~Names(b, k)
    BY <2>1 DEF Names, NoRow, Row
  <2>4. ends' = ends /\ refresh' = refresh
    BY <1>10 DEF Purge
  <2> QED
    BY <1>0, <1>1, <2>2, <2>3, <2>4
<1>11. CASE UNCHANGED vars
  BY <1>1, <1>2, <1>11 DEF vars
<1> QED
  BY <1>6, <1>7, <1>8, <1>9, <1>10, <1>11 DEF Next

\* A step other than the insertion of a login's row grants no login.
LEMMA GrantedStays ==
  ASSUME TypeOK, NEW t \in Tabs, \A u \in Tabs : u = t,
         [Next]_vars, \A c \in Calls : ~LoginCreate(t, c)
  PROVE  \A c \in Calls : Granted(t, c)' => call'[t][c] = call[t][c]
<1>1. ASSUME NEW c \in Calls, NEW r, SetCall(t, c, r), r.pc # "granted" \/ r.kind # "login"
      PROVE  \A d \in Calls : Granted(t, d)' => call'[t][d] = call[t][d]
  <2>1. call'[t][c] = r /\ \A d \in Calls \ {c} : call'[t][d] = call[t][d]
    BY <1>1, CallSet
  <2> QED
    BY <1>1, <2>1 DEF Granted
<1>2. CASE RefreshStep(t) \/ LoseRefresh(t)
  <2>1. ASSUME NEW ok \in BOOLEAN, Resume(t, ok)
        PROVE  \A c \in Calls : Granted(t, c)' => call'[t][c] = call[t][c]
    BY <2>1, ResumeSteps DEF Granted
  <2> QED
    BY <1>2, <2>1 DEF RefreshStep, LoseRefresh, RefreshFind, RefreshReplayed, RefreshLapsed, Rotate,
       RefreshCreate, Renewed, NotRenewed
<1>3. ASSUME NEW c \in Calls,
             CallStep(t, c) \/ \E kind \in {"data", "login", "logout"} : Send(t, c, kind)
      PROVE  \A d \in Calls : Granted(t, d)' => call'[t][d] = call[t][d]
  <2>1. \E r : SetCall(t, c, r) /\ (r.pc # "granted" \/ r.kind # "login")
    <3>1. CASE Unauthorized(t, c)
      <4>1. [call[t][c] EXCEPT !.pc = "waiting"].pc = "waiting" /\ NoCall.pc = "idle"
        BY DEF TypeOK, CallRecords, NoCall, CallOf
      <4> QED
        BY <3>1, <4>1 DEF Unauthorized
    <3>2. CASE ~Unauthorized(t, c)
      BY <1>3, <3>2 DEF CallStep, Send, Served, LoginCheck, LoginAnswered, LogoutRevoke, LogoutAnswered,
         NoCall, CallOf
    <3> QED
      BY <3>1, <3>2
  <2> QED
    BY <1>1, <2>1
<1>4. CASE \/ \E l \in Links : RequestReset(l) \/ ResetApply(l) \/ LinkExpires(l)
           \/ \E k \in Tokens : TokenExpires(k)
           \/ Purge \/ UNCHANGED vars
  BY <1>4 DEF RequestReset, ResetApply, LinkExpires, TokenExpires, Purge, vars
<1> QED
  BY <1>2, <1>3, <1>4 DEF Next

\* The row a login inserts, and the one a refresh inserts, is not in use.
LEMMA ApartStep ==
  ASSUME OneBrowser, OneTab, TypeOK, Refs, NEW t \in Tabs, CookieSound(t), Apart(t), [Next]_vars
  PROVE  Apart(t)'
<1> DEFINE b == t[1]
           Held(k) == \/ jar[b] = k \/ refresh[t].token = k
                      \/ \E c \in Calls : Granted(t, c) /\ call[t][c].token = k
<1>0. /\ Browsers = {b} /\ \A u \in Tabs : u = t
      /\ NoToken \notin Tokens
      /\ \A k \in Tokens : Held(k) => token[k].used
      /\ \A c \in Calls : Granted(t, c) => call[t][c].token \in Tokens
  BY SessionAssumption DEF OneBrowser, OneTab, Tabs, Refs, CookieSound
<1>1. ASSUME \A c \in Calls : Granted(t, c)' => call'[t][c] = call[t][c],
             \/ jar'[b] \in {jar[b], refresh[t].token, NoToken}
             \/ \E c \in Calls : Granted(t, c) /\ ~Granted(t, c)' /\ jar'[b] = call[t][c].token,
             \/ refresh'[t].token \in {refresh[t].token, jar[b], NoToken}
             \/ refresh'[t].token \in Tokens /\ ~token[refresh'[t].token].used
      PROVE  Apart(t)'
  BY <1>0, <1>1 DEF Apart, Granted
<1>2. ASSUME NEW c \in Calls, LoginCreate(t, c)
      PROVE  Apart(t)'
  <2>1. PICK k \in Tokens : /\ createAuthPayload(k, logins + 1, call[t][c].born)
                            /\ SetCall(t, c, CallOf("granted", "login", FALSE, k, 0))
    BY <1>2 DEF LoginCreate
  <2> DEFINE r == CallOf("granted", "login", FALSE, k, 0)
  <2>2. SetCall(t, c, r) /\ r.token = k /\ ~Held(k)
    BY <1>0, <2>1 DEF CallOf, createAuthPayload
  <2> HIDE DEF r
  <2>3. call'[t][c].token = k /\ \A d \in Calls \ {c} : call'[t][d] = call[t][d]
    BY <2>2, CallSet
  <2>4. jar' = jar /\ refresh' = refresh
    BY <1>2 DEF LoginCreate
  <2> QED
    BY <2>2, <2>3, <2>4 DEF Apart, Granted
<1>3. CASE \A c \in Calls : ~LoginCreate(t, c)
  <2>0. \A c \in Calls : Granted(t, c)' => call'[t][c] = call[t][c]
    BY <1>0, <1>3, GrantedStays
  <2>1. CASE RefreshStep(t) \/ LoseRefresh(t)
    <3>1. jar'[b] \in {jar[b], refresh[t].token}
      BY <2>1, CookieSet DEF RefreshStep, LoseRefresh, RefreshFind, RefreshReplayed, RefreshLapsed, Rotate,
         RefreshCreate, Renewed, NotRenewed
    <3>2. CASE RefreshCreate(t)
      <4>1. PICK k \in Tokens : ~token[k].used /\ SetRefresh(t, RefreshOf("created", k))
        BY <3>2 DEF RefreshCreate, createAuthPayload
      <4> QED
        BY <1>1, <2>0, <3>1, <4>1, RefreshSet, RefreshFacts
    <3>3. CASE ~RefreshCreate(t)
      <4>1. \E pc : \E k \in {refresh[t].token, NoToken} : SetRefresh(t, RefreshOf(pc, k))
        BY <2>1, <3>3 DEF RefreshStep, LoseRefresh, RefreshFind, RefreshReplayed, RefreshLapsed, Rotate,
           Renewed, NotRenewed, NoRefresh
      <4>2. refresh'[t].token \in {refresh[t].token, NoToken}
        BY <4>1, RefreshSet, RefreshFacts
      <4> QED
        BY <1>1, <2>0, <3>1, <4>2
    <3> QED
      BY <3>2, <3>3
  <2>2. ASSUME NEW c \in Calls,
               CallStep(t, c) \/ \E kind \in {"data", "login", "logout"} : Send(t, c, kind)
        PROVE  Apart(t)'
    <3>1. CASE Unauthorized(t, c)
      <4>1. jar' = jar /\ refresh'[t].token \in {refresh[t].token, jar[b]}
        BY <3>1, RefreshFacts DEF Unauthorized, TypeOK
      <4> QED
        BY <1>1, <2>0, <4>1
    <3>2. CASE LoginAnswered(t, c)
      <4>1. jar'[b] = call[t][c].token /\ refresh' = refresh /\ SetCall(t, c, NoCall) /\ Granted(t, c)
        BY <3>2, CookieSet DEF LoginAnswered, Granted
      <4>2. call'[t][c].pc = "idle"
        BY <4>1, CallSet DEF NoCall, CallOf
      <4>3. ~Granted(t, c)'
        BY <4>2 DEF Granted
      <4> QED
        BY <1>1, <2>0, <4>1, <4>3
    <3>3. CASE LogoutAnswered(t, c)
      <4>1. jar'[b] = NoToken /\ refresh' = refresh
        BY <3>3, CookieSet DEF LogoutAnswered
      <4> QED
        BY <1>1, <2>0, <4>1
    <3>4. CASE jar' = jar /\ refresh' = refresh
      BY <1>1, <2>0, <3>4
    <3> QED
      BY <1>3, <2>2, <3>1, <3>2, <3>3, <3>4 DEF CallStep, Send, Served, LoginCheck, LogoutRevoke
  <2>3. CASE \/ \E l \in Links : RequestReset(l) \/ ResetApply(l) \/ LinkExpires(l)
             \/ \E k \in Tokens : TokenExpires(k)
             \/ Purge \/ UNCHANGED vars
    <3>1. jar' = jar /\ refresh' = refresh
      BY <2>3 DEF RequestReset, ResetApply, LinkExpires, TokenExpires, Purge, vars
    <3> QED
      BY <1>1, <2>0, <3>1
  <2> QED
    BY <1>0, <2>1, <2>2, <2>3 DEF Next
<1> QED
  BY <1>0, <1>2, <1>3

\* With one browser and one tab, what the cookie holds stays sound: only the refresh that
\* carries it revokes it, unless it was judged, the user ended it or its login is in
\* crossed.
LEMMA CookieStep ==
  ASSUME OneBrowser, OneTab, TypeOK, TypeOK', Refs, Judged,
         NEW t \in Tabs, CookieSound(t), Apart(t), [Next]_vars
  PROVE  CookieSound(t)'
<1> DEFINE b == t[1]
           Held(k) == \/ jar[b] = k \/ refresh[t].token = k
                      \/ \E c \in Calls : Granted(t, c) /\ call[t][c].token = k
           Keeps == \A k \in Tokens : Held(k) /\ Sound(k) => Sound(k)'
           GrantsNone == \A c \in Calls : Granted(t, c)' => call'[t][c] = call[t][c]
<1>0. /\ Browsers = {b} /\ \A u \in Tabs : u = t
      /\ NoToken \notin Tokens /\ crossed \subseteq crossed'
      /\ \A k \in Tokens : Held(k) => token[k].used
      /\ \A c \in Calls : Granted(t, c) => call[t][c].token \in Tokens
  BY SessionAssumption, CrossedStep DEF OneBrowser, OneTab, Tabs, Refs, CookieSound
<1>1. \A k \in Tokens : Held(k) => token'[k].login = token[k].login
  <2>1. CASE Purge
    <3>1. PICK k \in Tokens : /\ \A a \in Browsers : jar[a] # k
                              /\ \A u \in Tabs : refresh[u].token # k /\ \A c \in Calls : call[u][c].token # k
                              /\ SetRow(k, NoRow)
      BY <2>1 DEF Purge
    <3>2. ~Held(k) /\ \A l \in Tokens \ {k} : token'[l] = token[l]
      BY <1>0, <3>1, RowSet
    <3> QED
      BY <3>2
  <2>2. CASE ~Purge
    BY <1>0, <2>2, RowsStay
  <2> QED
    BY <2>1, <2>2
<1>2. ASSUME Keeps,
             \/ jar'[b] = NoToken
             \/ \E k \in Tokens : jar'[b] = k /\ Sound(k)'
             \/ /\ jar'[b] = jar[b]
                /\ refresh[t].pc \notin {"rotated", "created"} \/ refresh'[t] = refresh[t],
             \A c \in Calls : Granted(t, c)' => \/ call'[t][c] = call[t][c]
                                                \/ \E k \in Tokens : call'[t][c].token = k /\ Sound(k)',
             refresh'[t] = refresh[t] \/ refresh'[t].pc # "created"
      PROVE  CookieSound(t)'
  <2>1. jar'[b] \in Tokens => \/ Sound(jar[b])'
                              \/ /\ refresh'[t].pc \in {"rotated", "created"}
                                 /\ token'[jar'[b]].login = token'[refresh'[t].token].login
    <3>1. CASE jar'[b] = jar[b] /\ jar[b] \in Tokens /\ Sound(jar[b])
      BY <1>2, <3>1
    <3>2. CASE /\ jar'[b] = jar[b] /\ jar[b] \in Tokens /\ ~Sound(jar[b])
               /\ refresh[t].pc \notin {"rotated", "created"} \/ refresh'[t] = refresh[t]
      <4>1. /\ refresh[t].pc \in {"rotated", "created"} /\ refresh'[t] = refresh[t]
            /\ token[jar[b]].login = token[refresh[t].token].login
            /\ refresh[t].token \in Tokens
        BY <3>2 DEF CookieSound, TypeOK, RefreshRecords
      <4> QED
        BY <1>1, <3>2, <4>1
    <3>3. ASSUME NEW k \in Tokens, jar'[b] = k, Sound(k)' PROVE Sound(jar[b])'
      BY <3>3
    <3> QED
      BY <1>0, <1>2, <3>1, <3>2, <3>3
  <2>2. refresh'[t].pc = "created" => Sound(refresh[t].token)'
    <3> SUFFICES ASSUME refresh'[t].pc = "created" PROVE Sound(refresh[t].token)'
      OBVIOUS
    <3>1. refresh'[t] = refresh[t] /\ refresh[t].token \in Tokens /\ Sound(refresh[t].token)
      BY <1>2 DEF CookieSound, TypeOK, RefreshRecords
    <3> QED
      BY <1>2, <3>1
  <2>3. ASSUME NEW c \in Calls, Granted(t, c)'
        PROVE  call'[t][c].token \in Tokens /\ Sound(call[t][c].token)'
    <3>1. CASE call'[t][c] = call[t][c]
      <4>1. Granted(t, c) /\ Sound(call[t][c].token) /\ call[t][c].token \in Tokens
        BY <2>3, <3>1 DEF Granted, CookieSound
      <4> QED
        BY <1>2, <3>1, <4>1
    <3>2. ASSUME NEW k \in Tokens, call'[t][c].token = k, Sound(k)'
          PROVE  call'[t][c].token \in Tokens /\ Sound(call[t][c].token)'
      BY <3>2
    <3> QED
      BY <1>2, <2>3, <3>1, <3>2
  <2> QED
    BY <2>1, <2>2, <2>3 DEF CookieSound
<1>3. EndSessions \/ (token' = token /\ ends' = ends) => Keeps
  BY <1>0, SoundKept
<1>4. ASSUME NEW k \in Tokens, NEW r, SetRow(k, r), r.expired \/ ~r.revoked, ends' = ends
      PROVE  Keeps /\ Sound(k)'
  <2>1. token'[k] = r /\ \A l \in Tokens \ {k} : token'[l] = token[l]
    BY <1>4, RowSet
  <2> QED
    BY <1>0, <1>4, <2>1 DEF Sound
<1>5. ASSUME NEW k \in Tokens, NEW login, NEW born, createAuthPayload(k, login, born), ends' = ends
      PROVE  Keeps /\ Sound(k)' /\ token'[k].login = login /\ ~Held(k)
  <2> DEFINE r == Row(TRUE, FALSE, FALSE, login, born)
  <2>1. SetRow(k, r)
    BY <1>5 DEF createAuthPayload
  <2>2. ~r.revoked /\ r.login = login
    BY DEF Row
  <2> HIDE DEF r
  <2> QED
    BY <1>0, <1>4, <1>5, <2>1, <2>2, RowSet DEF createAuthPayload
<1>6. (\A c \in Calls : ~LoginCreate(t, c)) => GrantsNone
  BY <1>0, GrantedStays
<1>7. ASSUME NEW c \in Calls, LoginCreate(t, c)
      PROVE  CookieSound(t)'
  <2>1. PICK k \in Tokens : /\ createAuthPayload(k, logins + 1, call[t][c].born)
                            /\ SetCall(t, c, CallOf("granted", "login", FALSE, k, 0))
    BY <1>7 DEF LoginCreate
  <2> DEFINE r == CallOf("granted", "login", FALSE, k, 0)
  <2>2. SetCall(t, c, r) /\ r.token = k
    BY <2>1 DEF CallOf
  <2> HIDE DEF r
  <2>3. call'[t][c].token = k /\ \A d \in Calls \ {c} : call'[t][d] = call[t][d]
    BY <2>2, CallSet
  <2>4. jar' = jar /\ refresh' = refresh /\ ends' = ends
    BY <1>7 DEF LoginCreate
  <2>5. Keeps /\ Sound(k)'
    BY <1>5, <2>1, <2>4
  <2>6. \A d \in Calls : \/ call'[t][d] = call[t][d]
                         \/ \E l \in Tokens : call'[t][d].token = l /\ Sound(l)'
    BY <2>3, <2>5
  <2> QED
    BY <1>2, <2>4, <2>5, <2>6
<1>8. ASSUME NEW c \in Calls, ~LoginCreate(t, c), GrantsNone,
             CallStep(t, c) \/ \E kind \in {"data", "login", "logout"} : Send(t, c, kind)
      PROVE  CookieSound(t)'
  <2>1. CASE LoginAnswered(t, c)
    <3>1. jar'[b] = call[t][c].token /\ refresh' = refresh /\ Granted(t, c) /\ Keeps
      BY <1>3, <2>1, CookieSet DEF LoginAnswered, Granted
    <3>2. call[t][c].token \in Tokens /\ Sound(call[t][c].token)
      BY <3>1 DEF CookieSound
    <3>3. \E k \in Tokens : jar'[b] = k /\ Sound(k)'
      BY <3>1, <3>2
    <3> QED
      BY <1>2, <1>8, <3>1, <3>3
  <2>2. CASE LogoutAnswered(t, c)
    <3>1. jar'[b] = NoToken /\ refresh' = refresh /\ Keeps
      BY <1>3, <2>2, CookieSet DEF LogoutAnswered
    <3> QED
      BY <1>2, <1>8, <3>1
  <2>3. CASE Unauthorized(t, c)
    <3>1. /\ jar' = jar /\ Keeps
          /\ refresh'[t] = refresh[t] \/ (refresh[t].pc = "none" /\ refresh'[t].pc = "sent")
      BY <1>3, <2>3, RefreshFacts DEF Unauthorized, TypeOK
    <3> QED
      BY <1>2, <1>8, <3>1
  <2>4. CASE ~LoginAnswered(t, c) /\ ~LogoutAnswered(t, c) /\ ~Unauthorized(t, c)
    <3>1. /\ jar' = jar /\ refresh' = refresh
          /\ EndSessions \/ (token' = token /\ ends' = ends)
      BY <1>8, <2>4 DEF CallStep, Send, Served, LoginCheck, LogoutRevoke
    <3> QED
      BY <1>2, <1>3, <1>8, <3>1
  <2> QED
    BY <2>1, <2>2, <2>3, <2>4
<1>9. ASSUME RefreshStep(t) \/ LoseRefresh(t), GrantsNone
      PROVE  CookieSound(t)'
  <2>0. refresh[t].pc # "none" /\ ends' = ends
    BY <1>9 DEF RefreshStep, LoseRefresh, RefreshFind, RefreshReplayed, RefreshLapsed, Rotate, RefreshCreate,
       Renewed, NotRenewed
  <2>1. CASE RefreshFind(t)
    <3>1. PICK pc \in {"failed", "replayed", "lapsed", "found"} : SetRefresh(t, RefreshOf(pc, refresh[t].token))
      BY <2>1 DEF RefreshFind
    <3>2. refresh'[t].pc # "created"
      BY <3>1, RefreshSet, RefreshFacts
    <3>3. jar' = jar /\ token' = token /\ refresh[t].pc = "sent"
      BY <2>1 DEF RefreshFind
    <3> QED
      BY <1>2, <1>3, <1>9, <2>0, <3>2, <3>3
  <2>2. CASE RefreshReplayed(t)
    <3>1. /\ SetRefresh(t, RefreshOf("failed", NoToken)) /\ jar' = jar /\ RevokeAll
          /\ refresh[t].pc = "replayed" /\ crossed' = crossed \cup LaterLogins(t)
      BY <2>2 DEF RefreshReplayed
    <3>2. refresh'[t].pc = "failed"
      BY <3>1, RefreshSet, RefreshFacts
    <3>3. ASSUME NEW k \in Tokens, Held(k), Sound(k)
          PROVE  Sound(k)'
      <4>1. CASE k = refresh[t].token
        <5>1. token[k].revoked
          BY <3>1, <4>1 DEF Judged
        <5> QED
          BY <1>0, <2>0, <3>1, <3>3, <5>1, SoundKept
      <4>2. CASE k # refresh[t].token
        <5>1. jar[b] = k \/ \E c \in Calls : Granted(t, c) /\ call[t][c].token = k
          BY <3>3, <4>2
        <5>2. \A c \in Calls : Granted(t, c) => <<t, c>> \in LoggingIn
          BY DEF LoggingIn, Granted
        <5>3. token[k].login \in LaterLogins(t)
          BY <4>2, <5>1, <5>2 DEF LaterLogins
        <5> QED
          BY <1>0, <2>0, <3>1, <3>3, <5>3, SoundKept
      <4> QED
        BY <4>1, <4>2
    <3> QED
      BY <1>2, <1>9, <3>1, <3>2, <3>3
  <2>3. CASE RefreshLapsed(t)
    <3>1. /\ SetRefresh(t, RefreshOf("failed", NoToken)) /\ jar' = jar
          /\ refresh[t].pc = "lapsed" /\ refresh[t].token \in Tokens
          /\ SetRow(refresh[t].token, Revoked(token[refresh[t].token]))
      BY <2>3 DEF RefreshLapsed, TypeOK, RefreshRecords
    <3>2. Revoked(token[refresh[t].token]).expired
      BY <3>1, RowFacts DEF Judged
    <3>3. Keeps /\ refresh'[t].pc = "failed"
      BY <1>4, <2>0, <3>1, <3>2, RefreshSet, RefreshFacts
    <3> QED
      BY <1>2, <1>9, <3>1, <3>3
  <2>4. CASE Rotate(t)
    <3>1. /\ SetRefresh(t, RefreshOf("rotated", refresh[t].token)) /\ jar' = jar
          /\ refresh[t].pc = "found" /\ refresh[t].token \in Tokens
          /\ SetRow(refresh[t].token, Revoked(token[refresh[t].token]))
      BY <2>4 DEF Rotate, TypeOK, RefreshRecords
    <3>2. refresh'[t].pc = "rotated" /\ refresh'[t].token = refresh[t].token
      BY <3>1, RefreshSet, RefreshFacts
    <3>3. \A k \in Tokens \ {refresh[t].token} : token'[k] = token[k]
      BY <3>1, RowSet
    <3>4. \A k \in Tokens \ {refresh[t].token} : Sound(k) => Sound(k)'
      BY <1>0, <2>0, <3>3 DEF Sound
    <3>5. ASSUME jar'[b] \in Tokens
          PROVE  Sound(jar[b])' \/ token'[jar'[b]].login = token'[refresh'[t].token].login
      <4>1. CASE jar[b] = refresh[t].token
        BY <3>1, <3>2, <4>1
      <4>2. CASE jar[b] # refresh[t].token
        <5>1. Sound(jar[b])
          BY <3>1, <3>5 DEF CookieSound
        <5> QED
          BY <3>1, <3>4, <3>5, <4>2, <5>1
      <4> QED
        BY <4>1, <4>2
    <3>6. ASSUME NEW c \in Calls, Granted(t, c)'
          PROVE  call'[t][c].token \in Tokens /\ Sound(call[t][c].token)'
      <4>1. call'[t][c] = call[t][c] /\ Granted(t, c)
        BY <1>9, <3>6 DEF Granted
      <4>2. call[t][c].token \in Tokens \ {refresh[t].token} /\ Sound(call[t][c].token)
        BY <4>1 DEF CookieSound, Apart
      <4> QED
        BY <3>4, <4>1, <4>2
    <3> QED
      BY <3>2, <3>5, <3>6 DEF CookieSound
  <2>5. CASE RefreshCreate(t)
    <3>1. PICK k \in Tokens :
            /\ createAuthPayload(k, token[refresh[t].token].login, token[refresh[t].token].born)
            /\ SetRefresh(t, RefreshOf("created", k))
      BY <2>5 DEF RefreshCreate
    <3>2. Sound(k)' /\ Keeps /\ token'[k].login = token[refresh[t].token].login
      BY <1>5, <2>0, <3>1
    <3>3. refresh'[t].pc = "created" /\ refresh'[t].token = k /\ jar' = jar
      BY <2>5, <3>1, RefreshSet, RefreshFacts DEF RefreshCreate
    <3>4. ASSUME jar'[b] \in Tokens
          PROVE  Sound(jar[b])' \/ token'[jar'[b]].login = token'[refresh'[t].token].login
      <4>1. Sound(jar[b]) \/ token[jar[b]].login = token[refresh[t].token].login
        BY <3>3, <3>4 DEF CookieSound
      <4>2. token'[jar[b]].login = token[jar[b]].login
        BY <1>1, <3>3, <3>4
      <4> QED
        BY <3>2, <3>3, <3>4, <4>1, <4>2
    <3>5. ASSUME NEW c \in Calls, Granted(t, c)'
          PROVE  call'[t][c].token \in Tokens /\ Sound(call[t][c].token)'
      <4>1. call'[t][c] = call[t][c] /\ Granted(t, c)
        BY <1>9, <3>5 DEF Granted
      <4>2. call[t][c].token \in Tokens /\ Sound(call[t][c].token)
        BY <4>1 DEF CookieSound
      <4> QED
        BY <3>2, <4>1, <4>2
    <3>6. Sound(refresh[t].token)'
      BY <3>2, <3>3
    <3> QED
      BY <3>3, <3>4, <3>5, <3>6 DEF CookieSound
  <2>6. CASE Renewed(t) \/ NotRenewed(t) \/ LoseRefresh(t)
    <3>1. token' = token /\ refresh'[t].pc = "none" /\ Keeps
      BY <1>3, <2>0, <2>6, RefreshSet, RefreshFacts DEF Renewed, NotRenewed, LoseRefresh
    <3>2. CASE Renewed(t)
      <4>1. jar'[b] = refresh[t].token /\ refresh[t].pc = "created"
        BY <3>2, CookieSet DEF Renewed
      <4>2. refresh[t].token \in Tokens /\ Sound(refresh[t].token)
        BY <4>1 DEF CookieSound, TypeOK, RefreshRecords
      <4>3. \E k \in Tokens : jar'[b] = k /\ Sound(k)'
        BY <3>1, <4>1, <4>2
      <4> QED
        BY <1>2, <1>9, <3>1, <4>3
    <3>3. CASE NotRenewed(t)
      BY <1>2, <1>9, <3>1, <3>3 DEF NotRenewed
    <3>4. CASE LoseRefresh(t)
      <4>1. jar' = jar /\ token[refresh[t].token].login \in crossed' /\ jar[b] \in Tokens \cup {NoToken}
        BY <3>4, NamesOwn DEF LoseRefresh, TypeOK, Cookies
      <4>2. ASSUME jar[b] \in Tokens PROVE Sound(jar[b])'
        <5>1. Sound(jar[b]) \/ token[jar[b]].login = token[refresh[t].token].login
          BY <4>2 DEF CookieSound
        <5>2. CASE Sound(jar[b])
          BY <3>1, <4>1, <4>2, <5>2
        <5>3. CASE token[jar[b]].login = token[refresh[t].token].login
          BY <3>1, <4>1, <5>3 DEF Sound
        <5> QED
          BY <5>1, <5>2, <5>3
      <4>3. jar'[b] = NoToken \/ \E k \in Tokens : jar'[b] = k /\ Sound(k)'
        BY <4>1, <4>2
      <4> QED
        BY <1>2, <1>9, <3>1, <4>3
    <3> QED
      BY <2>6, <3>2, <3>3, <3>4
  <2> QED
    BY <1>9, <2>1, <2>2, <2>3, <2>4, <2>5, <2>6 DEF RefreshStep
\* The others leave what the page holds.
<1>10. ASSUME Keeps, GrantsNone, refresh' = refresh, jar' = jar
       PROVE  CookieSound(t)'
  BY <1>2, <1>10
<1>11. CASE \/ \E l \in Links : RequestReset(l) \/ ResetApply(l) \/ LinkExpires(l)
            \/ UNCHANGED vars
  <2>1. refresh' = refresh /\ jar' = jar /\ call' = call /\ (EndSessions \/ (token' = token /\ ends' = ends))
    BY <1>11 DEF RequestReset, ResetApply, LinkExpires, vars
  <2> QED
    BY <1>3, <1>10, <2>1
<1>12. ASSUME NEW k \in Tokens, TokenExpires(k)
       PROVE  CookieSound(t)'
  <2>1. [token[k] EXCEPT !.expired = TRUE].expired
    BY DEF TypeOK, Rows
  <2>2. Keeps /\ call' = call
    BY <1>4, <1>12, <2>1 DEF TokenExpires
  <2> QED
    BY <1>10, <1>12, <2>2 DEF TokenExpires
<1>13. CASE Purge
  <2>1. PICK k \in Tokens : SetRow(k, NoRow)
    BY <1>13 DEF Purge
  <2>2. ~NoRow.revoked
    BY DEF NoRow, Row
  <2>3. Keeps /\ call' = call
    BY <1>4, <1>13, <2>1, <2>2 DEF Purge
  <2> QED
    BY <1>10, <1>13, <2>3 DEF Purge
<1>14. ASSUME RefreshStep(t) \/ LoseRefresh(t) PROVE \A c \in Calls : ~LoginCreate(t, c)
  <2>1. logins' = logins /\ logins \in Nat
    BY <1>14 DEF RefreshStep, LoseRefresh, RefreshFind, RefreshReplayed, RefreshLapsed, Rotate, RefreshCreate,
       Renewed, NotRenewed, TypeOK
  <2>2. \A c \in Calls : LoginCreate(t, c) => logins' = logins + 1
    BY DEF LoginCreate
  <2> QED
    BY <2>1, <2>2
<1> QED
  BY <1>0, <1>6, <1>7, <1>8, <1>9, <1>11, <1>12, <1>13, <1>14 DEF Next

\* One browser with one tab: however many calls find their access token expired at once,
\* whatever calls a login runs beside, and wherever a logout or a reset falls between the
\* steps of a refresh, the token in its cookie is never one that the server would take for
\* a replay, unless an answer of its login was lost or the replay of an older cookie ended
\* that login.
THEOREM SessionContinuesOneBrowser == OneBrowser /\ OneTab => (Spec => []SessionContinues)
<1> SUFFICES ASSUME OneBrowser, OneTab PROVE Spec => []SessionContinues
  OBVIOUS
<1>1. Init => ContinuesInv
  <2>1. /\ NoRow.born = 0 /\ NoRow.revoked = FALSE /\ NoRefresh.pc = "none"
        /\ NoCall.pc = "idle" /\ NoCall.born = 0 /\ NoToken \notin Tokens
    BY SessionAssumption DEF NoRow, Row, NoRefresh, RefreshOf, NoCall, CallOf
  <2>2. \A t \in Tabs : t[1] \in Browsers
    BY DEF Tabs
  <2> QED
    BY <2>1, <2>2 DEF Init, ContinuesInv, Judged, CookieSound, Apart, Granted, Sound
<1>2. TypeOK /\ TypeOK' /\ Refs /\ ContinuesInv /\ [Next]_vars => ContinuesInv'
  <2> SUFFICES ASSUME TypeOK, TypeOK', Refs, ContinuesInv, [Next]_vars PROVE ContinuesInv'
    OBVIOUS
  <2>1. Judged'
    BY JudgedStep DEF ContinuesInv
  <2>2. \A t \in Tabs : CookieSound(t)' /\ Apart(t)'
    BY CookieStep, ApartStep DEF ContinuesInv
  <2> QED
    BY <2>1, <2>2 DEF ContinuesInv
<1>3. TypeOK /\ ContinuesInv => SessionContinues
  <2> SUFFICES ASSUME TypeOK, ContinuesInv, NEW b \in Browsers, jar[b] # NoToken, ~InFlight(b),
                      token[jar[b]].born = ends, token[jar[b]].login \notin crossed
               PROVE  ~token[jar[b]].revoked \/ token[jar[b]].expired
    BY DEF SessionContinues
  <2>1. PICK i : TabIds = {i}
    BY DEF OneTab
  <2> DEFINE t == <<b, i>>
  <2>2. t \in Tabs /\ t[1] = b /\ t \in {b} \X TabIds
    BY <2>1 DEF Tabs
  <2>3. refresh[t] = NoRefresh
    BY <2>2 DEF InFlight
  <2>4. jar[b] \in Tokens
    BY DEF TypeOK, Cookies
  <2> HIDE DEF t
  <2>5. Sound(jar[b])
    BY <2>2, <2>3, <2>4, RefreshFacts DEF ContinuesInv, CookieSound
  <2> QED
    BY <2>5 DEF Sound
<1> QED
  BY <1>1, <1>2, <1>3, TypeCorrect, RefsCorrect, PTL DEF Spec

=============================================================================
