--------------------------- MODULE SessionsProofs ---------------------------
(***************************************************************************)
(* Sessions has the types it claims with any number of tabs.  With one tab *)
(* a refresh is refused only for a good reason, and rotation replaces: the *)
(* shared refresh of apiFetch makes the check-then-act of /auth/refresh    *)
(* safe, because no two refreshes of a tab overlap.                        *)
(***************************************************************************)
EXTENDS Sessions, TLAPS

\* The initial state has the types.
LEMMA InitTypes == Init => TypeOK
  BY BoundsAssumption DEF Init, TypeOK, LoginsOK, TokensOK, TabsOK, RefreshesOK, WaitingOK,
     CallState, RefreshState, issued, Idle, None

\* A login issues the next pair.
LEMMA LoginIssues ==
  ASSUME TypeOK, NEW t \in Tab, Login(t)
  PROVE  issued \in Nat /\ issued' = issued + 1
  BY DEF TypeOK, LoginsOK, Login, issued

\* A refresh that found its row issues the next pair, of the same login.
LEMMA RotateIssues ==
  ASSUME TypeOK, NEW t \in Tab, NEW c \in Call, Rotate(t, c)
  PROVE  /\ issued \in Nat /\ issued' = issued + 1
         /\ refresh[t][c].sent \in 1 .. issued
         /\ login[refresh[t][c].sent] \in 1 .. refresh[t][c].sent
         /\ login' = Append(login, login[refresh[t][c].sent])
  <1>1. issued \in Nat /\ refresh[t][c].sent \in 1 .. issued
    BY DEF TypeOK, LoginsOK, TabsOK, RefreshesOK, RefreshState, Rotate, issued
  <1>2. login[refresh[t][c].sent] \in 1 .. refresh[t][c].sent
    BY <1>1 DEF TypeOK, LoginsOK
  <1>3. issued' = issued + 1
    BY <1>1, <1>2 DEF TypeOK, LoginsOK, Rotate, issued
  <1> QED
    BY <1>1, <1>2, <1>3 DEF Rotate

\* A pair issued by a refresh descends from the login of the old pair.
LEMMA LoginsStep == TypeOK /\ [Next]_vars => LoginsOK'
  <1> SUFFICES ASSUME TypeOK, [Next]_vars PROVE LoginsOK'
    OBVIOUS
  <1> USE DEF LoginsOK, issued, server, world, tab, failures, TypeOK
  <1>1. ASSUME NEW t \in Tab, Login(t) PROVE LoginsOK'
    <2>1. issued \in Nat /\ issued' = issued + 1
      BY <1>1, LoginIssues
    <2> QED
      BY <1>1, <2>1 DEF Login
  <1>2. ASSUME NEW t \in Tab, Logout(t) PROVE LoginsOK'
    BY <1>2 DEF Logout
  <1>3. ASSUME NEW t \in Tab, NEW c \in Call, Send(t, c) PROVE LoginsOK'
    BY <1>3 DEF Send
  <1>4. ASSUME NEW t \in Tab, NEW c \in Call, Answered(t, c) PROVE LoginsOK'
    BY <1>4 DEF Answered
  <1>5. ASSUME NEW t \in Tab, NEW c \in Call, Unauthorized(t, c) PROVE LoginsOK'
    BY <1>5 DEF Unauthorized
  <1>6. ASSUME NEW t \in Tab, NEW c \in Call, Refreshed(t, c) PROVE LoginsOK'
    BY <1>6 DEF Refreshed, Wake
  <1>7. ASSUME NEW t \in Tab, NEW c \in Call, Refused(t, c) PROVE LoginsOK'
    BY <1>7 DEF Refused, Expel, Wake
  <1>8. ASSUME NEW t \in Tab, NEW c \in Call, Lose(t, c) PROVE LoginsOK'
    BY <1>8 DEF Lose, Expel, Wake, Restart
  <1>9. ASSUME NEW t \in Tab, Reload(t) PROVE LoginsOK'
    BY <1>9 DEF Reload, Restart
  <1>10. ASSUME NEW t \in Tab, NEW c \in Call, Find(t, c) PROVE LoginsOK'
    BY <1>10 DEF Find
  <1>11. ASSUME NEW t \in Tab, NEW c \in Call, Refuse(t, c) PROVE LoginsOK'
    BY <1>11 DEF Refuse
  <1>12. ASSUME NEW t \in Tab, NEW c \in Call, Rotate(t, c) PROVE LoginsOK'
    <2>1. /\ issued \in Nat /\ issued' = issued + 1
          /\ refresh[t][c].sent \in 1 .. issued
          /\ login[refresh[t][c].sent] \in 1 .. refresh[t][c].sent
          /\ login' = Append(login, login[refresh[t][c].sent])
      BY <1>12, RotateIssues
    <2> QED
      BY <1>12, <2>1 DEF Rotate
  <1>13. CASE ExpireAccess
    BY <1>13 DEF ExpireAccess
  <1>14. CASE ExpireRefresh
    BY <1>14 DEF ExpireRefresh
  <1>15. CASE UNCHANGED vars
    BY <1>15 DEF vars
  <1>16. ASSUME NEW t \in Tab, NEW c \in Call, RetryFails(t, c) PROVE LoginsOK'
    BY <1>16 DEF RetryFails
  <1>17. ASSUME NEW t \in Tab, NEW c \in Call, Bar(t, c) PROVE LoginsOK'
    BY <1>17 DEF Bar
  <1>18. ASSUME NEW t \in Tab, NEW c \in Call, RotateFails(t, c) PROVE LoginsOK'
    BY <1>18 DEF RotateFails
  <1>19. CASE AccountChanges
    BY <1>19 DEF AccountChanges
  <1>20. CASE AccountDeleted
    BY <1>20 DEF AccountDeleted
  <1> QED
    BY <1>1, <1>2, <1>3, <1>4, <1>5, <1>6, <1>7, <1>8, <1>9, <1>10, <1>11, <1>12, <1>13, <1>14, <1>15,
       <1>16, <1>17, <1>18, <1>19, <1>20 DEF Next, User, Progress

\* Tokens are never ahead of what has been issued.
LEMMA TokensStep == TypeOK /\ [Next]_vars => TokensOK'
  <1> SUFFICES ASSUME TypeOK, [Next]_vars PROVE TokensOK'
    OBVIOUS
  <1> USE BoundsAssumption
  <1> USE DEF TokensOK, server, world, tab, failures, TypeOK
  <1>0. issued \in Nat /\ (login' = login => issued' = issued)
    BY DEF LoginsOK, issued
  <1>1. ASSUME NEW t \in Tab, Login(t) PROVE TokensOK'
    <2>1. issued \in Nat /\ issued' = issued + 1
      BY <1>1, LoginIssues
    <2> QED
      BY <1>0, <1>1, <2>1 DEF Login
  <1>2. ASSUME NEW t \in Tab, Logout(t) PROVE TokensOK'
    BY <1>0, <1>2 DEF Logout
  <1>3. ASSUME NEW t \in Tab, NEW c \in Call, Send(t, c) PROVE TokensOK'
    BY <1>0, <1>3 DEF Send
  <1>4. ASSUME NEW t \in Tab, NEW c \in Call, Answered(t, c) PROVE TokensOK'
    BY <1>0, <1>4 DEF Answered
  <1>5. ASSUME NEW t \in Tab, NEW c \in Call, Unauthorized(t, c) PROVE TokensOK'
    BY <1>0, <1>5 DEF Unauthorized
  <1>6. ASSUME NEW t \in Tab, NEW c \in Call, Refreshed(t, c) PROVE TokensOK'
    BY <1>0, <1>6 DEF Refreshed, RefreshesOK, TabsOK, RefreshState
  <1>7. ASSUME NEW t \in Tab, NEW c \in Call, Refused(t, c) PROVE TokensOK'
    BY <1>0, <1>7 DEF Refused, Expel, Wake
  <1>8. ASSUME NEW t \in Tab, NEW c \in Call, Lose(t, c) PROVE TokensOK'
    <2>1. \A n \in {refresh[t][c].sent} \ {0} : login[n] \in 1 .. issued
      BY <1>0 DEF LoginsOK, RefreshesOK, TabsOK, RefreshState
    <2> QED
      BY <1>0, <1>8, <2>1 DEF Lose
  <1>9. ASSUME NEW t \in Tab, Reload(t) PROVE TokensOK'
    BY <1>0, <1>9 DEF Reload, Restart
  <1>10. ASSUME NEW t \in Tab, NEW c \in Call, Find(t, c) PROVE TokensOK'
    BY <1>0, <1>10 DEF Find
  <1>11. ASSUME NEW t \in Tab, NEW c \in Call, Refuse(t, c) PROVE TokensOK'
    BY <1>0, <1>11 DEF Refuse
  <1>12. ASSUME NEW t \in Tab, NEW c \in Call, Rotate(t, c) PROVE TokensOK'
    <2>1. /\ issued \in Nat /\ issued' = issued + 1
          /\ refresh[t][c].sent \in 1 .. issued
          /\ login[refresh[t][c].sent] \in 1 .. refresh[t][c].sent
          /\ login' = Append(login, login[refresh[t][c].sent])
      BY <1>12, RotateIssues
    <2> QED
      BY <1>0, <1>12, <2>1 DEF Rotate
  <1>13. CASE ExpireAccess
    BY <1>0, <1>13 DEF ExpireAccess
  <1>14. CASE ExpireRefresh
    BY <1>0, <1>14 DEF ExpireRefresh
  <1>15. CASE UNCHANGED vars
    BY <1>0, <1>15 DEF vars
  <1>16. ASSUME NEW t \in Tab, NEW c \in Call, RetryFails(t, c) PROVE TokensOK'
    BY <1>0, <1>16 DEF RetryFails
  <1>17. ASSUME NEW t \in Tab, NEW c \in Call, Bar(t, c) PROVE TokensOK'
    <2>1. login[refresh[t][c].sent] \in 1 .. issued
      BY <1>0, <1>17 DEF Bar, LoginsOK, RefreshesOK, TabsOK, RefreshState
    <2> QED
      BY <1>0, <1>17, <2>1 DEF Bar
  <1>18. ASSUME NEW t \in Tab, NEW c \in Call, RotateFails(t, c) PROVE TokensOK'
    BY <1>0, <1>18 DEF RotateFails
  <1>19. CASE AccountChanges
    BY <1>0, <1>19 DEF AccountChanges
  <1>20. CASE AccountDeleted
    <2>1. \A n \in 1 .. issued : login[n] \in 1 .. issued
      BY <1>0 DEF LoginsOK
    <2> QED
      BY <1>0, <1>20, <2>1 DEF AccountDeleted
  <1> QED
    BY <1>1, <1>2, <1>3, <1>4, <1>5, <1>6, <1>7, <1>8, <1>9, <1>10, <1>11, <1>12, <1>13, <1>14, <1>15,
       <1>16, <1>17, <1>18, <1>19, <1>20 DEF Next, User, Progress

\* The tabs keep their types.
LEMMA TabsStep == TypeOK /\ [Next]_vars => TabsOK'
  <1> SUFFICES ASSUME TypeOK, [Next]_vars PROVE TabsOK'
    OBVIOUS
  <1> USE DEF TabsOK, CallState, RefreshState, Idle, None, server, world, tab, failures, TypeOK
  <1>1. ASSUME NEW t \in Tab, Login(t) PROVE TabsOK'
    <2>1. issued \in Nat /\ issued' = issued + 1
      BY <1>1, LoginIssues
    <2> QED
      BY <1>1, <2>1 DEF Login
  <1>2. ASSUME NEW t \in Tab, Logout(t) PROVE TabsOK'
    BY <1>2 DEF Logout
  <1>3. ASSUME NEW t \in Tab, NEW c \in Call, Send(t, c) PROVE TabsOK'
    BY <1>3 DEF Send
  <1>4. ASSUME NEW t \in Tab, NEW c \in Call, Answered(t, c) PROVE TabsOK'
    BY <1>4 DEF Answered
  <1>5. ASSUME NEW t \in Tab, NEW c \in Call, Unauthorized(t, c) PROVE TabsOK'
    <2>1. cookie \in Nat
      BY DEF LoginsOK, TokensOK
    <2>2. call' \in [Tab -> [Call -> CallState]]
      BY <1>5 DEF Unauthorized
    <2>3. refresh' \in [Tab -> [Call -> RefreshState]]
      BY <1>5, <2>1 DEF Unauthorized
    <2> QED
      BY <1>5, <2>2, <2>3 DEF Unauthorized
  <1>6. ASSUME NEW t \in Tab, NEW c \in Call, Refreshed(t, c) PROVE TabsOK'
    BY <1>6 DEF Refreshed, Wake
  <1>7. ASSUME NEW t \in Tab, NEW c \in Call, Refused(t, c) PROVE TabsOK'
    BY <1>7 DEF Refused, Expel, Wake
  <1>8. ASSUME NEW t \in Tab, NEW c \in Call, Lose(t, c) PROVE TabsOK'
    <2>1. CASE Expel(t)
      BY <1>8, <2>1 DEF Lose, Expel, Wake
    <2>2. CASE Restart(t)
      BY <1>8, <2>2 DEF Lose, Restart
    <2> QED
      BY <1>8, <2>1, <2>2 DEF Lose
  <1>9. ASSUME NEW t \in Tab, Reload(t) PROVE TabsOK'
    BY <1>9 DEF Reload, Restart
  <1>10. ASSUME NEW t \in Tab, NEW c \in Call, Find(t, c) PROVE TabsOK'
    BY <1>10 DEF Find
  <1>11. ASSUME NEW t \in Tab, NEW c \in Call, Refuse(t, c) PROVE TabsOK'
    BY <1>11 DEF Refuse
  <1>12. ASSUME NEW t \in Tab, NEW c \in Call, Rotate(t, c) PROVE TabsOK'
    <2>1. /\ issued \in Nat /\ issued' = issued + 1
          /\ refresh[t][c].sent \in 1 .. issued
          /\ login[refresh[t][c].sent] \in 1 .. refresh[t][c].sent
          /\ login' = Append(login, login[refresh[t][c].sent])
      BY <1>12, RotateIssues
    <2> QED
      BY <1>12, <2>1 DEF Rotate
  <1>13. CASE ExpireAccess
    BY <1>13 DEF ExpireAccess
  <1>14. CASE ExpireRefresh
    BY <1>14 DEF ExpireRefresh
  <1>15. CASE UNCHANGED vars
    BY <1>15 DEF vars
  <1>16. ASSUME NEW t \in Tab, NEW c \in Call, RetryFails(t, c) PROVE TabsOK'
    BY <1>16 DEF RetryFails
  <1>17. ASSUME NEW t \in Tab, NEW c \in Call, Bar(t, c) PROVE TabsOK'
    BY <1>17 DEF Bar
  <1>18. ASSUME NEW t \in Tab, NEW c \in Call, RotateFails(t, c) PROVE TabsOK'
    BY <1>18 DEF RotateFails
  <1>19. CASE AccountChanges
    BY <1>19 DEF AccountChanges
  <1>20. CASE AccountDeleted
    BY <1>20 DEF AccountDeleted
  <1> QED
    BY <1>1, <1>2, <1>3, <1>4, <1>5, <1>6, <1>7, <1>8, <1>9, <1>10, <1>11, <1>12, <1>13, <1>14, <1>15,
       <1>16, <1>17, <1>18, <1>19, <1>20 DEF Next, User, Progress

\* A refresh carries tokens that have been issued.
LEMMA RefreshesStep == TypeOK /\ [Next]_vars => RefreshesOK'
  <1> SUFFICES ASSUME TypeOK, [Next]_vars PROVE RefreshesOK'
    OBVIOUS
  <1> USE DEF RefreshesOK, TabsOK, TokensOK, CallState, RefreshState, None, server, world, tab, failures, TypeOK
  <1>0. issued \in Nat /\ (login' = login => issued' = issued)
    BY DEF LoginsOK, issued
  <1>1. ASSUME NEW t \in Tab, Login(t) PROVE RefreshesOK'
    <2>1. issued \in Nat /\ issued' = issued + 1
      BY <1>1, LoginIssues
    <2> QED
      BY <1>0, <1>1, <2>1 DEF Login
  <1>2. ASSUME NEW t \in Tab, Logout(t) PROVE RefreshesOK'
    BY <1>0, <1>2 DEF Logout
  <1>3. ASSUME NEW t \in Tab, NEW c \in Call, Send(t, c) PROVE RefreshesOK'
    BY <1>0, <1>3 DEF Send
  <1>4. ASSUME NEW t \in Tab, NEW c \in Call, Answered(t, c) PROVE RefreshesOK'
    BY <1>0, <1>4 DEF Answered
  <1>5. ASSUME NEW t \in Tab, NEW c \in Call, Unauthorized(t, c) PROVE RefreshesOK'
    BY <1>0, <1>5 DEF Unauthorized
  <1>6. ASSUME NEW t \in Tab, NEW c \in Call, Refreshed(t, c) PROVE RefreshesOK'
    BY <1>0, <1>6 DEF Refreshed, Wake
  <1>7. ASSUME NEW t \in Tab, NEW c \in Call, Refused(t, c) PROVE RefreshesOK'
    BY <1>0, <1>7 DEF Refused, Expel, Wake
  <1>8. ASSUME NEW t \in Tab, NEW c \in Call, Lose(t, c) PROVE RefreshesOK'
    BY <1>0, <1>8 DEF Lose, Expel, Wake, Restart
  <1>9. ASSUME NEW t \in Tab, Reload(t) PROVE RefreshesOK'
    BY <1>0, <1>9 DEF Reload, Restart
  <1>10. ASSUME NEW t \in Tab, NEW c \in Call, Find(t, c) PROVE RefreshesOK'
    BY <1>0, <1>10 DEF Find
  <1>11. ASSUME NEW t \in Tab, NEW c \in Call, Refuse(t, c) PROVE RefreshesOK'
    BY <1>0, <1>11 DEF Refuse
  <1>12. ASSUME NEW t \in Tab, NEW c \in Call, Rotate(t, c) PROVE RefreshesOK'
    <2>1. /\ issued \in Nat /\ issued' = issued + 1
          /\ refresh[t][c].sent \in 1 .. issued
          /\ login[refresh[t][c].sent] \in 1 .. refresh[t][c].sent
          /\ login' = Append(login, login[refresh[t][c].sent])
      BY <1>12, RotateIssues
    <2>2. \A s \in Tab, b \in Call : (s # t \/ b # c) => refresh'[s][b] = refresh[s][b]
      BY <1>12 DEF Rotate
    <2>3. refresh'[t][c] = [pc |-> "granted", sent |-> refresh[t][c].sent, new |-> issued + 1]
      BY <1>12, <2>1 DEF Rotate
    <2> SUFFICES ASSUME NEW s \in Tab, NEW b \in Call
                 PROVE  /\ refresh'[s][b].sent <= issued' /\ refresh'[s][b].new <= issued'
                        /\ refresh'[s][b].pc \in {"found", "barred"} => refresh'[s][b].sent # 0
      OBVIOUS
    <2>4. refresh[s][b].sent \in 0 .. issued /\ refresh[s][b].new \in 0 .. issued
      OBVIOUS
    <2>5. issued \in Nat /\ issued' = issued + 1 /\ refresh[t][c].sent \in 1 .. issued
      BY <2>1
    <2>6. CASE s = t /\ b = c
      BY <2>3, <2>5, <2>6
    <2>7. CASE s # t \/ b # c
      BY <2>2, <2>4, <2>5, <2>7
    <2> QED
      BY <2>6, <2>7
  <1>13. CASE ExpireAccess
    BY <1>0, <1>13 DEF ExpireAccess
  <1>14. CASE ExpireRefresh
    BY <1>0, <1>14 DEF ExpireRefresh
  <1>15. CASE UNCHANGED vars
    BY <1>0, <1>15 DEF vars
  <1>16. ASSUME NEW t \in Tab, NEW c \in Call, RetryFails(t, c) PROVE RefreshesOK'
    BY <1>0, <1>16 DEF RetryFails
  <1>17. ASSUME NEW t \in Tab, NEW c \in Call, Bar(t, c) PROVE RefreshesOK'
    BY <1>0, <1>17 DEF Bar
  <1>18. ASSUME NEW t \in Tab, NEW c \in Call, RotateFails(t, c) PROVE RefreshesOK'
    BY <1>0, <1>18 DEF RotateFails
  <1>19. CASE AccountChanges
    BY <1>0, <1>19 DEF AccountChanges
  <1>20. CASE AccountDeleted
    BY <1>0, <1>20 DEF AccountDeleted
  <1> QED
    BY <1>1, <1>2, <1>3, <1>4, <1>5, <1>6, <1>7, <1>8, <1>9, <1>10, <1>11, <1>12, <1>13, <1>14, <1>15,
       <1>16, <1>17, <1>18, <1>19, <1>20 DEF Next, User, Progress

\* Calls wait only while a refresh of their tab runs.
LEMMA WaitingStep == TypeOK /\ [Next]_vars => WaitingOK'
  <1> SUFFICES ASSUME TypeOK, [Next]_vars PROVE WaitingOK'
    OBVIOUS
  <1> USE DEF WaitingOK, TabsOK, CallState, RefreshState, Refreshing, Idle, None, server, world, tab, failures, TypeOK
  <1>1. ASSUME NEW t \in Tab, Login(t) PROVE WaitingOK'
    BY <1>1 DEF Login
  <1>2. ASSUME NEW t \in Tab, Logout(t) PROVE WaitingOK'
    BY <1>2 DEF Logout
  <1>3. ASSUME NEW t \in Tab, NEW c \in Call, Send(t, c) PROVE WaitingOK'
    BY <1>3 DEF Send
  <1>4. ASSUME NEW t \in Tab, NEW c \in Call, Answered(t, c) PROVE WaitingOK'
    BY <1>4 DEF Answered
  <1>5. ASSUME NEW t \in Tab, NEW c \in Call, Unauthorized(t, c) PROVE WaitingOK'
    BY <1>5 DEF Unauthorized
  <1>6. ASSUME NEW t \in Tab, NEW c \in Call, Refreshed(t, c) PROVE WaitingOK'
    BY <1>6 DEF Refreshed, Wake
  <1>7. ASSUME NEW t \in Tab, NEW c \in Call, Refused(t, c) PROVE WaitingOK'
    BY <1>7 DEF Refused, Expel, Wake
  <1>8. ASSUME NEW t \in Tab, NEW c \in Call, Lose(t, c) PROVE WaitingOK'
    <2>1. CASE Expel(t)
      BY <1>8, <2>1 DEF Lose, Expel, Wake
    <2>2. CASE Restart(t)
      BY <1>8, <2>2 DEF Lose, Restart
    <2> QED
      BY <1>8, <2>1, <2>2 DEF Lose
  <1>9. ASSUME NEW t \in Tab, Reload(t) PROVE WaitingOK'
    BY <1>9 DEF Reload, Restart
  <1>10. ASSUME NEW t \in Tab, NEW c \in Call, Find(t, c) PROVE WaitingOK'
    BY <1>10 DEF Find
  <1>11. ASSUME NEW t \in Tab, NEW c \in Call, Refuse(t, c) PROVE WaitingOK'
    BY <1>11 DEF Refuse
  <1>12. ASSUME NEW t \in Tab, NEW c \in Call, Rotate(t, c) PROVE WaitingOK'
    BY <1>12 DEF Rotate
  <1>13. CASE ExpireAccess
    BY <1>13 DEF ExpireAccess
  <1>14. CASE ExpireRefresh
    BY <1>14 DEF ExpireRefresh
  <1>15. CASE UNCHANGED vars
    BY <1>15 DEF vars
  <1>16. ASSUME NEW t \in Tab, NEW c \in Call, RetryFails(t, c) PROVE WaitingOK'
    BY <1>16 DEF RetryFails
  <1>17. ASSUME NEW t \in Tab, NEW c \in Call, Bar(t, c) PROVE WaitingOK'
    BY <1>17 DEF Bar
  <1>18. ASSUME NEW t \in Tab, NEW c \in Call, RotateFails(t, c) PROVE WaitingOK'
    BY <1>18 DEF RotateFails
  <1>19. CASE AccountChanges
    BY <1>19 DEF AccountChanges
  <1>20. CASE AccountDeleted
    BY <1>20 DEF AccountDeleted
  <1> QED
    BY <1>1, <1>2, <1>3, <1>4, <1>5, <1>6, <1>7, <1>8, <1>9, <1>10, <1>11, <1>12, <1>13, <1>14, <1>15,
       <1>16, <1>17, <1>18, <1>19, <1>20 DEF Next, User, Progress

\* Every variable of the browser and of the server keeps its type, and no call
\* waits for nothing, with any number of tabs and calls.
THEOREM TypeCorrect == Spec => []TypeOK
  <1>1. TypeOK /\ [Next]_vars => TypeOK'
    BY LoginsStep, TokensStep, TabsStep, RefreshesStep, WaitingStep DEF TypeOK
  <1> QED
    BY InitTypes, <1>1, PTL DEF Spec

-----------------------------------------------------------------------------
(* One tab.                                                                *)

OneTab == \A s, t \in Tab : s = t

\* A refresh with this token will not be refused without reason.
Usable(n) == n <= oldRefresh \/ n \in live \/ login[n] \in broken \cup barred

\* The row a refresh has found is there until it is rotated, or the account
\* has been deleted meanwhile.
Kept(n) == IF account = "gone" THEN login[n] \in barred ELSE n \in live

OneRefresh == \A s, t \in Tab, b, c \in Call :
    refresh[s][b].pc # "none" /\ refresh[t][c].pc # "none" => s = t /\ b = c

RefreshesGood == \A t \in Tab, c \in Call :
    /\ refresh[t][c].pc = "sent" => Usable(refresh[t][c].sent)
    /\ refresh[t][c].pc = "found" => Kept(refresh[t][c].sent)
    /\ refresh[t][c].pc = "granted" => refresh[t][c].sent # 0 /\ Usable(refresh[t][c].new)

\* The cookie can be used, unless its successor is on the way.
CookieGood ==
    \/ Usable(cookie)
    \/ \E t \in Tab, c \in Call :
            refresh[t][c].pc = "granted" /\ refresh[t][c].sent = cookie

IInv == TypeOK /\ OneRefresh /\ RefreshesGood /\ CookieGood /\ RefusalsTrue /\ ChainsSingle

\* Nothing has been issued in the initial state.
LEMMA InitOneTab == Init => IInv
  BY InitTypes DEF Init, IInv, OneRefresh, RefreshesGood, CookieGood, RefusalsTrue, ChainsSingle, Usable, Kept, Idle, None

\* Every step of a browser with one tab keeps the invariant.
LEMMA StepOneTab == ASSUME OneTab PROVE IInv /\ [Next]_vars => IInv'
  <1> DEFINE Safe == OneRefresh /\ RefreshesGood /\ CookieGood /\ RefusalsTrue /\ ChainsSingle
  <1> SUFFICES ASSUME IInv, [Next]_vars PROVE IInv'
    OBVIOUS
  <1>0. TypeOK'
    BY LoginsStep, TokensStep, TabsStep, RefreshesStep, WaitingStep DEF TypeOK, IInv
  <1> USE DEF IInv, OneRefresh, RefreshesGood, CookieGood, RefusalsTrue, ChainsSingle, Usable, Kept
  <1>1. ASSUME NEW t \in Tab, Login(t) PROVE Safe'
    <2>1. issued \in Nat /\ issued' = issued + 1
      BY <1>1, LoginIssues
    <2>2. /\ login' = Append(login, issued + 1) /\ login \in Seq(Nat)
          /\ \A n \in 1 .. issued : login[n] \in 1 .. issued
      BY <1>1, <2>1 DEF Login, TypeOK, LoginsOK
    <2>3. /\ \A n \in 1 .. issued : login'[n] = login[n]
          /\ login'[issued + 1] = issued + 1
      BY <2>1, <2>2 DEF issued
    <2>4. /\ live \subseteq 1 .. issued /\ broken \subseteq 1 .. issued
          /\ oldRefresh \in Nat /\ cookie \in 0 .. issued
      BY <2>1 DEF TypeOK, TokensOK
    <2>a. live' = live \cup {issued + 1} /\ UNCHANGED <<oldRefresh, broken, barred, account, refresh>>
      BY <1>1, <2>1 DEF Login, world, failures
    <2>5. \A n \in 0 .. issued : Usable(n) => Usable(n)'
      BY <2>1, <2>3, <2>4, <2>a
    <2>6. \A s \in Tab, b \in Call :
            refresh[s][b].sent \in 0 .. issued /\ refresh[s][b].new \in 0 .. issued
      BY <2>1 DEF TypeOK, RefreshesOK, TabsOK, RefreshState
    <2>7. Usable(cookie)'
      BY <1>1 DEF Login
    <2>8. OneRefresh' /\ CookieGood'
      BY <1>1, <2>7 DEF Login
    <2>b. \A n \in 1 .. issued : Kept(n) => Kept(n)'
      BY <2>1, <2>3, <2>a
    <2>c. \A s \in Tab, b \in Call : refresh[s][b].pc = "found" => refresh[s][b].sent \in 1 .. issued
      BY <2>1, <2>6 DEF TypeOK, RefreshesOK
    <2>9. RefreshesGood'
      <3> HIDE DEF Usable, Kept
      <3> QED
        BY <2>5, <2>6, <2>a, <2>b, <2>c
    <2>10. RefusalsTrue'
      BY <2>1, <2>3, <2>4, <2>6, <2>a
    <2>11. ChainsSingle'
      BY <2>1, <2>2, <2>3, <2>4, <2>a
    <2> QED
      BY <2>8, <2>9, <2>10, <2>11
  <1>2. ASSUME NEW t \in Tab, Logout(t) PROVE Safe'
    BY <1>2 DEF Logout, server, world, failures, TypeOK, TabsOK, RefreshState, TokensOK, None
  <1>3. ASSUME NEW t \in Tab, NEW c \in Call, Send(t, c) PROVE Safe'
    BY <1>3 DEF Send, server, world, tab, failures, TypeOK, TabsOK, RefreshState, TokensOK, None
  <1>4. ASSUME NEW t \in Tab, NEW c \in Call, Answered(t, c) PROVE Safe'
    BY <1>4 DEF Answered, server, world, tab, failures, TypeOK, TabsOK, RefreshState, TokensOK, None
  <1>5. ASSUME NEW t \in Tab, NEW c \in Call, Unauthorized(t, c) PROVE Safe'
    <2>1. CASE Refreshing(t) # {}
      BY <1>5, <2>1 DEF Unauthorized, server, world, tab, failures
    <2>2. CASE Refreshing(t) = {}
      <3>1. \A s \in Tab, b \in Call : refresh[s][b].pc = "none"
        BY <2>2 DEF OneTab, Refreshing
      <3>2. /\ \A s \in Tab, b \in Call : (s # t \/ b # c) => refresh'[s][b].pc = "none"
            /\ refresh'[t][c] = [pc |-> "sent", sent |-> cookie, new |-> 0]
        BY <1>5, <2>2, <3>1 DEF Unauthorized, TypeOK, TabsOK
      <3>3. Usable(cookie) /\ UNCHANGED <<login, live, oldRefresh, cookie, broken, barred, account>>
        BY <1>5, <3>1 DEF Unauthorized, server, world, tab, failures
      <3> QED
        BY <3>2, <3>3
    <2> QED
      BY <2>1, <2>2
  <1>6. ASSUME NEW t \in Tab, NEW c \in Call, Refreshed(t, c) PROVE Safe'
    BY <1>6 DEF Refreshed, server, world, failures, TypeOK, TabsOK, RefreshState, TokensOK, None
  <1>7. ASSUME NEW t \in Tab, NEW c \in Call, Refused(t, c) PROVE Safe'
    <2>1. \A s \in Tab, b \in Call : refresh'[s][b].pc \in {refresh[s][b].pc, "none"}
      BY <1>7 DEF Refused, TypeOK, TabsOK, None
    <2>2. \A s \in Tab, b \in Call : refresh'[s][b].pc # "none" => refresh'[s][b] = refresh[s][b]
      BY <1>7 DEF Refused, TypeOK, TabsOK, None
    <2>3. \A s \in Tab, b \in Call : refresh[s][b].pc = "granted" => refresh'[s][b] = refresh[s][b]
      BY <1>7 DEF Refused, TypeOK, TabsOK
    <2>4. UNCHANGED <<login, live, oldRefresh, account, cookie, broken, barred>>
      BY <1>7 DEF Refused, server, world, failures
    <2> QED
      BY <2>1, <2>2, <2>3, <2>4
  <1>8. ASSUME NEW t \in Tab, NEW c \in Call, Lose(t, c) PROVE Safe'
    <2>1. \A s \in Tab, b \in Call : (s # t \/ b # c) => refresh[s][b].pc = "none"
      BY <1>8 DEF Lose
    <2>2. \A s \in Tab, b \in Call : refresh'[s][b].pc = "none"
      BY <1>8, <2>1 DEF Lose, TypeOK, TabsOK, None
    <2>3. UNCHANGED <<login, live, oldRefresh, cookie, barred>>
      BY <1>8 DEF Lose, server, world
    <2>4. /\ broken \subseteq broken'
          /\ refresh[t][c].sent # 0 => login[refresh[t][c].sent] \in broken'
      BY <1>8 DEF Lose
    <2>5. CookieGood'
      <3>1. CASE Usable(cookie)
        BY <2>3, <2>4, <3>1
      <3>2. CASE ~Usable(cookie)
        BY <2>1, <2>3, <2>4, <3>2
      <3> QED
        BY <3>1, <3>2
    <2>6. ChainsSingle'
      BY <2>3, <2>4
    <2> QED
      BY <2>2, <2>5, <2>6
  <1>9. ASSUME NEW t \in Tab, Reload(t) PROVE Safe'
    BY <1>9 DEF Reload, Restart, server, world, failures, TypeOK, TabsOK, RefreshState, TokensOK, None
  <1>10. ASSUME NEW t \in Tab, NEW c \in Call, Find(t, c) PROVE Safe'
    <2>1. \A s \in Tab, b \in Call : (s # t \/ b # c) => refresh[s][b].pc = "none"
      BY <1>10 DEF Find
    <2>2. /\ \A s \in Tab, b \in Call : (s # t \/ b # c) => refresh'[s][b] = refresh[s][b]
          /\ refresh'[t][c].pc \in {"found", "barred"}
          /\ refresh'[t][c].pc = "found" => account # "gone"
          /\ refresh'[t][c].sent = refresh[t][c].sent
      BY <1>10 DEF Find, TypeOK, TabsOK
    <2>3. CookieGood => Usable(cookie)
      BY <1>10, <2>1 DEF Find
    <2>4. UNCHANGED <<login, oldRefresh, cookie, broken, barred, account>>
      BY <1>10 DEF Find, server, world, tab, failures
    <2>5. UNCHANGED live /\ refresh[t][c].sent \in live
      BY <1>10 DEF Find, server
    <2> QED
      BY <2>1, <2>2, <2>3, <2>4, <2>5
  <1>11. ASSUME NEW t \in Tab, NEW c \in Call, Refuse(t, c) PROVE Safe'
    <2>1. \A s \in Tab, b \in Call : (s # t \/ b # c) => refresh[s][b].pc = "none"
      BY <1>11 DEF Refuse
    <2>2. /\ \A s \in Tab, b \in Call : (s # t \/ b # c) => refresh'[s][b] = refresh[s][b]
          /\ refresh'[t][c].pc = "refused" /\ refresh'[t][c].sent = refresh[t][c].sent
      BY <1>11 DEF Refuse, TypeOK, TabsOK
    <2>3. CookieGood => Usable(cookie)
      BY <1>11, <2>1 DEF Refuse
    <2>4. UNCHANGED <<login, oldRefresh, cookie, broken, barred, account>>
      BY <1>11 DEF Refuse, world, tab, failures
    <2>5. /\ live' = live \ {refresh[t][c].sent} /\ Usable(refresh[t][c].sent)
          /\ refresh[t][c].sent \notin live \/ refresh[t][c].sent <= oldRefresh
      BY <1>11 DEF Refuse
    <2>6. \A n : Usable(n) => Usable(n)'
      BY <2>4, <2>5
    <2>7. OneRefresh' /\ RefreshesGood' /\ CookieGood'
      BY <2>1, <2>2, <2>3, <2>4, <2>6
    <2>8. RefusalsTrue' /\ ChainsSingle'
      BY <2>1, <2>2, <2>4, <2>5
    <2> QED
      BY <2>7, <2>8
  <1>12. ASSUME NEW t \in Tab, NEW c \in Call, Rotate(t, c) PROVE Safe'
    <2> DEFINE sent == refresh[t][c].sent
    <2>1. /\ issued \in Nat /\ issued' = issued + 1
          /\ sent \in 1 .. issued
          /\ login' = Append(login, login[sent]) /\ login \in Seq(Nat)
      BY <1>12, RotateIssues DEF TypeOK, LoginsOK
    <2>2. /\ \A n \in 1 .. issued : login'[n] = login[n]
          /\ login'[issued + 1] = login[sent]
      BY <2>1 DEF issued
    <2>3. /\ \A s \in Tab, b \in Call : (s # t \/ b # c) => refresh'[s][b].pc = "none"
          /\ refresh'[t][c] = [pc |-> "granted", sent |-> sent, new |-> issued + 1]
      BY <1>12, <2>1 DEF Rotate, TypeOK, TabsOK
    <2>4. sent \in live /\ live' = (live \ {sent}) \cup {issued + 1}
      BY <1>12, <2>1 DEF Rotate
    <2>5. live \subseteq 1 .. issued /\ oldRefresh \in Nat /\ cookie \in 0 .. issued
      BY <2>1 DEF TypeOK, TokensOK
    <2>6. UNCHANGED <<oldRefresh, cookie, broken, barred, account>>
      BY <1>12 DEF Rotate, world, failures
    <2>7. OneRefresh' /\ RefusalsTrue'
      <3>1. OneRefresh'
        BY <2>3 DEF OneRefresh
      <3>2. RefusalsTrue'
        BY <2>3 DEF RefusalsTrue
      <3> QED
        BY <3>1, <3>2
    <2>8. RefreshesGood'
      BY <2>1, <2>3, <2>4
    <2>9. CookieGood'
      <3>1. Usable(cookie)
        BY <1>12 DEF Rotate
      <3>2. CASE cookie = sent
        BY <2>3, <2>6, <3>2
      <3>3. CASE cookie # sent
        <4>1. cookie = 0 \/ login'[cookie] = login[cookie]
          <5>1. cookie = 0 \/ cookie \in 1 .. issued
            BY <2>1, <2>5
          <5> QED
            BY <2>2, <5>1
        <4>2. CASE cookie \in live
          BY <2>4, <2>6, <3>3, <4>2
        <4>3. CASE cookie <= oldRefresh
          BY <2>6, <4>3
        <4>4. CASE cookie # 0 /\ login[cookie] \in broken \cup barred
          BY <2>6, <4>1, <4>4
        <4>5. CASE cookie = 0
          BY <2>5, <2>6, <4>5
        <4> QED
          BY <3>1, <4>2, <4>3, <4>4, <4>5
      <3> QED
        BY <3>2, <3>3
    <2>10. ChainsSingle'
      <3> SUFFICES ASSUME NEW m \in live', NEW n \in live',
                          login'[m] = login'[n], login'[m] \notin broken
                   PROVE  m = n
        BY <2>6
      <3>1. \A k \in live : login'[k] = login[k]
        BY <2>2, <2>5
      <3> QED
        BY <2>2, <2>4, <3>1
    <2> QED
      BY <2>7, <2>8, <2>9, <2>10
  <1>13. ASSUME ExpireAccess PROVE Safe'
    BY <1>13 DEF ExpireAccess, server, tab, failures, TypeOK, TokensOK, TabsOK, RefreshState
  <1>14. ASSUME ExpireRefresh PROVE Safe'
    BY <1>14 DEF ExpireRefresh, server, tab, failures, TypeOK, TokensOK, TabsOK, RefreshState
  <1>15. ASSUME UNCHANGED vars PROVE Safe'
    BY <1>15 DEF vars, server, world, tab, failures
  <1>16. ASSUME NEW t \in Tab, NEW c \in Call, RetryFails(t, c) PROVE Safe'
    BY <1>16 DEF RetryFails, server, world, failures, TypeOK, TabsOK, RefreshState, TokensOK, None
  <1>17. ASSUME NEW t \in Tab, NEW c \in Call, Bar(t, c) PROVE Safe'
    <2>1. \A s \in Tab, b \in Call : (s # t \/ b # c) => refresh[s][b].pc = "none"
      BY <1>17 DEF Bar
    <2>2. /\ \A s \in Tab, b \in Call : (s # t \/ b # c) => refresh'[s][b] = refresh[s][b]
          /\ refresh'[t][c].pc = "refused" /\ refresh'[t][c].sent = refresh[t][c].sent
      BY <1>17 DEF Bar, TypeOK, TabsOK
    <2>3. CookieGood => Usable(cookie)
      BY <1>17, <2>1 DEF Bar
    <2>4. UNCHANGED <<login, oldRefresh, cookie, broken, account>>
      BY <1>17 DEF Bar, world, tab
    <2>5. /\ live' = live \ {refresh[t][c].sent}
          /\ barred' = barred \cup {login[refresh[t][c].sent]}
      BY <1>17 DEF Bar
    <2>6. \A n : Usable(n) => Usable(n)'
      BY <2>4, <2>5
    <2>7. OneRefresh' /\ RefreshesGood' /\ CookieGood'
      BY <2>1, <2>2, <2>3, <2>4, <2>6
    <2>8. RefusalsTrue' /\ ChainsSingle'
      BY <2>1, <2>2, <2>4, <2>5
    <2> QED
      BY <2>7, <2>8
  <1>18. ASSUME NEW t \in Tab, NEW c \in Call, RotateFails(t, c) PROVE Safe'
    <2>1. \A s \in Tab, b \in Call : (s # t \/ b # c) => refresh[s][b].pc = "none"
      BY <1>18 DEF RotateFails
    <2>2. /\ \A s \in Tab, b \in Call : (s # t \/ b # c) => refresh'[s][b] = refresh[s][b]
          /\ refresh'[t][c].pc = "refused" /\ refresh'[t][c].sent = refresh[t][c].sent
      BY <1>18 DEF RotateFails, TypeOK, TabsOK
    <2>3. CookieGood => Usable(cookie)
      BY <1>18, <2>1 DEF RotateFails
    <2>4. UNCHANGED <<login, live, oldRefresh, cookie, broken, barred, account>>
      BY <1>18 DEF RotateFails, server, world, failures
    <2>5. login[refresh[t][c].sent] \in barred
      BY <1>18 DEF RotateFails
    <2> QED
      BY <2>1, <2>2, <2>3, <2>4, <2>5
  <1>19. ASSUME AccountChanges PROVE Safe'
    BY <1>19 DEF AccountChanges, server, tab, failures
  <1>20. ASSUME AccountDeleted PROVE Safe'
    <2>1. /\ live' = {} /\ barred' = barred \cup {login[n] : n \in 1 .. issued} /\ account' = "gone"
          /\ UNCHANGED <<login, oldRefresh, cookie, refresh, broken>>
      BY <1>20 DEF AccountDeleted
    <2>2. issued \in Nat /\ oldRefresh \in Nat /\ cookie \in 0 .. issued
      BY DEF TypeOK, LoginsOK, TokensOK, issued
    <2>3. \A s \in Tab, b \in Call :
            refresh[s][b].sent \in 0 .. issued /\ refresh[s][b].new \in 0 .. issued
      BY <2>2 DEF TypeOK, RefreshesOK, TabsOK, RefreshState
    <2>4. \A n \in 1 .. issued : login[n] \in barred'
      BY <2>1
    <2>5. \A n \in 0 .. issued : Usable(n)'
      BY <2>1, <2>2, <2>4
    <2>6. barred \subseteq barred'
      BY <2>1
    <2>7. OneRefresh' /\ CookieGood' /\ ChainsSingle'
      BY <2>1, <2>2, <2>5
    <2>8. RefreshesGood'
      BY <2>1, <2>3, <2>4, <2>5 DEF TypeOK, RefreshesOK
    <2>9. RefusalsTrue'
      BY <2>1, <2>3, <2>4, <2>2
    <2> QED
      BY <2>7, <2>8, <2>9
  <1> QED
    BY <1>0, <1>1, <1>2, <1>3, <1>4, <1>5, <1>6, <1>7, <1>8, <1>9, <1>10, <1>11, <1>12, <1>13, <1>14, <1>15,
       <1>16, <1>17, <1>18, <1>19, <1>20 DEF Next, User, Progress

\* With one tab, however many calls it has under way, a refresh is refused only
\* when the session has expired, an answer was lost or the account was disabled
\* or deleted.
THEOREM RefusalsStayTrue == ASSUME OneTab PROVE Spec => []RefusalsTrue
  <1>1. IInv => RefusalsTrue
    BY DEF IInv
  <1> QED
    BY InitOneTab, StepOneTab, <1>1, PTL DEF Spec

\* With one tab, rotation leaves at most one usable refresh token of a login.
THEOREM ChainsStaySingle == ASSUME OneTab PROVE Spec => []ChainsSingle
  <1>1. IInv => ChainsSingle
    BY DEF IInv
  <1> QED
    BY InitOneTab, StepOneTab, <1>1, PTL DEF Spec
=============================================================================
