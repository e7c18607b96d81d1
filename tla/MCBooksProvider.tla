-------------------------- MODULE MCBooksProvider ---------------------------
(* BooksProvider on small instances, and what leaves calm use.              *)
EXTENDS BooksProvider

CONSTANTS a1, a2, e1, e2, t1, t2

\* Calm use of each tab, but a page may be loaded anew on books another tab has open.
TwoTabsSpec ==
  Init /\ [][CalmNext \/ \E t \in Tab, expired \in BOOLEAN : Reload(t, expired)]_vars

\* A screen of account a that asked before asks again, whatever books are open by now:
\* a pay queue writes its outcomes long after its panel is gone.
AskAgain(t, a, e) ==
  /\ NoJobReady(t)
  /\ madeIn[e] = Nothing
  /\ \E d \in Edit : madeIn[d] = a
  /\ madeIn' = [madeIn EXCEPT ![e] = a]
  /\ waiting' = [waiting EXCEPT ![t] = Append(@, e)]
  /\ UNCHANGED <<deviceVars, openVars, frontVars, running, told>>

\* A page that is never loaded anew, so that no screen that asked is gone.
OnePageNext ==
  \E t \in Tab :
    \/ \E a \in Account : /\ running[t] = Nothing
                          /\ CreateChecks(t, a) \/ CreateSaves(t, a)
    \/ \E e \in Edit : Ask(t, e) \/ \E a \in Account : AskAgain(t, a, e)
    \/ Lock(t) \/ Begin(t) \/ Refuse(t) \/ Save(t) \/ SaveFails(t) \/ Finish(t)

OnePageSpec == Init /\ [][OnePageNext]_vars
=============================================================================
