------------------------------- MODULE Topbar -------------------------------
(***************************************************************************)
(* The bar above the pages: the choice of the tenant (TenantSwitcher.tsx)  *)
(* and the user's menu with its sign-out (Topbar.tsx), over POST           *)
(* /tenants/:id/switch and POST /auth/logout.  Both end in a new document, *)
(* and until that is there the old one goes on: answers arrive and clicks  *)
(* are heard.  No page of the repository shows the bar yet; its host gives *)
(* it the tenants and the current one.                                     *)
(***************************************************************************)
EXTENDS Integers, FiniteSets

CONSTANTS Orgs, NoOrg,   \* the tenants of the user, and none
          FirstOrg,      \* the current one when the bar is first shown
          Logout,        \* what a sign-out asks for
          BarCalls       \* calls at one time (bound)

ASSUME TopbarAssumption == Logout \notin Orgs \union {NoOrg} /\ NoOrg \notin Orgs /\ FirstOrg \in Orgs

VARIABLES
  bar,        \* the bar of the document shown
  ask,        \* ask[c], the tenant a call asks for, Logout or NoOrg
  overtaken,  \* history: another tenant was chosen before the answer to the first
  mixed       \* history: a sign-out and a switch were under way at once

barVars == <<bar, ask, overtaken, mixed>>

\* leads: where the document is going; "" while it stays.
NewBar(t) == [leads |-> "", current |-> t, open |-> FALSE, pendingId |-> NoOrg, error |-> FALSE,
             menuOpen |-> FALSE, signingOut |-> FALSE, signedOut |-> FALSE]

Switches == {c \in BarCalls : ask[c] \in Orgs}
Idling == \A c \in BarCalls : ask[c] = NoOrg

BarInit ==
  /\ bar = NewBar(FirstOrg)
  /\ ask = [c \in BarCalls |-> NoOrg]
  /\ overtaken = FALSE /\ mixed = FALSE

-----------------------------------------------------------------------------
(* The switcher *)

\* Its button, a click outside and Escape.
ToggleList ==
  /\ bar' = [bar EXCEPT !.open = ~@]
  /\ UNCHANGED <<ask, overtaken, mixed>>

\* Mutant of Enabled: no option waits.
AlwaysEnabled(t) == TRUE

\* Only the option chosen last waits for its answer.
Enabled(t) == bar.pendingId # t

HandleSelect(c, t) ==
  /\ bar.open /\ Enabled(t)
  /\ \/ /\ t = bar.current
        /\ bar' = [bar EXCEPT !.open = FALSE]
        /\ UNCHANGED <<ask, overtaken, mixed>>
     \/ /\ t # bar.current /\ ask[c] = NoOrg
        /\ bar' = [bar EXCEPT !.pendingId = t, !.error = FALSE]
        /\ ask' = [ask EXCEPT ![c] = t]
        /\ overtaken' = (overtaken \/ \E d \in Switches : ask[d] # t)
        /\ mixed' = (mixed \/ bar.signingOut)

\* The switch is made: the document is loaded anew.
Switched(c) ==
  /\ c \in Switches
  /\ bar' = [bar EXCEPT !.leads = "reload"]
  /\ ask' = [ask EXCEPT ![c] = NoOrg]
  /\ UNCHANGED <<overtaken, mixed>>

\* Mutant of Refused: the option keeps waiting.
StillPending == [bar EXCEPT !.error = TRUE]

\* The error is shown, and no option waits, whichever was refused.
Refused == [bar EXCEPT !.error = TRUE, !.pendingId = NoOrg]

RefuseSwitch(c) ==
  /\ c \in Switches
  /\ bar' = Refused
  /\ ask' = [ask EXCEPT ![c] = NoOrg]
  /\ UNCHANGED <<overtaken, mixed>>

-----------------------------------------------------------------------------
(* The menu *)

ToggleMenu ==
  /\ bar' = [bar EXCEPT !.menuOpen = ~@]
  /\ UNCHANGED <<ask, overtaken, mixed>>

HandleSignOut(c) ==
  /\ bar.menuOpen /\ ~bar.signingOut
  /\ ask[c] = NoOrg
  /\ bar' = [bar EXCEPT !.signingOut = TRUE]
  /\ ask' = [ask EXCEPT ![c] = Logout]
  /\ mixed' = (mixed \/ Switches # {} \/ bar.leads = "reload")
  /\ UNCHANGED overtaken

\* Answered or refused, the document goes to the login page.
AfterSignOut(c) ==
  /\ ask[c] = Logout
  /\ bar' = [bar EXCEPT !.leads = "login", !.signedOut = TRUE]
  /\ ask' = [ask EXCEPT ![c] = NoOrg]
  /\ UNCHANGED <<overtaken, mixed>>

-----------------------------------------------------------------------------

\* The new document is there and what the old one asked for is forgotten; from
\* the login page the user comes back to a page with the bar.
NewDocument ==
  /\ bar.leads # ""
  /\ \E t \in Orgs : bar' = NewBar(t)
  /\ ask' = [c \in BarCalls |-> NoOrg]
  /\ overtaken' = FALSE /\ mixed' = FALSE

BarNext ==
  \/ ToggleList \/ ToggleMenu \/ NewDocument
  \/ \E c \in BarCalls :
       \/ \E t \in Orgs : HandleSelect(c, t)
       \/ Switched(c) \/ RefuseSwitch(c) \/ HandleSignOut(c) \/ AfterSignOut(c)

BarSpec == BarInit /\ [][BarNext]_barVars

-----------------------------------------------------------------------------
(* Properties *)

BarTypeOK ==
  /\ bar \in [leads : {"", "reload", "login"}, current : Orgs, open : BOOLEAN, pendingId : Orgs \union {NoOrg},
              error : BOOLEAN, menuOpen : BOOLEAN, signingOut : BOOLEAN, signedOut : BOOLEAN]
  /\ ask \in [BarCalls -> Orgs \union {NoOrg, Logout}]
  /\ overtaken \in BOOLEAN /\ mixed \in BOOLEAN

\* The bar agrees with what it has asked for. It never shows an error while an
\* option waits, and keeps nothing disabled once all is answered and the
\* document stays. Unless the user chose another tenant before the answer, a
\* switch under way is one and its option waits. Unless a switch came in
\* between, a sign-out leads to the login page.
BarAgrees ==
  /\ bar.error => bar.pendingId = NoOrg
  /\ Idling /\ bar.leads = "" => bar.pendingId = NoOrg /\ ~bar.signingOut
  /\ ~overtaken => /\ \A c \in Switches : bar.pendingId = ask[c]
                   /\ Cardinality(Switches) <= 1
  /\ bar.signedOut /\ ~mixed => bar.leads = "login"
=============================================================================
