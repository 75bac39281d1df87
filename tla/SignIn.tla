------------------------------- MODULE SignIn -------------------------------
(***************************************************************************)
(* The pages with which a new user signs up (SignupWizard.tsx), enrols a   *)
(* second factor (MfaEnroll.tsx) and passes it (MfaChallenge.tsx), over    *)
(* the client of lib/api.ts.  Of the handlers of the server only enroll    *)
(* takes two steps here: the interleavings of the others are in Tenancy    *)
(* and Mfa.  Opening a page drops what the one before it held and expected. *)
(***************************************************************************)
EXTENDS Integers, FiniteSets

CONSTANTS WebCalls,    \* calls that may be in flight together (bound)
          MaxFactors   \* enrolments of a behaviour (bound)

ASSUME SignInAssumption == MaxFactors \in Nat

VARIABLES
  site,    \* the server: the account, the active factors, the factors so far
  tab,     \* the page: its step, the secret it shows, its form: busy, showing a refusal
  web,     \* web[w], a call
  kept,    \* the secrets that the user has seen and kept
  excuse,  \* history: why the page and the server may disagree
  accepted \* history: the server accepted the code that the page last sent

signInVars == <<site, tab, web, kept, excuse, accepted>>

Rest == [pc |-> "free", op |-> "signup", code |-> 0, mine |-> TRUE]
Awaited == {w \in WebCalls : web[w].pc # "free" /\ web[w].mine}
Fresh(step) == [step |-> step, secret |-> 0, busy |-> FALSE, refusal |-> FALSE]

SignInInit ==
  /\ site = [account |-> FALSE, active |-> {}, drawn |-> 0]
  /\ tab = Fresh("workspace")
  /\ web = [w \in WebCalls |-> Rest]
  /\ kept = {}
  /\ excuse = {}
  /\ accepted = FALSE

-----------------------------------------------------------------------------
(* What a page makes of an answer *)

\* The fields of the answer to an accepted code, and the one that both pages ask for.
Granted == {"verified", "method", "recoveryCodesRemaining"}
Wanted == {"success"}

\* Mutant of GoesOn: a refused form goes on like an accepted one.
OnAnyAnswer(call) == TRUE

\* A page goes on with an answer that is ok, after a code only with success in it.
GoesOn(call) == call.pc = "ok" /\ (call.op = "verify" => Wanted \subseteq Granted)

\* If it does not go on, it shows an error and stays where it is.
AfterAnswer(call) ==
  LET idle == [tab EXCEPT !.busy = FALSE] IN
  IF GoesOn(call)
  THEN CASE call.op = "signup" -> [idle EXCEPT !.step = "invite"]
         [] call.op = "invite" -> [idle EXCEPT !.step = "done"]
         [] call.op = "enroll" -> [tab EXCEPT !.step = "qr", !.secret = call.code]
         [] call.op = "verify" -> [idle EXCEPT !.step = "through"]
  ELSE CASE call.op = "verify" -> [idle EXCEPT !.refusal = TRUE]
         [] call.op = "enroll" -> tab
         [] OTHER -> idle

-----------------------------------------------------------------------------
(* The client: fetch, and an error for an answer that is not ok.           *)

Request(w, op, code) ==
  /\ web[w].pc = "free"
  /\ web' = [web EXCEPT ![w] = [pc |-> "sent", op |-> op, code |-> code, mine |-> TRUE]]

\* The request does not arrive, its handler fails, or its answer is lost.
LoseCall(w) ==
  /\ web[w].pc \in {"sent", "checked", "ok"}
  /\ web' = [web EXCEPT ![w].pc = "refused"]
  /\ excuse' = excuse \union (IF web[w].pc = "ok" THEN {web[w].op} ELSE {})
  /\ UNCHANGED <<site, tab, kept, accepted>>

\* The connection breaks while the server is at it: fetch rejects at once, and the
\* server goes on.
CutOff(w) ==
  /\ web[w].pc \in {"sent", "checked"} /\ web[w].mine
  /\ tab' = AfterAnswer([web[w] EXCEPT !.pc = "refused"])
  /\ web' = [web EXCEPT ![w].mine = FALSE]
  /\ excuse' = excuse \union {web[w].op}
  /\ UNCHANGED <<site, kept, accepted>>

ReceiveAnswer(w) ==
  /\ web[w].pc \in {"ok", "refused"}
  /\ tab' = IF web[w].mine THEN AfterAnswer(web[w]) ELSE tab
  /\ kept' = kept \union ({tab'.secret} \ {0})
  /\ web' = [web EXCEPT ![w] = Rest]
  /\ UNCHANGED <<site, excuse, accepted>>

\* What the page forgets: the secret, and the calls whose answers it awaits.
Forgotten ==
  {web[w].op : w \in Awaited} \union (IF tab.secret # 0 THEN {"enroll"} ELSE {})

OpenPage(step) ==
  /\ tab' = Fresh(step)
  /\ web' = [w \in WebCalls |-> [web[w] EXCEPT !.mine = web[w].pc = "free"]]
  /\ excuse' = excuse \union Forgotten
               \union (IF site.account THEN {"signup"} ELSE {})
  /\ accepted' = FALSE
  /\ UNCHANGED <<site, kept>>

-----------------------------------------------------------------------------
(* The wizard *)

\* The button of a form is disabled while its call is under way.
SubmitWorkspace(w) ==
  /\ tab.step = "workspace" /\ ~tab.busy
  /\ Request(w, "signup", 0)
  /\ tab' = [tab EXCEPT !.busy = TRUE]
  /\ UNCHANGED <<site, kept, excuse, accepted>>

SendInvites(w) ==
  /\ tab.step = "invite" /\ ~tab.busy
  /\ Request(w, "invite", 0)
  /\ tab' = [tab EXCEPT !.busy = TRUE]
  /\ UNCHANGED <<site, kept, excuse, accepted>>

\* Skipping, or sending no address; the button for it is never disabled.
SkipInvites ==
  /\ tab.step = "invite"
  /\ tab' = [tab EXCEPT !.step = "done", !.busy = FALSE]
  /\ UNCHANGED <<site, web, kept, excuse, accepted>>

-----------------------------------------------------------------------------
(* Enrolment and challenge *)

\* The button is never disabled.
StartSetup(w) ==
  /\ tab.step = "intro"
  /\ Request(w, "enroll", 0)
  /\ UNCHANGED <<site, tab, kept, excuse, accepted>>

\* On to the code, and back. Nothing but another enrolment leads on from the
\* introduction, although the secret is still there.
Turn ==
  /\ \E turn \in {<<"qr", "verify">>, <<"verify", "qr">>, <<"qr", "intro">>} :
       /\ tab.step = turn[1]
       /\ tab' = [tab EXCEPT !.step = turn[2]]
       /\ excuse' = excuse \union (IF turn[2] = "intro" THEN {"enroll"} ELSE {})
  /\ UNCHANGED <<site, web, kept, accepted>>

SendCode(w, code) ==
  /\ ~tab.busy
  /\ Request(w, "verify", code)
  /\ tab' = [tab EXCEPT !.busy = TRUE, !.refusal = FALSE]
  /\ accepted' = FALSE
  /\ UNCHANGED <<site, kept, excuse>>

\* The code is one of the secret that the page shows, or a wrong one.
SubmitEnrolCode(w) == tab.step = "verify" /\ \E code \in {0, tab.secret} : SendCode(w, code)

\* Either form of the challenge.
SubmitChallenge(w) == tab.step = "challenge" /\ \E code \in {0} \union kept : SendCode(w, code)

-----------------------------------------------------------------------------
(* The server *)

Respond(w, fine) == web' = [web EXCEPT ![w].pc = IF fine THEN "ok" ELSE "refused"]

ServeSignup(w) ==
  /\ web[w].pc = "sent" /\ web[w].op = "signup"
  /\ Respond(w, ~site.account)
  /\ site' = [site EXCEPT !.account = TRUE]
  /\ UNCHANGED <<tab, kept, excuse, accepted>>

\* Is a factor active? The recovery codes are hashed before the new one is written.
CheckFactor(w) ==
  /\ web[w].pc = "sent" /\ web[w].op = "enroll"
  /\ web' = [web EXCEPT ![w].pc = IF site.active = {} THEN "checked" ELSE "refused"]
  /\ UNCHANGED <<site, tab, kept, excuse, accepted>>

\* A new secret, whatever another call has written meanwhile.
CreateFactor(w) ==
  /\ web[w].pc = "checked" /\ site.drawn < MaxFactors
  /\ LET new == site.drawn + 1
     IN /\ web' = [web EXCEPT ![w].pc = "ok", ![w].code = new]
        /\ site' = [site EXCEPT !.active = @ \union {new}, !.drawn = new]
  /\ excuse' = excuse \union (IF site.active = {} THEN {} ELSE {"overlapped"})
  /\ UNCHANGED <<tab, kept, accepted>>

\* The code must be of the active factor that is found, and may come too soon or
\* too often even then.
ServeVerify(w) ==
  /\ web[w].pc = "sent" /\ web[w].op = "verify"
  /\ \E fine \in {FALSE, web[w].code \in site.active} :
       /\ Respond(w, fine)
       /\ accepted' = (accepted \/ (fine /\ web[w].mine))
  /\ UNCHANGED <<site, tab, kept, excuse>>

\* POST /invites has no route.
RefuseInvites(w) ==
  /\ web[w].pc = "sent" /\ web[w].op = "invite"
  /\ Respond(w, FALSE)
  /\ UNCHANGED <<site, tab, kept, excuse, accepted>>

Serve(w) == ServeSignup(w) \/ CheckFactor(w) \/ CreateFactor(w) \/ ServeVerify(w) \/ RefuseInvites(w)

\* The user disables a factor from elsewhere.
DisableElsewhere ==
  /\ \E f \in site.active : site' = [site EXCEPT !.active = @ \ {f}]
  /\ excuse' = excuse \union {"disabled"}
  /\ UNCHANGED <<tab, web, kept, accepted>>

SignInNext ==
  \/ \E step \in {"workspace", "intro", "challenge"} : OpenPage(step)
  \/ SkipInvites \/ Turn \/ DisableElsewhere
  \/ \E w \in WebCalls :
       \/ SubmitWorkspace(w) \/ SendInvites(w) \/ StartSetup(w) \/ SubmitEnrolCode(w)
       \/ SubmitChallenge(w) \/ Serve(w) \/ LoseCall(w) \/ CutOff(w) \/ ReceiveAnswer(w)

SignInSpec == SignInInit /\ [][SignInNext]_signInVars

-----------------------------------------------------------------------------
(* Properties *)

SignInTypeOK ==
  /\ site \in [account : BOOLEAN, active : SUBSET (1..MaxFactors), drawn : 0..MaxFactors]
  /\ tab \in [step : {"workspace", "invite", "done", "intro", "qr", "verify", "challenge", "through"},
              secret : 0..MaxFactors, busy : BOOLEAN, refusal : BOOLEAN]
  /\ web \in [WebCalls -> [pc : {"free", "sent", "checked", "ok", "refused"},
                           op : {"signup", "invite", "enroll", "verify"},
                           code : 0..MaxFactors, mine : BOOLEAN]]
  /\ kept \subseteq 1..MaxFactors
  /\ accepted \in BOOLEAN

\* When the page awaits nothing, it and the server agree: the wizard is past its
\* first step exactly if the account exists, and the enrolment shows a secret
\* exactly if a factor is active, the only one. Unless an answer was lost, the
\* user opened another page or turned back to the introduction, disabled a factor
\* elsewhere, or pressed the button again before the first enrolment was written:
\* after these there may be an account or a factor that no page shows. But the
\* secret on the page is one of an active factor even then, whichever of several
\* answers came last and whatever is still under way, unless one was disabled.
SignInAgrees ==
  /\ Awaited = {} /\ "signup" \notin excuse =>
       /\ tab.step = "workspace" => ~site.account
       /\ tab.step \in {"invite", "done"} => site.account
  /\ Awaited = {} /\ {"enroll", "overlapped", "disabled"} \intersect excuse = {} =>
       /\ tab.step = "intro" => site.active = {}
       /\ tab.step \in {"qr", "verify"} => site.active = {tab.secret}
  /\ tab.step \in {"qr", "verify"} /\ "disabled" \notin excuse => tab.secret \in site.active

\* What the tests of both pages say: a code that the server accepted, and whose
\* answer arrived, is not shown as refused.
AcceptedGoesOn == accepted /\ "verify" \notin excuse => ~tab.refusal
=============================================================================
