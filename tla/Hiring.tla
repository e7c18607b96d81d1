------------------------------- MODULE Hiring --------------------------------
(***************************************************************************)
(* Hiring by offer: what the business's books say of its team and their    *)
(* agreements (books/hiring.ts, books/rail.ts), the screens that send,     *)
(* withdraw and revise offers or import agreements (chain/OfferPanel.tsx,  *)
(* WithdrawOffer.tsx, ReviseOffer.tsx, RailPanel.tsx) and the agreement    *)
(* program on the chain as they use it.                                    *)
(*                                                                         *)
(* A flow is one run of a screen's send() or withdraw(): it goes on after  *)
(* the screen is left and dies with the tab.  Flow n makes agreement n, if *)
(* it makes one.  A transaction Shield took may land after its flow has    *)
(* given up.  A step of a flow that ends in updateCompany is one step: the *)
(* update computes on the company as it is by then, or throws.  Terms,     *)
(* files, keys and notes travel beside this and are left out.              *)
(***************************************************************************)
EXTENDS Naturals, FiniteSets

CONSTANTS
  Person,
  Nobody,       \* no link, no list of records
  MaxFlows,     \* bound on the flows ever started
  MaxMembers    \* bound on the members ever added

ASSUME BoundsAssumption == MaxFlows \in Nat /\ MaxMembers \in Nat

VARIABLES
  team,       \* payroll.workers: the members by their id
  links,      \* rail.links, by member
  nextMember,
  flows,      \* what is running in the tab
  nextFlow,
  createTx, closeTx,       \* per flow: what became of its transactions
  agreement,  \* agreement_status and the parties, on the chain
  final,      \* agreements there is a FinalAgreement record of
  scan        \* what Import read from the wallet

books      == <<team, links, nextMember>>
chain      == <<createTx, closeTx, agreement, final>>
tab        == <<flows, nextFlow, scan>>
hiringVars == <<books, chain, tab>>

Flow      == 1..MaxFlows
MemberId  == 1..MaxMembers
Tx        == {"none", "out", "accepted", "rejected"}

Member == [person : Person, active : BOOLEAN, paid : BOOLEAN]

\* joins: joinsOnAccept.
Link == [agreement : Flow, status : {"offered", "linked"}, joins : BOOLEAN]

\* member: 0 for a hire.  joins: of the link as the flow found it.
Running == [id : Flow, kind : {"hire", "offer", "withdraw", "revise"}, person : Person,
            member : 0..MaxMembers, joins : BOOLEAN,
            step : {"withdrawing", "sending", "waiting"}]

Agreement == [person : Person \cup {Nobody},
              status : {"none", "pending", "active", "terminated"}]

\* step: the answer still to come, then "read", then "applied".
Scan == [rows : SUBSET Flow, finals : SUBSET Flow,
         step : {"rows", "finals", "read", "applied"}]

ASSUME NobodyAssumption == Nobody \notin Person \cup Link \cup Scan

HiringTypeOK ==
  /\ nextMember \in 1..(MaxMembers + 1) /\ nextFlow \in 1..(MaxFlows + 1)
  /\ DOMAIN team \subseteq 1..(nextMember - 1)
  /\ \A w \in DOMAIN team : team[w] \in Member
  /\ links \in [MemberId -> Link \cup {Nobody}]
  /\ flows \subseteq Running
  /\ \A f, g \in flows : f.id < nextFlow /\ (f.id = g.id => f = g)
  /\ createTx \in [Flow -> Tx]
  /\ closeTx \in [Flow -> [of : 0..MaxFlows, state : Tx]]
  /\ agreement \in [Flow -> Agreement]
  /\ final \subseteq Flow
  /\ scan \in Scan \cup {Nobody}

HiringInit ==
  /\ team = <<>> /\ nextMember = 1
  /\ links = [w \in MemberId |-> Nobody]
  /\ flows = {} /\ nextFlow = 1
  /\ createTx = [n \in Flow |-> "none"]
  /\ closeTx = [n \in Flow |-> [of |-> 0, state |-> "none"]]
  /\ agreement = [n \in Flow |-> [person |-> Nobody, status |-> "none"]]
  /\ final = {} /\ scan = Nobody

-----------------------------------------------------------------------------
(* The books (hiring.ts, rail.ts, and the team list of payroll.ts).        *)

IsMember(w)  == w \in DOMAIN team
HasLink(w)   == links[w] # Nobody
Offered(w)   == HasLink(w) /\ links[w].status = "offered"
IsOfferOut(w) == Offered(w) /\ links[w].joins

SetLink(w, a, status, joins) ==
  links' = [links EXCEPT ![w] = [agreement |-> a, status |-> status, joins |-> joins]]
RemoveLink(w) == links' = [links EXCEPT ![w] = Nobody]

RemoveMember(w) == team' = [v \in DOMAIN team \ {w} |-> team[v]]

\* addWorker: the new member is nextMember.
AddMember(person, active) ==
  /\ nextMember <= MaxMembers
  /\ team' = [v \in DOMAIN team \cup {nextMember} |->
       IF v = nextMember THEN [person |-> person, active |-> active, paid |-> FALSE]
       ELSE team[v]]
  /\ nextMember' = nextMember + 1

\* removeProblem finds none.
MayRemove(w) == IsMember(w) /\ ~team[w].paid /\ ~Offered(w)

\* removeFromTeam.
RemoveFromTeam(w) ==
  /\ RemoveMember(w)
  /\ RemoveLink(w)
  /\ UNCHANGED nextMember

\* dropOffer: who the offer was hiring leaves the books, anyone else is typed again.
DropOffer(w) ==
  /\ RemoveLink(w)
  /\ IF IsOfferOut(w) /\ IsMember(w) /\ ~team[w].paid
     THEN RemoveMember(w)
     ELSE UNCHANGED team
  /\ UNCHANGED nextMember

\* Mutant: the person is compared, not the agreement.
AcceptedFor(w, finals) ==
  \E a \in finals : agreement[a].person = agreement[links[w].agreement].person

\* An offer that is among the accepted ones.
Accepted(w, finals) == links[w].agreement \in finals

\* acceptOffers.
AcceptOffers(finals) ==
  LET accepted == {w \in MemberId : Offered(w) /\ Accepted(w, finals)}
  IN  /\ team' = [w \in DOMAIN team |->
           IF w \in accepted /\ links[w].joins THEN [team[w] EXCEPT !.active = TRUE]
           ELSE team[w]]
      /\ links' = [w \in MemberId |->
           IF w \in accepted THEN [links[w] EXCEPT !.status = "linked", !.joins = FALSE]
           ELSE links[w]]
      /\ UNCHANGED nextMember

-----------------------------------------------------------------------------
(* The team list (app/payroll/page.tsx).                                   *)

NotTheTeam == UNCHANGED <<chain, tab>>

\* "Add someone already working here".
AddTyped(person) == AddMember(person, TRUE) /\ UNCHANGED links /\ NotTheTeam

\* Deactivate and Reactivate, not shown while an offer is out.
ToggleActive(w) ==
  /\ ~IsOfferOut(w)
  /\ team' = [team EXCEPT ![w].active = ~@]
  /\ UNCHANGED <<links, nextMember>>
  /\ NotTheTeam

Remove(w) == MayRemove(w) /\ RemoveFromTeam(w) /\ NotTheTeam

\* A pay run pays active members.
Pay(w) ==
  /\ team[w].active /\ ~team[w].paid
  /\ team' = [team EXCEPT ![w].paid = TRUE]
  /\ UNCHANGED <<links, nextMember>>
  /\ NotTheTeam

-----------------------------------------------------------------------------
(* The flows.                                                              *)

\* A flow is under way; it may have been left on the screen it started on.
Start(kind, person, w, joins, step) ==
  /\ nextFlow <= MaxFlows
  /\ flows' = flows \cup {[id |-> nextFlow, kind |-> kind, person |-> person, member |-> w,
                           joins |-> joins, step |-> step]}
  /\ nextFlow' = nextFlow + 1
  /\ UNCHANGED <<books, scan, createTx, agreement, final>>

\* "Send a job offer", to someone found on the registry.
StartHire(person) ==
  /\ Start("hire", person, 0, TRUE, "sending")
  /\ UNCHANGED closeTx

\* "Send offer", shown for an active member who is typed.
StartOffer(w) ==
  /\ team[w].active /\ ~HasLink(w)
  /\ Start("offer", team[w].person, w, FALSE, "sending")
  /\ UNCHANGED closeTx

\* withdrawOffer up to the network's answer, for "Withdraw offer" and for a revised offer.
StartClosing(w, kind) ==
  /\ Offered(w)
  /\ Start(kind, team[w].person, w, links[w].joins, "withdrawing")
  /\ closeTx' = [closeTx EXCEPT ![nextFlow] = [of |-> links[w].agreement, state |-> "out"]]

StartWithdraw(w) == StartClosing(w, "withdraw")
StartRevise(w)   == StartClosing(w, "revise")

Ends(f)        == flows' = flows \ {f}
GoesOn(f, step) == flows' = (flows \ {f}) \cup {[f EXCEPT !.step = step]}

\* Mutant: the offer is dropped when the withdrawal was refused, too.
MaySeeAnyAnswer(f) == f.step = "withdrawing" /\ closeTx[f.id].state \in {"accepted", "rejected"}

\* awaitAccepted returns.
MaySeeWithdrawn(f) == f.step = "withdrawing" /\ closeTx[f.id].state = "accepted"

\* The withdrawal was accepted: the offer is dropped, or only its link until the revised one is out.
SeeWithdrawn(f) ==
  /\ MaySeeWithdrawn(f)
  /\ \/ f.kind = "withdraw" /\ DropOffer(f.member) /\ Ends(f)
     \/ f.kind = "revise" /\ RemoveLink(f.member) /\ GoesOn(f, "sending")
                          /\ UNCHANGED <<team, nextMember>>
  /\ UNCHANGED <<chain, nextFlow, scan>>

\* Shield did not take it, the network refused it, or no answer came within walletCapMs.
FailWithdrawal(f) ==
  /\ f.step = "withdrawing"
  /\ Ends(f)
  /\ UNCHANGED <<books, chain, nextFlow, scan>>

\* sendOffer has sent the terms, and Shield took the offer.
Submit(f) ==
  /\ f.step = "sending"
  /\ createTx' = [createTx EXCEPT ![f.id] = "out"]
  /\ agreement' = [agreement EXCEPT ![f.id].person = f.person]
  /\ GoesOn(f, "waiting")
  /\ UNCHANGED <<books, closeTx, final, nextFlow, scan>>

\* The update fails and changes nothing when the member has left the books.
RecordOffer(f) ==
  IF IsMember(f.member)
  THEN SetLink(f.member, f.id, "offered", f.joins) /\ UNCHANGED <<team, nextMember>>
  ELSE UNCHANGED books

\* hireByOffer.
HireByOffer(f) ==
  /\ AddMember(f.person, FALSE)
  /\ SetLink(nextMember, f.id, "offered", TRUE)

\* The offer was accepted by the network, and goes into the books.
SeeSent(f) ==
  /\ f.step = "waiting" /\ createTx[f.id] = "accepted"
  /\ IF f.kind = "hire" THEN HireByOffer(f) ELSE RecordOffer(f)
  /\ Ends(f)
  /\ UNCHANGED <<chain, nextFlow, scan>>

\* The offer did not go out, or its answer did not come in time.  Whom a revised offer was
\* hiring leaves the books.
FailSend(f) ==
  /\ f.step \in {"sending", "waiting"}
  /\ IF f.kind = "revise" /\ f.joins /\ MayRemove(f.member)
     THEN RemoveFromTeam(f.member)
     ELSE UNCHANGED books
  /\ Ends(f)
  /\ UNCHANGED <<chain, nextFlow, scan>>

\* Nothing in the tab survives it.
CloseTab ==
  /\ flows # {} \/ scan # Nobody
  /\ flows' = {} /\ scan' = Nobody
  /\ UNCHANGED <<books, chain, nextFlow>>

-----------------------------------------------------------------------------
(* "Import team" (ImportFlow).                                             *)

Reading == scan # Nobody /\ scan.step # "applied"

\* scanAgreementRecords takes pending and final records alike; a failure reads as none.
MayRead(rows) ==
  rows \in {{}, {a \in Flow : agreement[a].status = "pending"} \cup final}

\* Two requests go out, and the wallet answers one ...
ReadRecords ==
  /\ ~Reading
  /\ \/ \E rows \in SUBSET Flow :
          MayRead(rows) /\ scan' = [rows |-> rows, finals |-> {}, step |-> "finals"]
     \/ scan' = [rows |-> {}, finals |-> final, step |-> "rows"]
  /\ UNCHANGED <<books, chain, flows, nextFlow>>

\* ... and later the other.
ReadRest ==
  /\ scan # Nobody
  /\ \/ /\ scan.step = "rows"
        /\ \E rows \in SUBSET Flow :
             MayRead(rows) /\ scan' = [scan EXCEPT !.rows = rows, !.step = "read"]
     \/ scan.step = "finals" /\ scan' = [scan EXCEPT !.finals = final, !.step = "read"]
  /\ UNCHANGED <<books, chain, flows, nextFlow>>

ApplyFinals ==
  /\ scan # Nobody /\ scan.step = "read"
  /\ AcceptOffers(scan.finals)
  /\ scan' = [scan EXCEPT !.finals = {}, !.step = "applied"]
  /\ UNCHANGED <<chain, flows, nextFlow>>

\* The final records could not be read, or the update could not be saved.
FailImport ==
  /\ Reading
  /\ scan' = Nobody
  /\ UNCHANGED <<books, chain, flows, nextFlow>>

\* No member has this agreement, or another of this person.
Unmatched(a) ==
  \A w \in MemberId : HasLink(w) => agreement[links[w].agreement].person # agreement[a].person

Importable(a) ==
  scan # Nobody /\ scan.step = "applied" /\ a \in scan.rows /\ Unmatched(a)

\* "Link to…".
MatchRow(a, w) ==
  /\ Importable(a)
  /\ team[w].active /\ ~HasLink(w)
  /\ SetLink(w, a, "linked", FALSE)
  /\ UNCHANGED <<team, nextMember, chain, tab>>

\* "Add to team".
AddFromRow(a) ==
  /\ Importable(a)
  /\ AddMember(agreement[a].person, TRUE)
  /\ SetLink(nextMember, a, "linked", FALSE)
  /\ UNCHANGED <<chain, tab>>

-----------------------------------------------------------------------------
(* employer_agreement on the chain.                                        *)

\* create_offer_open makes the agreement, or is refused.
LandCreate(n) ==
  /\ createTx[n] = "out"
  /\ \/ /\ createTx' = [createTx EXCEPT ![n] = "accepted"]
        /\ agreement' = [agreement EXCEPT ![n].status = "pending"]
     \/ createTx' = [createTx EXCEPT ![n] = "rejected"] /\ UNCHANGED agreement
  /\ UNCHANGED <<books, tab, closeTx, final>>

\* terminate_employer_open ends a pending or an active agreement, or is refused.
LandClose(n) ==
  LET a == closeTx[n].of
  IN  /\ closeTx[n].state = "out"
      /\ \/ /\ agreement[a].status \in {"pending", "active"}
            /\ closeTx' = [closeTx EXCEPT ![n].state = "accepted"]
            /\ agreement' = [agreement EXCEPT ![a].status = "terminated"]
         \/ closeTx' = [closeTx EXCEPT ![n].state = "rejected"] /\ UNCHANGED agreement
      /\ UNCHANGED <<books, tab, createTx, final>>

\* accept_job_offer wants it pending, and makes the FinalAgreement records.
AcceptOffer(a) ==
  /\ agreement[a].status = "pending"
  /\ agreement' = [agreement EXCEPT ![a].status = "active"]
  /\ final' = final \cup {a}
  /\ UNCHANGED <<books, tab, createTx, closeTx>>

-----------------------------------------------------------------------------
TeamNext ==
  \/ \E person \in Person : AddTyped(person)
  \/ \E w \in DOMAIN team : ToggleActive(w) \/ Remove(w) \/ Pay(w)

FlowNext ==
  \/ \E person \in Person : StartHire(person)
  \/ \E w \in DOMAIN team : StartOffer(w) \/ StartWithdraw(w) \/ StartRevise(w)
  \/ \E f \in flows :
       SeeWithdrawn(f) \/ FailWithdrawal(f) \/ Submit(f) \/ SeeSent(f) \/ FailSend(f)
  \/ CloseTab

ImportNext ==
  \/ ReadRecords \/ ReadRest \/ ApplyFinals \/ FailImport
  \/ \E a \in Flow : AddFromRow(a) \/ \E w \in DOMAIN team : MatchRow(a, w)

ChainNext == \E n \in Flow : LandCreate(n) \/ LandClose(n) \/ AcceptOffer(n)

HiringNext == TeamNext \/ FlowNext \/ ImportNext \/ ChainNext

HiringSpec == HiringInit /\ [][HiringNext]_hiringVars

-----------------------------------------------------------------------------
(* Nobody an offer was hiring is put on the team, where pay runs find them, *)
(* before there is a FinalAgreement of that very offer, not of an earlier   *)
(* or a later one to the same person (acceptOffers of hiring.ts, which      *)
(* Import calls with the ids it read a while ago).                          *)
JoinsOnlyAccepted ==
  [][\A w \in DOMAIN team :
       IsOfferOut(w) /\ ~team[w].active /\ w \in DOMAIN team' /\ team'[w].active
       => links[w].agreement \in final]_hiringVars

(* A waiting offer leaves the books only once the network has ended its     *)
(* agreement: the person can no longer accept what the books have forgotten *)
(* (WithdrawOffer, ReviseOffer).  There are two exceptions, both after a    *)
(* second offer to the member was started from a screen opened again while  *)
(* the first was on its way: the second takes the first one's place         *)
(* (addLink), and the withdrawal of the first, answered after that, drops   *)
(* the second (dropOffer goes by the member, not by the agreement).         *)
DropsOnlyEnded ==
  [][\A w \in MemberId :
       LET old      == links[w].agreement
           replaced == links'[w] # Nobody /\ \E f \in flows :
                         f.id = links'[w].agreement /\ f.step = "waiting"
           mistaken == \E f \in flows :
                         /\ f.member = w /\ MaySeeWithdrawn(f)
                         /\ closeTx[f.id].of # old
       IN  Offered(w) /\ (links'[w] = Nobody \/ links'[w].agreement # old)
           => agreement[old].status = "terminated" \/ replaced \/ mistaken]_hiringVars

(* Whoever has an agreement in the books is in the books: an offer whose    *)
(* member was removed while it was on its way, or while the one it revises  *)
(* was being withdrawn, leaves no link behind (updateCompany of OfferPanel  *)
(* and ReviseOffer, whose updateWorker throws, so that addLink is undone).  *)
LinksHaveWorkers == \A w \in MemberId : HasLink(w) => IsMember(w)

(* A member is linked when the agreement was approved by both sides          *)
(* (LinkStatus of rail.ts).                                                 *)
LinkedIsAccepted ==
  \A w \in MemberId : HasLink(w) /\ links[w].status = "linked" => links[w].agreement \in final
=============================================================================
