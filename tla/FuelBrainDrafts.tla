----------------------------- MODULE FuelBrainDrafts -----------------------------
(***************************************************************************)
(* The drafts of driver mails that FuelBrain prepares and only the manager *)
(* sends: POST /actions/:id/send and /actions/:id/cancel of                *)
(* fuelbrain.routes.ts.  A send claims the draft by flipping it from       *)
(* pending to sent, mails it, and flips it back if sendMail says it could  *)
(* not.  As in ReportMailer that false may hide a mail that went out.      *)
(*                                                                         *)
(* Each call is one press of a button on one card, by hand, repeated or    *)
(* replayed.  The checks of ownership, wording, age and account refuse     *)
(* before anything changes and are one step with the first read.           *)
(***************************************************************************)
EXTENDS CallsInFlight

CONSTANTS Drafts,     \* rows of fuelbrain_actions
          MailsADay   \* DRIVER_EMAILS_PER_DAY

ASSUME DraftConstants == MailsADay \in Nat /\ IsFiniteSet(Drafts)

VARIABLES
  status,      \* of each draft
  click,       \* requests: [Calls -> [pc, draft]]
  driverMails, \* mails accepted for delivery, per draft
  answersLost, \* history: of these, the mails whose answer was lost
  claimsLost   \* history: drafts whose claim outlived the request that made it

draftVars == <<status, click, driverMails, answersLost, claimsLost>>

NoDraft == "none"
IdleClick == [pc |-> "idle", draft |-> NoDraft]

DraftTypeOK ==
  /\ status \in [Drafts -> {"pending", "sent", "cancelled"}]
  /\ click \in [Calls -> [pc : {"idle", "count", "claim", "mail", "revert", "cancel"},
                          draft : Drafts \union {NoDraft}]]
  /\ \A c \in Calls : click[c].pc # "idle" => click[c].draft \in Drafts
  /\ driverMails \in [Drafts -> Nat] /\ answersLost \in [Drafts -> Nat]
  /\ claimsLost \in SUBSET Drafts

DraftInit ==
  /\ status = [d \in Drafts |-> "pending"]
  /\ click = [c \in Calls |-> IdleClick]
  /\ driverMails = [d \in Drafts |-> 0] /\ answersLost = [d \in Drafts |-> 0]
  /\ claimsLost = {}

ClickGoesTo(c, pc) == click' = [click EXCEPT ![c].pc = pc]
ClickEnds(c) == click' = [click EXCEPT ![c] = IdleClick]
MailsWait == UNCHANGED <<driverMails, answersLost, claimsLost>>

\* pendingAction in send: a draft that is not pending any more is refused.
PressSend(c) ==
  /\ click[c].pc = "idle"
  /\ \E d \in Drafts : status[d] = "pending" /\ click' = [click EXCEPT ![c] = [pc |-> "count", draft |-> d]]
  /\ MailsWait /\ UNCHANGED status

\* pendingAction in cancel reads the status for its message only.
PressCancel(c) ==
  /\ click[c].pc = "idle"
  /\ \E d \in Drafts : click' = [click EXCEPT ![c] = [pc |-> "cancel", draft |-> d]]
  /\ MailsWait /\ UNCHANGED status

SentToday == Cardinality({d \in Drafts : status[d] = "sent"})

CountSent(c) ==
  /\ click[c].pc = "count"
  /\ IF SentToday < MailsADay THEN ClickGoesTo(c, "claim") ELSE ClickEnds(c)
  /\ MailsWait /\ UNCHANGED status

\* Mutant: the claim goes by the status that was read.
Claim_Read(c) ==
  /\ click[c].pc = "claim"
  /\ status' = [status EXCEPT ![click[c].draft] = "sent"]
  /\ ClickGoesTo(c, "mail")
  /\ MailsWait

\* Only a pending draft is claimed, and by one request.
Claim(c) ==
  LET d == click[c].draft IN
  /\ click[c].pc = "claim"
  /\ IF status[d] = "pending"
     THEN status' = [status EXCEPT ![d] = "sent"] /\ ClickGoesTo(c, "mail")
     ELSE ClickEnds(c) /\ UNCHANGED status
  /\ MailsWait

\* The claim commits and its answer is lost: the draft is sent and nobody mails it.
ClaimUnanswered(c) ==
  LET d == click[c].draft IN
  /\ click[c].pc = "claim" /\ status[d] = "pending"
  /\ status' = [status EXCEPT ![d] = "sent"]
  /\ claimsLost' = claimsLost \union {d}
  /\ ClickEnds(c)
  /\ UNCHANGED <<driverMails, answersLost>>

MailDriver(c) ==
  /\ click[c].pc = "mail"
  /\ driverMails' = [driverMails EXCEPT ![click[c].draft] = @ + 1]
  /\ ClickEnds(c)
  /\ UNCHANGED <<status, answersLost, claimsLost>>

MailRefused(c) ==
  /\ click[c].pc = "mail"
  /\ ClickGoesTo(c, "revert")
  /\ MailsWait /\ UNCHANGED status

\* The mail is out but sendMail returns false.  Bound: once per draft.
MailAnswerLost(c) ==
  LET d == click[c].draft IN
  /\ click[c].pc = "mail" /\ answersLost[d] = 0
  /\ driverMails' = [driverMails EXCEPT ![d] = @ + 1]
  /\ answersLost' = [answersLost EXCEPT ![d] = @ + 1]
  /\ ClickGoesTo(c, "revert")
  /\ UNCHANGED <<status, claimsLost>>

\* The draft is pending again, whatever its status: only the request that claimed it gets here.
Revert(c) ==
  /\ click[c].pc = "revert"
  /\ status' = [status EXCEPT ![click[c].draft] = "pending"]
  /\ ClickEnds(c)
  /\ MailsWait

Cancel(c) ==
  LET d == click[c].draft IN
  /\ click[c].pc = "cancel"
  /\ status' = IF status[d] = "pending" THEN [status EXCEPT ![d] = "cancelled"] ELSE status
  /\ ClickEnds(c)
  /\ MailsWait

\* A query fails or the server restarts: nobody undoes a claim that was made.
ClickDies(c) ==
  /\ click[c].pc # "idle"
  /\ claimsLost' = IF click[c].pc \in {"mail", "revert"} THEN claimsLost \union {click[c].draft}
                   ELSE claimsLost
  /\ ClickEnds(c)
  /\ UNCHANGED <<status, driverMails, answersLost>>

DraftNext ==
  \E c \in Calls : \/ PressSend(c) \/ PressCancel(c) \/ CountSent(c) \/ Claim(c) \/ MailDriver(c)
                   \/ MailRefused(c) \/ MailAnswerLost(c) \/ Revert(c) \/ Cancel(c) \/ ClickDies(c)
                   \/ ClaimUnanswered(c)

DraftSpec == DraftInit /\ [][DraftNext]_draftVars

BeingSent(d) == \E c \in Calls : click[c].draft = d /\ click[c].pc \in {"mail", "revert"}

\* A draft is mailed once: whatever is pressed twice, replayed or cancelled at the same time, a
\* second mail goes out only after one whose answer was lost, and a cancelled draft is not mailed
\* at all but for that.  And what is shown as sent was mailed, unless the request that claimed it
\* is still at it or died.
DraftSentOnce ==
  \A d \in Drafts :
    /\ driverMails[d] <= 1 + answersLost[d]
    /\ status[d] = "cancelled" => driverMails[d] <= answersLost[d]
    /\ status[d] = "sent" /\ ~BeingSent(d) /\ d \notin claimsLost => driverMails[d] >= 1

=============================================================================
