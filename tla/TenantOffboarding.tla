-------------------------- MODULE TenantOffboarding --------------------------
(***************************************************************************)
(* What a cancellation does to a tenant's listings: the hourly             *)
(* tenant-offboarding pass delists what is published, and only then        *)
(* revokes the tenant's connections and marks it offboarded. Meanwhile     *)
(* billing events go on, approved publications are still in a queue, and   *)
(* the seller may disconnect a channel or sign in to it again.             *)
(*                                                                         *)
(* A listing is one product's on one channel. Each step of the pass and of *)
(* a publication is one statement or one marketplace call.                 *)
(***************************************************************************)
EXTENDS Naturals

CONSTANTS
  Channels,       \* the channels the product is listed on
  MaxMarks,       \* changes of the billing status
  MaxApprovals,   \* publications the seller approves
  MaxPassFaults,  \* calls of the pass that fail, and passes that die
  SellerActs      \* subset of {"connect", "disconnect"}

ASSUME OffboardingAssumption ==
  /\ MaxMarks \in Nat
  /\ MaxApprovals \in Nat
  /\ MaxPassFaults \in Nat
  /\ "none" \notin Channels

VARIABLES
  status,      \* tenants.status
  offboarded,  \* tenants.marketplaceOffboardedAt is set
  listing,     \* channel_listings.status, and whether a buyer can see it
  connected,   \* oauth_connections has a row for the channel
  publishing,  \* the publish job of each listing and its worker
  pass,        \* the offboarding pass: step, listings to do, all delisted so far
  marks, approvals, passFaults,
  gap          \* history: live listings the running or last pass could not see

offboardingVars ==
  <<status, offboarded, listing, connected, publishing, pass, marks, approvals,
    passFaults, gap>>

PaidStatus    == {"active", "past_due", "canceled_grace"}
ListingStatus == {"draft", "published", "error", "delisted"}
PassSteps     == {"idle", "chosen", "next", "delisted", "revoke", "mark"}
None          == "none"

OffboardingTypeOK ==
  /\ status \in PaidStatus
  /\ offboarded \in BOOLEAN
  /\ listing \in [Channels -> [status : ListingStatus, live : BOOLEAN]]
  /\ connected \in SUBSET Channels
  /\ publishing \in [Channels -> {"none", "queued", "running", "called"}]
  /\ pass \in [pc : PassSteps, todo : SUBSET Channels, at : Channels \cup {None},
               allDelisted : BOOLEAN]
  /\ marks \in 0..MaxMarks
  /\ approvals \in 0..MaxApprovals
  /\ passFaults \in 0..MaxPassFaults
  /\ gap \in SUBSET Channels

NoPass == [pc |-> "idle", todo |-> {}, at |-> None, allDelisted |-> TRUE]

OffboardingInit ==
  /\ status = "active"
  /\ offboarded = FALSE
  /\ listing = [c \in Channels |-> [status |-> "published", live |-> TRUE]]
  /\ connected = Channels
  /\ publishing = [c \in Channels |-> "none"]
  /\ pass = NoPass
  /\ marks = 0
  /\ approvals = 0
  /\ passFaults = 0
  /\ gap = {}

------------------------------------------------------------------------------
\* markTenantActive, markTenantPastDue, markTenantCanceledWithGrace: none of them
\* touches marketplaceOffboardedAt.
Mark(s) ==
  /\ marks < MaxMarks
  /\ status # s
  /\ status' = s
  /\ marks' = marks + 1
  /\ UNCHANGED <<offboarded, listing, connected, publishing, pass, approvals, passFaults, gap>>

\* The billing gate lets an active tenant write. In the grace period it may read, and
\* the authorize URL of a channel is a read.
MayWrite == status = "active"
MayRead  == status \in {"active", "canceled_grace"}

\* POST /admin/oauth/{channel}/disconnect.
Disconnect(c) ==
  /\ "disconnect" \in SellerActs
  /\ MayWrite
  /\ c \in connected
  /\ connected' = connected \ {c}
  /\ UNCHANGED <<status, offboarded, listing, publishing, pass, marks, approvals,
                 passFaults, gap>>

\* GET /admin/oauth/{channel}/authorize-url, and the channel's callback.
Connect(c) ==
  /\ "connect" \in SellerActs
  /\ MayRead
  /\ connected' = connected \cup {c}
  /\ connected' # connected
  /\ UNCHANGED <<status, offboarded, listing, publishing, pass, marks, approvals,
                 passFaults, gap>>

\* POST .../approve-ebay-listing and .../approve-shopify-listing.
Approve(c) ==
  /\ approvals < MaxApprovals
  /\ MayWrite
  /\ listing[c].status # "published"
  /\ publishing[c] = "none"
  /\ publishing' = [publishing EXCEPT ![c] = "queued"]
  /\ approvals' = approvals + 1
  /\ UNCHANGED <<status, offboarded, listing, connected, pass, marks, passFaults, gap>>

------------------------------------------------------------------------------
\* The publish worker reads the token first. It asks nobody whether the tenant is
\* still a customer.
TakeToken(c) ==
  /\ publishing[c] = "queued"
  /\ c \in connected
  /\ publishing' = [publishing EXCEPT ![c] = "running"]
  /\ UNCHANGED <<status, offboarded, listing, connected, pass, marks, approvals,
                 passFaults, gap>>

\* A token that was read works although its row is gone: no marketplace is told.
CallPublish(c) ==
  /\ publishing[c] = "running"
  /\ publishing' = [publishing EXCEPT ![c] = "called"]
  /\ listing' = [listing EXCEPT ![c].live = TRUE]
  /\ gap' = gap \cup {c}
  /\ UNCHANGED <<status, offboarded, connected, pass, marks, approvals, passFaults>>

RecordPublished(c) ==
  /\ publishing[c] = "called"
  /\ publishing' = [publishing EXCEPT ![c] = "none"]
  /\ listing' = [listing EXCEPT ![c].status = "published"]
  /\ UNCHANGED <<status, offboarded, connected, pass, marks, approvals, passFaults, gap>>

\* Without a connection, on a refusal, or when the answer of a call that succeeded
\* is lost. The message is gone after its receives.
PublishFails(c) ==
  /\ publishing[c] # "none"
  /\ publishing' = [publishing EXCEPT ![c] = "none"]
  /\ listing' = [listing EXCEPT ![c].status = "error"]
  /\ UNCHANGED <<status, offboarded, connected, pass, marks, approvals, passFaults, gap>>

\* A content update of a live listing fails: its status is "error", it stays live.
UpdateFails(c) ==
  /\ listing[c].status = "published"
  /\ passFaults < MaxPassFaults
  /\ passFaults' = passFaults + 1
  /\ listing' = [listing EXCEPT ![c].status = "error"]
  /\ UNCHANGED <<status, offboarded, connected, publishing, pass, marks, approvals, gap>>

------------------------------------------------------------------------------
BugCandidate == status = "canceled" /\ ~offboarded

\* listOffboardingCandidates. No code sets the status "canceled" it also asks for.
Candidate == status = "canceled_grace" /\ ~offboarded

Pass(step) == pass' = [pass EXCEPT !.pc = step]

\* The pass lists its tenants before it works on the first.
ChooseTenant ==
  /\ pass.pc = "idle"
  /\ Candidate
  /\ Pass("chosen")
  /\ UNCHANGED <<status, offboarded, listing, connected, publishing, marks, approvals,
                 passFaults, gap>>

StillPublished == {c \in Channels : listing[c].status = "published"}
Live           == {c \in Channels : listing[c].live}

\* The listings of the pass are read once.
ReadListings ==
  /\ pass.pc = "chosen"
  /\ pass' = [pass EXCEPT !.pc = "next", !.todo = StillPublished]
  /\ gap' = Live \ StillPublished
  /\ UNCHANGED <<status, offboarded, listing, connected, publishing, marks, approvals,
                 passFaults>>

BugDone(c, ok) == [pass EXCEPT !.pc = "next", !.todo = @ \ {c}, !.at = None]

Done(c, ok) ==
  [pass EXCEPT !.pc = "next", !.todo = @ \ {c}, !.at = None, !.allDelisted = @ /\ ok]

\* A listing without a connection is left as it is and does not hold up the pass.
SkipUnconnected(c) ==
  /\ pass.pc = "next"
  /\ c \in pass.todo \ connected
  /\ pass' = Done(c, TRUE)
  /\ gap' = gap \cup ({c} \cap Live)
  /\ UNCHANGED <<status, offboarded, listing, connected, publishing, marks, approvals,
                 passFaults>>

\* delistProduct.
Delist(c) ==
  /\ pass.pc = "next"
  /\ c \in pass.todo \cap connected
  /\ listing' = [listing EXCEPT ![c].live = FALSE]
  /\ pass' = [pass EXCEPT !.pc = "delisted", !.at = c]
  /\ UNCHANGED <<status, offboarded, connected, publishing, marks, approvals, passFaults, gap>>

RecordDelisted ==
  /\ pass.pc = "delisted"
  /\ listing' = [listing EXCEPT ![pass.at].status = "delisted"]
  /\ pass' = Done(pass.at, TRUE)
  /\ UNCHANGED <<status, offboarded, connected, publishing, marks, approvals, passFaults, gap>>

PassFault == passFaults < MaxPassFaults /\ passFaults' = passFaults + 1

\* The token, the call or a statement after it throws: recorded, and the next
\* listing is tried.
DelistFails(c) ==
  /\ \/ pass.pc = "next" /\ c \in pass.todo \cap connected
     \/ pass.pc = "delisted" /\ c = pass.at
  /\ PassFault
  /\ pass' = Done(c, FALSE)
  /\ UNCHANGED <<status, offboarded, listing, connected, publishing, marks, approvals, gap>>

EndListings ==
  /\ pass.pc = "next"
  /\ pass.todo = {}
  /\ pass' = IF pass.allDelisted THEN [pass EXCEPT !.pc = "revoke", !.todo = Channels]
             ELSE NoPass
  /\ UNCHANGED <<status, offboarded, listing, connected, publishing, marks, approvals,
                 passFaults, gap>>

\* deleteOAuthConnectionsForTenant, channel by channel.
Revoke(c) ==
  /\ pass.pc = "revoke"
  /\ c \in pass.todo
  /\ connected' = connected \ {c}
  /\ pass' = [pass EXCEPT !.todo = @ \ {c}, !.pc = IF pass.todo = {c} THEN "mark" ELSE @]
  /\ UNCHANGED <<status, offboarded, listing, publishing, marks, approvals, passFaults, gap>>

\* markTenantMarketplaceOffboarded names the tenant only.
MarkOffboarded ==
  /\ pass.pc = "mark"
  /\ offboarded' = TRUE
  /\ pass' = NoPass
  /\ UNCHANGED <<status, listing, connected, publishing, marks, approvals, passFaults, gap>>

\* The Lambda dies, or a statement outside the per-listing try throws.
PassDies ==
  /\ pass.pc # "idle"
  /\ PassFault
  /\ pass' = NoPass
  /\ UNCHANGED <<status, offboarded, listing, connected, publishing, marks, approvals, gap>>

PassStep ==
  \/ ChooseTenant \/ ReadListings \/ RecordDelisted \/ EndListings \/ MarkOffboarded
  \/ \E c \in Channels : SkipUnconnected(c) \/ Delist(c) \/ Revoke(c)

PublishStep(c) == TakeToken(c) \/ CallPublish(c) \/ RecordPublished(c) \/ PublishFails(c)

OffboardingNext ==
  \/ \E s \in PaidStatus : Mark(s)
  \/ \E c \in Channels :
       Disconnect(c) \/ Connect(c) \/ Approve(c) \/ PublishStep(c) \/ UpdateFails(c)
         \/ DelistFails(c)
  \/ PassStep
  \/ PassDies

\* The pass runs every hour, and SQS delivers.
OffboardingFairness ==
  /\ WF_offboardingVars(PassStep)
  /\ \A c \in Channels : WF_offboardingVars(PublishStep(c))

OffboardingSpec ==
  OffboardingInit /\ [][OffboardingNext]_offboardingVars /\ OffboardingFairness

------------------------------------------------------------------------------
\* No connection is revoked by a pass, and no tenant marked, while a listing the pass
\* could see is live: not when a call fails, a pass dies, or billing events overtake
\* it. The ones it cannot see are those in "error", those whose channel was
\* disconnected, and publications under way (gap).
NothingAbandoned ==
  pass.pc \in {"revoke", "mark"} \/ offboarded => Live \subseteq gap

\* A cancelled tenant is wound down in the end, unless it comes back.
WoundDown ==
  (status = "canceled_grace") ~> (offboarded \/ status # "canceled_grace")

==============================================================================
