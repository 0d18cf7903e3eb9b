---------------------------- MODULE AccountCenter ----------------------------
(***************************************************************************)
(* The account center: the page (hosted/account.ts), the session client    *)
(* that sends its requests (hosted/session-client.ts), the public account  *)
(* routes that pass them on with the user's token (routes/                 *)
(* account-self-service.ts) and GoTrue, which keeps the user, his factors, *)
(* grants and identities and the session, and is external.                 *)
(*                                                                         *)
(* A change travels over three parties, each of which tries again: the     *)
(* routes at the next base URL when an answer does not arrive, the session *)
(* client with a refreshed token when it is refused with 401.  Every       *)
(* change is followed by an audit event, and what SupaCloud answers to     *)
(* that, a 401 included, is the answer to the change.                      *)
(***************************************************************************)
EXTENDS Naturals, FiniteSetsExt

CONSTANTS
    Clicks,    \* changes that the user starts
    Bases,       \* URLs at which the routes try GoTrue
    MaxExpiries, \* bound: access tokens that expire
    MaxFaults,   \* bound: calls, answers and writes that fail
    None

ASSUME CenterAssumption ==
    /\ Bases \in Nat \ {0} /\ MaxExpiries \in Nat /\ MaxFaults \in Nat
    /\ None \notin Nat

VARIABLES
    session, \* the token the browser stores, 0 if none
    refresh, \* refreshPromise: the token it is for, and the answer
    click,     \* click[r]: the request, at the page, the routes and GoTrue
    item,    \* GoTrue: the factor, grant or identity to remove exists
    deleted, \* GoTrue: the user was deleted
    live,    \* GoTrue: access tokens that are neither expired nor revoked
    issued,  \* GoTrue: the last token of the session
    revoked, \* GoTrue: the session was ended from elsewhere, or the user banned
    faults,
    \* History
    done,    \* done[r]: how often GoTrue performed the change
    lost,    \* lost[r]: answers to a performed change that the routes missed
    misled,  \* misled[r]: replies 401 that were not about the user's token
    audited, \* audited[r]: rows of the audit log
    excuse   \* the session may be lost: GoTrue has rotated its token behind the
             \* browser, by an answer that was lost or by an upgrade

gotrue == <<item, deleted, live, issued, revoked>>
ghosts == <<done, lost, misled, audited>>
centerVars == <<session, refresh, click, gotrue, faults, ghosts, excuse>>

\* "edit": the profile, the e-mail address, the phone number, an enrolment.
Changes == {"edit", "verify", "remove", "delete"}
Idle == [pc |-> "idle", change |-> None, step |-> "change", token |-> 0,
         retried |-> FALSE, base |-> 0, reply |-> None, upgrade |-> 0]
NoRefresh == [token |-> 0, answer |-> None]

CenterInit ==
    /\ session = 1 /\ issued = 1 /\ live = {1} /\ revoked = FALSE
    /\ refresh = NoRefresh
    /\ click = [r \in Clicks |-> Idle]
    /\ item = TRUE /\ deleted = FALSE
    /\ faults = 0
    /\ done = [r \in Clicks |-> 0] /\ lost = [r \in Clicks |-> 0]
    /\ misled = [r \in Clicks |-> 0]
    /\ audited = [r \in Clicks |-> 0]
    /\ excuse = FALSE

Fault == faults < MaxFaults /\ faults' = faults + 1

-----------------------------------------------------------------------------
(* The page and its session client *)

\* A request on its way to the routes, which start with GET /user.
Sent(q, token) ==
    [q EXCEPT !.pc = "account", !.token = token, !.base = 1, !.reply = None]

\* The page reports that the change is done, or a failure of one kind or another.
Reported(q) == [Idle EXCEPT !.pc = "done", !.change = q.change]
Failed == [Idle EXCEPT !.pc = "failed"]

\* requireSession(), then the first attempt.
Started(q, step, stored) ==
    IF stored = 0
    THEN Failed
    ELSE Sent([q EXCEPT !.step = step, !.retried = FALSE], stored)

\* saveProfile(), updateEmail(), updatePhone(), startTotpEnrollment();
\* verifyTotpEnrollment(); removeAccountModuleItem(); deleteAccount().
Start(r, change) ==
    /\ click[r].pc = "idle"
    /\ click' = [click EXCEPT ![r] = Started([Idle EXCEPT !.change = change], "change", session)]
    /\ UNCHANGED <<session, refresh, gotrue, faults, ghosts, excuse>>

\* Wrong: every failure is tried again.
RetryFailures(reply) == reply \in {"401", "failed"}
Retry(reply) == reply = "401"

\* Wrong: a 401 always refreshes.
RefreshAlways(q) == TRUE
\* The token refused is still the one stored.
RefreshDue(q) == session = q.token

\* authenticatedFetch(): the first 401 is tried again with the token stored
\* meanwhile, or after the refresh that is under way or started here.
RetryWithToken(r) ==
    LET q == click[r]
    IN  /\ q.pc = "replied" /\ Retry(q.reply) /\ ~q.retried
        /\ IF session = 0
           THEN click' = [click EXCEPT ![r] = Failed] /\ UNCHANGED refresh
           ELSE IF RefreshDue(q)
           THEN /\ click' = [click EXCEPT ![r] = [q EXCEPT !.pc = "refreshing"]]
                /\ refresh' = IF refresh = NoRefresh
                              THEN [NoRefresh EXCEPT !.token = session] ELSE refresh
           ELSE /\ click' = [click EXCEPT ![r] = Sent([q EXCEPT !.retried = TRUE], session)]
                /\ UNCHANGED refresh
        /\ UNCHANGED <<session, gotrue, faults, ghosts, excuse>>

\* The second 401 signs out, whatever the session is by now; so does the reply
\* that the user is banned.
SignOut(r) ==
    /\ click[r].pc = "replied"
    /\ \/ click[r].reply = "banned"
       \/ click[r].reply = "401" /\ click[r].retried
    /\ session' = 0
    /\ click' = [click EXCEPT ![r] = Failed]
    /\ UNCHANGED <<refresh, gotrue, faults, ghosts, excuse>>

\* Wrong: a removal is not read back.
ConcludedByReply(q, stored) ==
    IF q.reply = "ok" THEN Reported(q) ELSE Failed

\* A change that leaves the lists out of date is followed by reading them.
Concluded(q, stored) ==
    IF q.reply = "ok" /\ q.change \in {"verify", "remove"} /\ q.step = "change"
    THEN Started(q, "list", stored)
    ELSE IF q.reply = "ok" \/ (q.reply = "listed" /\ q.change # "remove")
    THEN Reported(q)
    ELSE Failed

\* A deleted account is signed out.
LeaveAccount(r) ==
    /\ click[r].pc = "replied" /\ click[r].reply = "ok" /\ click[r].change = "delete"
    /\ session' = 0
    /\ click' = [click EXCEPT ![r] = Reported(@)]
    /\ UNCHANGED <<refresh, gotrue, faults, ghosts, excuse>>

\* What the page makes of a reply; an upgraded session is stored first.
Conclude(r) ==
    LET stored == IF click[r].upgrade = 0 THEN session ELSE click[r].upgrade
    IN  /\ click[r].pc = "replied" /\ click[r].reply \notin {"401", "banned"}
        /\ Retry(click[r].reply) => click[r].retried
        /\ click[r].reply = "ok" => click[r].change # "delete"
        /\ session' = stored
        /\ click' = [click EXCEPT ![r] = Concluded([@ EXCEPT !.upgrade = 0], stored)]
        /\ UNCHANGED <<refresh, gotrue, faults, ghosts, excuse>>

\* setSession() fails; the session stored stays.
UpgradeNotStored(r) ==
    /\ click[r].pc = "replied" /\ click[r].upgrade # 0 /\ Fault
    /\ click' = [click EXCEPT ![r] = Failed]
    /\ UNCHANGED <<session, refresh, gotrue, ghosts, excuse>>

\* fetch() fails although the routes have replied.
ReplyLost(r) ==
    /\ click[r].pc = "replied" /\ Fault
    /\ click' = [click EXCEPT ![r] = Failed]
    /\ UNCHANGED <<session, refresh, gotrue, ghosts, excuse>>

Waiting == {r \in Clicks : click[r].pc = "refreshing"}

\* Wrong: a refresh that fails is reported to one of those who wait.
OneFails ==
    IF Waiting = {} THEN click
    ELSE [click EXCEPT ![CHOOSE r \in Waiting : TRUE] = Failed]
AllFail ==
    [r \in Clicks |-> IF r \in Waiting THEN Failed ELSE click[r]]

\* refreshSessionOnce(): all that wait share the outcome.
RefreshDone ==
    /\ refresh.answer \notin {None, 0}
    /\ session' = refresh.answer
    /\ click' = [r \in Clicks |->
                 IF r \in Waiting
                 THEN Sent([click[r] EXCEPT !.retried = TRUE], refresh.answer)
                 ELSE click[r]]
    /\ refresh' = NoRefresh
    /\ UNCHANGED <<gotrue, faults, ghosts, excuse>>

\* A terminal refusal clears the session,
RefreshRefused ==
    /\ refresh.answer = 0
    /\ session' = 0
    /\ click' = AllFail
    /\ refresh' = NoRefresh
    /\ UNCHANGED <<gotrue, faults, ghosts, excuse>>

\* Wrong: every failure clears the session.
ClearedAfterFailure == 0
\* Wrong: the missing session of a failed refresh is stored.
MissingAfterFailure == None
StoredAfterFailure == session

\* a failure that may pass keeps it.
RefreshFails ==
    /\ refresh # NoRefresh /\ refresh.answer # 0 /\ Fault
    /\ session' = StoredAfterFailure
    /\ click' = AllFail
    /\ refresh' = NoRefresh
    /\ excuse' = (excuse \/ refresh.answer # None)
    /\ UNCHANGED <<gotrue, ghosts>>

-----------------------------------------------------------------------------
(* The routes: requireAccount(), the change at GoTrue, the audit log *)

AtGoTrue == {"account", "items", "challenge", "change"}
Authorized(r) == click[r].token \in live

Replied(q, reply) == [q EXCEPT !.pc = "replied", !.base = 0, !.reply = reply]

Listed(q) == Replied(q, IF item THEN "listed" ELSE "ok")

\* GET /user answers; getMfa and getIdentities list what that very answer says.
AccountFound(r) ==
    LET q == click[r]
        next == CASE q.step = "list" -> "items"
                  [] q.step = "change" /\ q.change = "verify" -> "challenge"
                  [] q.step = "change" /\ q.change = "delete" -> "delete"
                  [] OTHER -> "change"
    IN  /\ q.pc = "account" /\ Authorized(r)
        /\ \/ click' = [click EXCEPT ![r].pc = next, ![r].base = 1]
           \/ q.step = "list" /\ click' = [click EXCEPT ![r] = Listed(q)]
        /\ UNCHANGED <<session, refresh, gotrue, faults, ghosts, excuse>>

\* getGrants asks for the grants.
ItemsFound(r) ==
    /\ click[r].pc = "items" /\ Authorized(r)
    /\ click' = [click EXCEPT ![r] = Listed(@)]
    /\ UNCHANGED <<session, refresh, gotrue, faults, ghosts, excuse>>

\* verifyTotpMfaWithGoTrue() first asks for a challenge.
Challenged(r) ==
    /\ click[r].pc = "challenge" /\ Authorized(r)
    /\ click' = [click EXCEPT ![r].pc = "change", ![r].base = 1]
    /\ UNCHANGED <<session, refresh, gotrue, faults, ghosts, excuse>>

\* GoTrue performs a change; a verification upgrades the session.  A refresh
\* of the session as it was may then be refused.
Perform(r) ==
    LET upgrades == click[r].change = "verify"
    IN  /\ click[r].pc = "change" /\ Authorized(r)
        /\ click[r].change = "remove" => item
        /\ item' = (item /\ click[r].change # "remove")
        /\ done' = [done EXCEPT ![r] = @ + 1]
        /\ issued' = IF upgrades THEN issued + 1 ELSE issued
        /\ live' = IF upgrades THEN live \cup {issued'} ELSE live
        /\ excuse' = (excuse \/ upgrades)
        /\ UNCHANGED <<deleted, revoked>>

Changed(r) ==
    /\ Perform(r)
    /\ click' = [click EXCEPT ![r].pc = "audit", ![r].base = 0,
                          ![r].upgrade = IF issued' # issued THEN issued' ELSE 0]
    /\ UNCHANGED <<session, refresh, faults, lost, misled, audited>>

\* GoTrue acknowledges a removal that it has not performed.
RemovalPretended(r) ==
    /\ click[r].pc = "change" /\ Authorized(r) /\ click[r].change = "remove" /\ Fault
    /\ click' = [click EXCEPT ![r].pc = "audit", ![r].base = 0]
    /\ UNCHANGED <<session, refresh, gotrue, ghosts, excuse>>

\* A status other than ok ends the loop over the bases: 401 for the token, 403
\* for a user who is banned or a session that is gone,
Unauthorized(r) ==
    /\ click[r].pc \in AtGoTrue /\ ~Authorized(r)
    /\ \E reply \in {"401"} \cup (IF revoked THEN {"banned", "failed"} ELSE {}) :
           click' = [click EXCEPT ![r] = Replied(@, reply)]
    /\ UNCHANGED <<session, refresh, gotrue, faults, ghosts, excuse>>

\* another for the account (a feature that is off) or the change.
Decline(r) ==
    /\ click[r].pc \in AtGoTrue /\ Authorized(r)
    /\ click' = [click EXCEPT ![r] = Replied(@, "failed")]
    /\ UNCHANGED <<session, refresh, gotrue, faults, ghosts, excuse>>

\* requestGoTrueWithUserToken(): no answer, so the next URL is tried.
NextBase(q) ==
    IF q.base < Bases THEN [q EXCEPT !.base = @ + 1] ELSE Replied(q, "failed")

NoAnswer(r) ==
    /\ click[r].pc \in AtGoTrue /\ Fault
    /\ click' = [click EXCEPT ![r] = NextBase(@)]
    /\ UNCHANGED <<session, refresh, gotrue, ghosts, excuse>>

AnswerLost(r) ==
    /\ Perform(r) /\ Fault
    /\ lost' = [lost EXCEPT ![r] = @ + 1]
    /\ click' = [click EXCEPT ![r] = NextBase(@)]
    /\ UNCHANGED <<session, refresh, misled, audited>>

\* An answer that is not JSON is not asked for again.
AnswerBroken(r) ==
    /\ Perform(r) /\ Fault
    /\ click' = [click EXCEPT ![r] = Replied(@, "failed")]
    /\ UNCHANGED <<session, refresh, lost, misled, audited>>

\* deleteCurrentUserAccount() asks SupaCloud, whatever became of the token.
DeleteUser(r) ==
    /\ click[r].pc = "delete" /\ ~deleted
    /\ deleted' = TRUE /\ revoked' = TRUE /\ live' = {} /\ item' = FALSE
    /\ done' = [done EXCEPT ![r] = @ + 1]
    /\ UNCHANGED <<issued, excuse>>

UserDeleted(r) ==
    /\ DeleteUser(r)
    /\ click' = [click EXCEPT ![r].pc = "audit", ![r].base = 0]
    /\ UNCHANGED <<session, refresh, faults, lost, misled, audited>>

\* 404: the other request was faster.
UserNotFound(r) ==
    /\ click[r].pc = "delete" /\ deleted
    /\ click' = [click EXCEPT ![r] = Replied(@, "failed")]
    /\ UNCHANGED <<session, refresh, gotrue, faults, ghosts, excuse>>

DeleteUnanswered(r) ==
    /\ DeleteUser(r) /\ Fault
    /\ click' = [click EXCEPT ![r] = Replied(@, "failed")]
    /\ UNCHANGED <<session, refresh, lost, misled, audited>>

\* normalizeSupaCloudApiError(): SupaCloud's 401 becomes the route's.
PassedOn == {"failed", "401"}

\* A call of SupaCloud fails, before the user is deleted or after any change:
\* logAudit() is awaited and its failure is the request's.
SupaCloudFails(r) ==
    /\ click[r].pc \in {"delete", "audit"} /\ Fault
    /\ \E reply \in PassedOn :
          /\ click' = [click EXCEPT ![r] = Replied(@, reply)]
          /\ misled' = [misled EXCEPT ![r] = IF reply = "401" THEN @ + 1 ELSE @]
    /\ UNCHANGED <<session, refresh, gotrue, done, lost, audited, excuse>>

Audit(r) ==
    /\ click[r].pc = "audit"
    /\ audited' = [audited EXCEPT ![r] = @ + 1]
    /\ click' = [click EXCEPT ![r] = Replied(@, "ok")]
    /\ UNCHANGED <<session, refresh, gotrue, faults, done, lost, misled, excuse>>

-----------------------------------------------------------------------------
(* GoTrue's session *)

\* A refresh token that was used before may be refused.
ServeRefresh ==
    /\ refresh # NoRefresh /\ refresh.answer = None
    /\ \/ /\ ~revoked
          /\ issued' = issued + 1
          /\ live' = live \cup {issued'}
          /\ refresh' = [refresh EXCEPT !.answer = issued']
       \/ /\ revoked \/ refresh.token # issued
          /\ refresh' = [refresh EXCEPT !.answer = 0]
          /\ UNCHANGED <<issued, live>>
    /\ UNCHANGED <<session, click, item, deleted, revoked, faults, ghosts, excuse>>

Expire(t) ==
    /\ t \in live /\ Cardinality((1 .. issued) \ live) < MaxExpiries /\ ~revoked
    /\ live' = live \ {t}
    /\ UNCHANGED <<session, refresh, click, item, deleted, issued, revoked, faults, ghosts, excuse>>

Revoke ==
    /\ ~revoked
    /\ revoked' = TRUE /\ live' = {}
    /\ UNCHANGED <<session, refresh, click, item, deleted, issued, faults, ghosts, excuse>>

-----------------------------------------------------------------------------
Page(r) == RetryWithToken(r) \/ SignOut(r) \/ LeaveAccount(r) \/ Conclude(r)
Route(r) ==
    \/ AccountFound(r) \/ ItemsFound(r) \/ Challenged(r) \/ Changed(r)
    \/ UserDeleted(r) \/ UserNotFound(r)
    \/ Unauthorized(r) \/ Decline(r) \/ Audit(r)

CenterNext ==
    \/ \E r \in Clicks :
        \/ \E change \in Changes : Start(r, change)
        \/ Page(r) \/ Route(r)
        \/ UpgradeNotStored(r) \/ RemovalPretended(r)
        \/ ReplyLost(r) \/ NoAnswer(r) \/ AnswerLost(r) \/ AnswerBroken(r)
        \/ DeleteUnanswered(r) \/ SupaCloudFails(r)
    \/ RefreshDone \/ RefreshRefused \/ RefreshFails
    \/ ServeRefresh \/ Revoke
    \/ \E t \in live : Expire(t)

\* Code that runs goes on, and every call ends: those of the routes time out.
CenterFairness ==
    /\ \A r \in Clicks : WF_centerVars(Page(r)) /\ WF_centerVars(Route(r))
    /\ WF_centerVars(RefreshDone \/ RefreshRefused) /\ WF_centerVars(ServeRefresh)

CenterSpec == CenterInit /\ [][CenterNext]_centerVars /\ CenterFairness

-----------------------------------------------------------------------------
(* Properties *)

Way ==
    [pc : {"idle", "replied", "refreshing", "delete", "audit", "done", "failed"} \cup AtGoTrue,
     change : Changes \cup {None}, step : {"change", "list"},
     token : 0 .. issued, retried : BOOLEAN, base : 0 .. Bases,
     reply : {None, "ok", "listed", "401", "banned", "failed"},
     upgrade : 0 .. issued]

\* Every variable has its type.
CenterTypeOK ==
    /\ session \in 0 .. issued /\ issued \in Nat /\ live \subseteq 1 .. issued
    /\ refresh \in [token : 0 .. issued, answer : {None} \cup 0 .. issued]
    /\ click \in [Clicks -> Way]
    /\ item \in BOOLEAN /\ deleted \in BOOLEAN /\ revoked \in BOOLEAN /\ excuse \in BOOLEAN
    /\ faults \in 0 .. MaxFaults
    /\ {done, lost, misled, audited} \subseteq [Clicks -> Nat]

\* One click changes the account once.  A second time only for an answer that
\* the routes missed, since they send the change again to the next base, and for
\* an audit that SupaCloud refused with 401, since the session client takes that
\* for a refusal of the token and sends the request again with a new one.
ChangedOnceUnlessLost ==
    \A r \in Clicks : done[r] <= 1 + lost[r] + misled[r]

\* What the page reports as done is done: the item that was removed is gone
\* even if GoTrue only said so (removeAccountModuleItem reads the list back),
\* and the audit log has the change (the routes reply after logAudit).
DoneIsTrue ==
    \A r \in Clicks :
        click[r].pc = "done" =>
            /\ audited[r] >= 1
            /\ IF click[r].change = "remove" THEN ~item ELSE done[r] >= 1

\* GoTrue, the audit log and the page tell the same story, in every state.
CenterInvariant == CenterTypeOK /\ ChangedOnceUnlessLost /\ DoneIsTrue

Expired == (1 .. issued) \ live
Misled == {r \in Clicks : misled[r] > 0}

\* Two tokens expired, or seemed to, if by a reply that misled.
TwoMishaps ==
    \/ \E t \in Expired : Expired # {t} \/ Misled # {}
    \/ \E r \in Misled : Misled # {r} \/ misled[r] > 1

\* The browser loses its session only to GoTrue: it was revoked or its user
\* deleted, two of its tokens expired, or seemed to by a misleading 401, while
\* requests were under way, or its token was rotated without the browser
\* learning of it in time.  Requests refused at the same
\* time do not take the session from each other, and no failure that may pass
\* ends it (refreshSessionOnce, isRetryableRefreshError).
SessionSurvives == session = 0 => revoked \/ excuse \/ TwoMishaps

\* A token is refreshed only after it was refused for good, or a request with it
\* was misled: a refusal that arrives late, when another request has refreshed,
\* uses the new token.
RefreshesAreDue ==
    [][refresh = NoRefresh /\ refresh' # NoRefresh =>
         \/ refresh'.token \notin live
         \/ \E r \in Clicks : misled[r] > 0 /\ click[r].token = refresh'.token]_centerVars

\* Every click is answered, whatever happens to the requests it shares a
\* refresh with: a request that was clicked does not stay on its way for ever.
ClicksAreAnswered ==
    <>[](\A r \in Clicks : click[r].pc \in {"idle", "done", "failed"})
=============================================================================
