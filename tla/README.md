# A verification of the NektronAI account service

This directory holds TLA+ models of the program behind `website/server/accounts`
(sign-up, login, OAuth for Nektron Mail and the Database Connector, archive keys)
and of the scripts that configure and deploy it, the TLC runs that check them and
proofs of the most important properties.

## 1. The system

The account service is a Flask application run by gunicorn (2 processes of 2
threads, `.platform/hooks/postdeploy/60_accounts.sh:33`) behind nginx. Threads share
nothing but one MySQL database, the clock and three AWS services (SES, KMS, Secrets
Manager). Every database call is its own connection and transaction
(`store.py:23-41`): a request that makes several calls is a sequence of
transactions with other requests in between. That is the source of nearly every
hazard listed in `PROJECT.json`.

| Component | State | Operations | Hard parts |
|---|---|---|---|
| OAuth grant families: `connector_oauth_store.py`, `mail_oauth.py`, `connector_oauth.py`, `mail_native.py` | `WebsiteOAuthGrant`, `WebsiteOAuthCredential` | create_code, create_refresh_family, consume, save_refresh, revoke, purge_expired, signing | two requests with one token, replay and revocation during an exchange, clock read before the lock, purge without a foreign key, two clients in one table |
| Accounts and action links: `store.py`, `app.py`, `mail.py` | `User`, `WebsiteActionToken` | create_pending, find_account, issue_token, mark_token_sent, consume_token | lookups without a lock, resend and clean-up, mail that is lost or reported as lost, links older than the password |
| Sessions, login, consent: `app.py`, `store.py`, `mail_oauth.py`, `connector_oauth.py` | `WebsiteSession`, one JSON document per cookie | open_session, save_session, rotate, csrf_token, login, logout, reset, authorize, resume, cancel_setup | the document is read whole and written whole without a lock, last writer wins; the Connector's pages ask another service in between |
| Budgets: `store.py:84-137`, `contact.py`, `abuse.py` | `WebsiteRateLimit` | allow_request, allow_account_email | nine rows locked per mail, all or nothing, windows |
| Archive keys: `mail_archive_keys.py`, `mail_archive_keys_store.py` | `MailArchiveKeys` | create_key, recover_key, active_mail_archive_grant | retry after a lost answer, grant revoked during the KMS call |
| Runtime secret: `scripts/configure_accounts.py`, `configure_mail_archive_keys.py`, `activate_mail_ingest.py` | one Secrets Manager document with version labels | read, extend, replace | lost updates between scripts |
| Releases: `scripts/prepare_mail_archive_keys_deployment.py`, `prepare_mail_ingest_deployment.py`, `deploy_mail_archive_keys.py`, `restart_candidate` of `activate_mail_ingest.py`, `ops/deploy-eb-site.sh` | bundles in S3, Elastic Beanstalk versions and the environment, the reviewed candidate | prepare, review, upload, create, validate, update, verify, resume, restart | minutes between looking and updating, lost answers, other people's deployments meanwhile |
| Hosts: `deploy.sh`, `create_infra.sh`, `.platform/hooks` | host configuration | rewrite, restart | shell work, no state read later |
| Browser clients: `assets/account.js`, `assets/database-connector-setup/app.js` | the tab: CSRF token, busy form | submit, sign out, poll | answers out of order, tokens replaced by a login |
| Release tooling: `scripts/update_download_release.mjs`, `sync_*`, `migrate_account_profile.py` | files, one column | rewrite | sequential programs |
| Public pages | none | none | none |

How they interact. A password reset (`consume_token`) changes the account row; the
row's *credential tag* (a hash of the password hash) is what binds everything else to
it: sessions and OAuth credentials store the tag they were issued under, and
`get_user` accepts them only while it is still the row's. Login writes the session;
the OAuth pages read the session and write grant families; the token endpoints use
grant families and accounts but no sessions; the archive-key endpoints use access
tokens, grant families and accounts.

What makes each component correct:

- *Grant families*: a family is a chain of single-use credentials, bound to one
  account, password, scope and client, with a fixed deadline; revocation is final.
- *Accounts*: password and verification change only for a link that reached the
  owner; a link dies with the password it was issued for and with its first use, and
  with nothing else.
- *Sessions*: a deleted session does not come back, a token belongs to one identity,
  a code exists only for a page that was shown to that user, and for a Connector code a
  database existed; a request that waits for a set-up waits for one user.
- *Budgets*: no budget is exceeded, a refused mail costs nothing, no deadlock.
- *Archive keys*: one archive and one key per owner and request; no key leaves
  without a live grant at the end of the call.
- *Runtime secret*: no script removes what another one wrote.
- *Releases*: a version's bundle never changes; no script undoes a release it has seen.

## 2. Modules

| Module | What it is |
|---|---|
| `CredentialRow` | abstract: an account as the rest of the service sees it, a status and a credential tag |
| `Accounts`, `MCAccounts`, `AccountsProofs` | account rows, links, mail; implements `CredentialRow` |
| `GrantFamily` | abstract: the life of one OAuth family |
| `OAuthStore`, `MCOAuthStore`, `OAuthStoreProofs`, `OAuthPromisesProofs` | grant tables and the requests on them; implements `GrantFamily`, takes its account rows from `CredentialRow` |
| `Sessions`, `MCSessions`, `SessionsProofs` | session documents, login, consent, Mail's OAuth pages; takes its account rows from `CredentialRow`; the proofs are about both products' pages |
| `ConnectorPages`, `MCConnectorPages` | the Connector's OAuth pages in the same sessions, with the registry of databases as environment; extends `Sessions` |
| `KeyCustody` | abstract: one request id, one archive, one key |
| `ArchiveKeys`, `MCArchiveKeys`, `ArchiveKeysProofs` | the archive key registry and its two requests; implements `KeyCustody`, takes its families from `GrantFamily` and its account rows from `CredentialRow` |
| `RuntimeSecret`, `MCRuntimeSecret`, `RuntimeSecretProofs` | the secret's versions and the scripts that extend it |
| `Rollout`, `MCRollout`, `RolloutProofs` | bundles, versions, the environment, and the scripts that prepare, deploy and restart |
| `Budgets` | abstract: a mail counted in all of its budgets at once |
| `RateLimits`, `MCRateLimits`, `RateLimitsProofs` | the budget rows, locked and released one by one; implements `Budgets` |

The composition is by refinement: `Accounts` is shown (and proved) to implement
`CredentialRow`, and `OAuthStore` and `Sessions` use the actions of `CredentialRow`
(`Row!Replace`, `Row!Switch`) as the environment that resets passwords and changes
statuses. So neither of them has to carry the link table along. In the same way
`OAuthStore` is shown (and proved) to implement `GrantFamily`, and `ArchiveKeys` takes the life of
its families from there; all three layers meet in `ArchiveKeys`.

### How an action corresponds to the code

One action is one database transaction, or the computation between two of them.
A transaction that takes `FOR UPDATE` on the row everything else about it is guarded
by (the grant row, the account row) is atomic in the model because the lock makes it
so in MySQL; whatever it does *before* the lock is an action of its own. `pc[w]` is
the place between two transactions a request `w` is at, and `req[w]` what it
remembers there (the clock it read, the looked-up family, session copy). `Abandon` ends a request
at any such place: that is a refusal, an exception (`connection()` rolls back the
transaction in progress), a gunicorn timeout or a crash of the process. Restarting
the service loses nothing else, as threads keep no state between requests.

`OAuthStore`

| Action | Code |
|---|---|
| `Approve`, `NativeLogin` | `authorize` up to `create_authorization_response`; `create_session` up to `finish_login` |
| `Housekeep` | `_maybe_purge_expired` (skipped, failed or done) and the clock read after it |
| `CreateCode`, `CreateRefreshFamily`, `SignNative` | `create_code`, `create_refresh_family`, the rest of `issue_native_tokens` |
| `Lookup` / `ConsumeFirst`, `ConsumeReplay` | `consume` before / after it holds the grant lock |
| `Authenticate`, `Sign` | `credential_user`, `access_token` |
| `SaveRefresh` | `save_refresh`; then the response leaves |
| `Revoke` | `revoke`, one UPDATE with a join |

`Accounts`

| Action | Code |
|---|---|
| `Signup`, `FindAccount`, `RequestLink` | `signup` up to its answer, `request_verification`, `request_reset` |
| `BeginIssue`, `IssueToken` | `issue_token` before / under the account lock |
| `Deliver`, `MarkSent` | `Mailer.send`, `mark_token_sent` |
| `VerifyEmail`, `ResetPassword` | `consume_token` with its two purposes |
| `SetStatus` | an operator's UPDATE; the service never disables an account itself |

`Sessions`

| Action | Code |
|---|---|
| `Open`, `OpenNew` | `open_session` |
| `SaveCleared`, `SaveNew`, `SaveOld` | `save_session` with its three outcomes |
| `CsrfToken`, `CurrentUser`, `Logout`, `ResetPassword` | the handlers of these names |
| `Login`, `FinishLogin`, `Rotate` | `login`: lookup and password check, `finish_login`, `rotate` and the new document |
| `StorePending`, `AskConsent`, `Approve`, `Refuse`, `CreateCode`, `Resume` | `authorize` and `resume` of `mail_oauth.py` |
| `Expire` | `ExpiresAt` passes, at any moment |

`ConnectorPages` has the session's four keys of both products, the actions of
`Sessions`, and these of `connector_oauth.py`:

| Action | Code |
|---|---|
| `PutOff`, `AskConnection`, `SetUpFirst` | `authorize` (GET): nobody is signed in, a page, or set up a database first |
| `ApproveConnection`, `RefuseConnection` | `authorize` (POST) up to `database_ready` |
| `Confirm`, `SetUpFirst`, `RegistryFails` | the three answers of the registry; `CreateCode` follows the first |
| `ResumeConnection`, `RefuseResume`, `CancelSetup` | `resume`, `cancel_setup` |
| `Move` | a user's databases come or go, at any moment |

`ArchiveKeys`

| Action | Code |
|---|---|
| `Authenticate` | `authenticate_mail`: a verified token, an active account |
| `CheckFamily`, `CheckAccount`, `Reject` | `active_mail_archive_grant`: one snapshot of the two grant tables, then `get_user` on a connection of its own; before the work and again in `release` |
| `Lookup`, `NotFound`, `Insert`, `ReadExisting` | `by_request`, `by_archive`, `insert_or_existing` and its handling of `IntegrityError` |
| `Wrap`, `Unwrap`, `Answer` | the calls of KMS, and the answer |
| `Issue`, `Refresh`, `ResetPassword`, `SetStatus` | the environment: steps of `GrantFamily` and `CredentialRow` |

`RuntimeSecret` has one action per call of a script that changes or reads something
outside it. `Move` is `update_secret_version_stage` with `RemoveFromVersionId`, which
Secrets Manager refuses unless that version is current; `Put` is `put_secret_value`
without labels, which always makes the new version current.

| Action | Code |
|---|---|
| `ReadAccounts`, `CreateSecret`, `CreateUser`, `LogIn`, `GrantTables`, `PutPolicy`, `PutAccounts` | `configure_accounts.py`, in its order |
| `ReadKeys`, `CreateRegistry`, `TryRegistry`, `CreateKey`, `PutKeyPolicy`, `ReadKeysAgain`, `PutKeys` | `configure_mail_archive_keys.py`, in its order |
| `ReadIngest`, `Prepare`, `Compare`, `Move` | `activate_flag` |
| `EditByHand` | whoever sets `NEKTRON_MAIL_OAUTH_ENABLED`, which no script does |

`Rollout` has one action per call of AWS that stores or changes something, and one for
each look at the environment on which a script relies.

| Action | Code |
|---|---|
| `Prepare`, `PrepareKeys`, `PrepareIngest`, `Repair` | the two scripts that prepare a candidate, up to the review of their manifest; `repair_runtime_permissions` |
| `Baseline`, `CheckSource`, `NewLabel`, `ResumeVersion` | `deploy_mail_archive_keys.py` up to its first write |
| `Upload`, `CreateVersion`, `Processed`, `Recheck`, `Update`, `UpdateUnanswered`, `Arrived`, `Verify` | the rest of it, in its order; `UpdateUnanswered` is the request whose answer is lost, which the AWS client repeats (`Update`) |
| `Restart`, `RestartRecheck`, `RestartCreate` | `restart_candidate` |
| `Stop` | a refused check, a deadline, an error of AWS, or the end of the script's process |
| `Process`, `Arrive`, `Fail` | Elastic Beanstalk: a version is validated, an update succeeds or fails |
| `PublishTree`, `Deploy` | `deploy-eb-site.sh`; `Deploy` is also whoever goes back to an older version |

`RateLimits` is the one module in which an action is smaller than a transaction: its
subject is the row locks.

| Action | Code |
|---|---|
| `Begin`, `Upsert`, `ReadRow` | `allow_account_email`: the rules and their order; the upsert that locks a row; the `FOR UPDATE` read of it when its budget has room |
| `Refuse`, `Reserve` | `return scope` at an exhausted budget; the updates of all nine rows. Both commit |
| `Retry`, `GiveUp` | errors 1205 and 1213 of a waiting request, counted up to the third |
| `Call`, `Count`, `Sweep`, `Answer` | `allow_request`: the clock and the bucket; the counting upsert; one row of the `DELETE`; the commit |

### Abstractions

- A secret, a nonce, a cookie is a model value drawn from a set that is never drawn
  twice; hashing is the identity of the drawn value, since only equality is used.
- A password hash is the number of resets before it. argon2 salts make every new hash
  differ from all earlier ones, even for the same password.
- Time is a natural number; deadlines are compared with `<` and `>` exactly as in the
  code (`<=` refuses). In `Sessions` there is no clock: a session or a pending sign-in
  may expire at any moment, which includes every moment it really can.
- A source bundle is what the properties tell apart: which public site it carries,
  which of the two runtime changes, and whether the service's user can read it. Its
  hash is the bundle itself.
- `deploy-eb-site.sh` takes a label of its own time stamp; two people who start it in
  the same second would share one, which the model leaves out (`PublishTree` needs a
  free label), as the script does nothing about it.
- Malformed requests, wrong PKCE verifiers and the like have no effect but the end of
  the request: `Abandon`.
- `RequestTTL` bounds how long a request sleeps between two readings of the clock:
  `connection()` gives up after 5 s of connecting and 10 s of reading, SES and KMS
  clients have timeouts of their own, and gunicorn kills a worker after 30 s. In
  `OAuthStore` `DeadlineFixed` and `PublishedWithFamily` need it, and only that it is
  less than a family's life of 30 days (`BoundAssumption`): a native sign-in that slept
  longer between storing its family and signing would sign for a family that has
  expired or been purged.

## 3. Runs

| Run | Shows | Bounds |
|---|---|---|
| `families` | chain, orphan, revocation, deadline, retired tag, replay, publication, refinement of `GrantFamily` | 1 user, 1 client, 1 family, 3 secrets, 2 requests; a family lives 2 ticks and may be purged as soon as that is over (`PurgeAge = 0`); 1 reset |
| `isolation` | types, one binding per family | 2 clients, 2 families, 2 scopes, 2 requests, 1 reset; the clock stands still |
| `accounts` | links match passwords, sent means delivered, disabled means untouched, refinement of `CredentialRow` | 1 address, 3 links, 2 requests, 4 points in time |
| `shared_links` | only owner's proof changes an account, a resend keeps links | 2 addresses, 3 links, 1 request, deadlines of 1 tick |
| `sessions` | nothing deleted comes back, no code without a page, a login overtaken by a reset is of no use | Mail's pages; 1 user, 2 cookies, 2 requests, 2 flows, 2 consent pages, 1 reset |
| `shared_browser` | pages, identities and waiting requests stay with their user; no code without a database | the Connector's pages; 2 users, 2 cookies, 2 requests, 1 flow; one user's database comes or goes once |
| `budgets` | mail budgets are exact, refinement of `Budgets`, calls stay within their limit, no deadlock without a sweep, every request ends | 2 requests, 2 mail budgets (site: 2 mails in 2 ticks; recipient: 1 in 1 tick) instead of nine, 1 call counter, 2 attempts instead of 3, 3 ticks |
| `archive_keys` | one id, one key, recoverable; no key for a dead grant; refinement of `KeyCustody` | 2 owners with a family each, the same request id, 2 archives and keys, 2 requests; the family and account of one owner change, 1 reset; symmetry of archives, keys and threads |
| `runtime_secret` | the database password is never lost, features are backed, activation changes one flag | 2 operators, 2 passwords, 6 versions of the document |
| `rollout` | a label keeps its bundle, no script undoes a release it has seen | 2 operators, 3 scripts in all (`MaxRuns`), all in one second (`Ticks`), 2 sites, 1 other deployment or restart (`Hand`), of an old tree (`Trees`) |
| `secret_settings` | *violated*: scripts preserve what others have stored | as `runtime_secret` |
| `consent_once` | *violated*: the consent nonce works once | as `sessions`, with 1 flow, 1 consent page and no reset |

Why the bounds are enough. The interleavings at stake need two requests: each
property speaks of one resource (a family, an account, a session row) and a conflict
on it is between the request that holds a stale view and the one that made it stale.
Three secrets give a family a code, its successor and the successor of that, so a
replay can hit a spent credential with a live successor. Three links give an account
one in the mailbox, one being issued and one of another request. Two consent pages let
one tab's page replace the other's in the session, so a page can be submitted while the
session asks something else. Deadlock is checked everywhere: a worker can always
abandon or start a request.

What the clock passes while something is in flight: in `accounts` and `shared_links` a
link expires before its mail has left; in `budgets` a window ends while a request holds
its row; in `families` a family expires, and is purged, between the signing and the
storing of an exchange, or between the lookup of a token and the lock. The last is the
reason for `PurgeAge = 0`. The code keeps a family for 30 days after its end, and no
exchange takes that long, so there the purge and an exchange cannot meet; the run takes
the 30 days away and shows that the tables do not depend on them, only on
`save_refresh` reading the grant again under its lock. The proofs hold for every
`PurgeAge`. In `isolation` the clock stands still: bindings have no deadline.

The violated runs state what the documentation and comments say; section "findings" of
`PROJECT.json` quotes it. In `consent_once` the code hands out
nothing it should not: both codes of one nonce went to the same user for the same
request. In `secret_settings`
`configure_accounts` writes back a document it read before `activate_mail_ingest`
published its flag, and the flag is gone. Two more divergences were met while modelling
and have no run. `server/accounts/README.md:57-58` says that password changes revoke all
sessions, but a login confirmed before the reset (`app.py:281-289`) inserts its session
after the reset has deleted the account's (`store.py:216`); it carries the old tag, so
`get_user` refuses it, which is what `LateLoginLockedOut` states of it. And `README-mail-oauth.md:192` says that a native sign-in signs first and
stores its family last, the code (`mail_oauth.py:403-412`) stores first, so a reset in
between leaves a family without a holder until it is purged.

Two budgets are enough for `budgets` because the code treats them in a loop: what can
go wrong is that one has been tested or locked and the next is not, and that a window
ends in between. `CallsWithinLimit` needs that a request takes no longer than a window
(`RequestTTL <= CallSeconds`; 60 s is the shortest window in use), since a row is kept
for two.

In `rollout` three scripts suffice for the chain the code is made for, prepare, deploy,
restart, and for two deployments that race each other and a third party's. With four
scripts the run takes long and shows nothing else; the proofs cover any number.
`ScriptsKeepReleases` speaks of what was live when a script looked for the last time.
Between that look (`deploy_mail_archive_keys.py:142`) and the update (`:145`) somebody
else's release can still begin and end and is then undone: Elastic Beanstalk has no
conditional update, so the script cannot close this gap. A lost answer widens it: the
client repeats `update_environment` without another look (`UpdateUnanswered`), and the
repetition may come when the environment has moved on.

In `shared_browser` one move of a database per run is enough for it to be there when the
page is shown and gone when it is approved, or the other way round; two moves of one
user's databases return to where they were.

In `archive_keys` the environment acts on one owner only (`Restless`): the other is
there to use the same request id, and what happens to the one's grant does not touch
the other's. Symmetry is sound: the run has no liveness property, and no definition
tells archives, keys or threads apart.

### Fairness

`EveryRequestEnds` is the only liveness property. It assumes weak fairness of every
request's own next step: gunicorn's threads are preempted by the operating system, and
a database call ends by an answer, by a lock time-out (1205), by deadlock detection
(1213) or by the 10 s read time-out of the connection. Arrivals of requests, crashes
and the clock are not fair. The run also shows why mails retry: among themselves they
never wait in a circle, but a sweep of `allow_request` locks rows in the order of expiry
and can (`DeadlocksNeedASweep`). The one that sweeps has no retry and is answered
with 503.

Elsewhere nothing is assumed and nothing promised: no other part of the service
retries by itself, a request that dies is gone, and what must happen eventually (a
purge, a mail) depends on somebody sending another request.

## 4. Proofs

The theorems hold for every value of the constants that the named assumptions of the
modules allow: any number of users, clients, secrets, requests, links, versions. An
inductive invariant usually says of every request what it *knows* at each stage, and
the work is in showing that this stays true while the request waits and others move.

- `OAuthStoreProofs!TypeCorrect`, `FamilyIsAChain`, `CredentialsHaveFamilies`:
  `TypeOK`, `LinearFamily` and `NoOrphanCredential`. `LinearFamily` is
  not inductive alone: a request that consumed a credential must be known to hold the
  only one, and fresh secrets must be known to be in no row. The inductive
  invariant adds that every stored family and secret has been drawn, and what a
  request in an exchange knows of the row it spent.
- `OAuthPromisesProofs!FamiliesAreBound`, `RevocationStands`, `DeadlinesAreFixed`,
  `SpentIsRemembered`, `TokensAreBacked`, `ResetsStand`: the other promises of the two
  tables. `Frame` says what a step may do (rows of a family are only spent, marked,
  extended by one by the request in its exchange, or deleted with it when it is long
  over; a token is only published by the request whose turn it is), and `FrameStep`
  goes through the actions once. `Promises` is the invariant: rows, tokens and
  requests of a family agree on what it is bound to (`Agrees`), a native sign-in's
  family is untouched until its tokens are signed, and no other request works on it
  until then. `PromisesKept` needs nothing but `Frame`.
- `OAuthPromisesProofs!FamiliesLiveOnce`: `Spec => FamilyRefinement`. Issuing a code or a
  native family is `Issue`, a consumption `Exchange`, a rotation `Rotate`; each moves
  one family and leaves the rest. Every other step only shrinks what makes families
  open or exchanging (`Shrinking`), which is `Close` of those it reaches, or a stutter.
- `AccountsProofs!TypeCorrect`, `LinksFollowPassword`: `TypeOK` and
  `LinksMatchPassword`. The latter is inductive with `TypeOK`, because
  issuance reads the hash under the same lock as redemption writes it.
- `AccountsProofs!SentMeansDelivered`, `OnlyTheOwnerChangesIt`, `LinksAreKept`,
  `DisabledStays`: every step has one of four shapes (`StepShape`): it changes
  account rows only, stores a link, marks a link, or redeems one.
  `LinkInv` adds what a request that has mailed a link, and a link on record, know of
  the mailboxes.
- `AccountsProofs!AccountsKeepThePromise`: `Spec => RowRefinement`. A redeemed reset is
  `Replace`, a verification or an operator's change is `Switch`, and everything else
  leaves the row the others see as it is. A reset of a row that is being replaced for
  the first time and one that is already active both map to `Replace`.
- `SessionsProofs!TypeCorrect`, `CodesWereConsented`, `PagesFollowTheirUser`,
  `NoSessionComesBack`, `SessionsKeepTheirIdentity`, `LateLoginsAreLockedOut`. The
  inductive invariant (`Inv`) relates every request's copy to the stored row it came
  from: either the two name the same user and tag, or the copy has been emptied and
  will delete the row. It adds that a nonce stands for one page wherever it is, and
  that no tag is ahead of its account's. `Frame` says what no step does. Both are
  proved of `SessionStep`, a step of `Sessions` or of `ConnectorPages`, so the theorems
  hold with one product's pages and with both.
- `SessionsProofs!ConnectorTypeCorrect`, `NoCodeWithoutDatabase`,
  `WaitingIsPersonal`: an approved page of the Connector has been confirmed by the
  registry, and a request that waits, in any copy of a session, is one that was put
  off for the user it names (`Follows`).
- `ArchiveKeysProofs!TypeCorrect`, `AnswersAreRecoverable`, `NoKeyForTheDead`,
  `CustodyKept`: the registry only grows, a closed family stays closed and a replaced
  credential stays replaced (`Growing`), so what a request has read stays true while it
  waits for KMS (`Knows`). `NoKeyForTheDead` is about two checks that are not atomic:
  if the family passed the second check the grant can only be dead by its credential,
  which the account check sees. For `CustodyKept` an insertion that is no duplicate is
  `Register`, an answer is `HandOut`, and every other step is a stutter.
- `RolloutProofs!TypeCorrect`, `LabelsKeepContent`, `NoReleaseUndone`: types,
  `VersionContentFixed` and `ScriptsKeepReleases`, for any number of operators, scripts,
  labels and sites. The inductive invariant says what a script knows at each of its
  stages (`Holds`): its candidate extends the bundle of the version it was made from,
  its label carries the candidate's hash, and, after the last look, what was live is
  that version's bundle. It stays true while the script waits because what is stored
  never changes (`Kept`), which in turn needs that labels carry hashes.

- `RuntimeSecretProofs!TypeCorrect`, `PasswordIsKept`, `FeaturesAreBacked`,
  `ActivationChangesOneFlag`, `OnlyOldDocumentsLose`. That the current document has the right password is not
  inductive: a script may write back any version it once read. The invariant says that
  versions are only added and all of them carry the password of the first
  (`VersionsGood`), that what a script holds is one of them, and what exists at each of
  its stages (`Knows`). Resources only grow (`Growing`), so a setting that was backed
  once stays so. `ActivationIsExact` rests on Secrets Manager's own comparison: a script
  whose candidate was made from the current version moves the label only while that
  version is current, and candidates of two scripts are never the same (`OwnCandidates`).
  `NothingIsLost` is false (run `secret_settings`); `OnlyOldDocumentsLose` proves the
  extent of it: a setting disappears only in the step in which one of the two configuration
  scripts writes back a document that is no longer the current one.
- `RateLimitsProofs!TypeCorrect`, `BudgetsAreExact`, `CallsStayWithin`: a row has one
  holder and changes only in its holder's hands (`OneHolder`), so what a request has read is
  still the stored row when it commits (`ReadsHold`). Calls need `CallsCounted`: a
  counter expires two windows after the call that made it, a call commits within one
  window of its reading of the clock (`RequestTTL <= CallSeconds`), so a sweep deletes
  no counter that a call still may count in.
- `RateLimitsProofs!OnlySweepsDeadlock`: mails hold only buckets that rank before the
  one they turn to (`InOrder`). In a circle the request that turns to the bucket of
  greatest rank would wait for one that turns to a greater one; there is a greatest
  because threads are finitely many (`WorkerAssumption`). A call that waits for its
  counter holds nothing, so it is in no circle.
- `RateLimitsProofs!ReservationsAreAtomic`: `Spec => ReservedAtOnce`. The commit of
  `Reserve` is `Mail`, as all that was read in nine steps is still so (`ReadsHold`); the
  answer of a call is `Forget` of what it swept; a refusal leaves rows without an
  attempt, which count nothing (`Window`), and every other step is a stutter.
- `RateLimitsProofs!RequestsRunOut`: `Left(w)` bounds the steps a request still has.
  Each step of `w` lowers it and nothing else changes it. This is the part of
  `EveryRequestEnds` that needs no fairness; what TLC adds is that a request that has not
  ended can always do its next step or give up waiting.

Assumptions: `NullAssumption` in each module says that the markers for "not set" and "no
such row" are different from real values, and in `OAuthStore` that a family id is no
secret; `BoundAssumption` relates the constants of time. `RuleAssumption` and
`RankAssumption` of `RateLimits` say what `allow_account_email` lists and how it sorts it
(limits and windows are positive, a mail counts in finitely many budgets, no two of
which have one rank). All of them are evaluated in the runs.

Every safety property of a passing run is proved. Model-checked only: the one liveness
property, `EveryRequestEnds`, since fairness and `ENABLED` are out of the prover's reach.

## 5. Plan

1. Core (done): `OAuthStore` with `GrantFamily`, `Accounts` with `CredentialRow`,
   `Sessions`; the first proofs.
2. `RateLimits` (done).
3. `ArchiveKeys` with `KeyCustody` (done).
4. `RuntimeSecret` (done).
5. `ConnectorPages` and the Connector's set-up in `Sessions` (done).
6. `Rollout` (done), with `RolloutProofs`.
7. Proofs (done) of every safety property of every component, and of the four
   refinements.

## 6. Not modelled

- *Browser clients* (`assets/account.js`, `database-connector-setup/app.js` and smaller
  ones). What a tab sends is in the models as any request at any time with any page
  that has been shown, which is more than these scripts do. Their own state (a CSRF
  token, a `busy` flag, a five-minute token for the set-up service) decides only what is
  displayed; the other end of the set-up page is a service that is not in this
  repository.
- *Human verification* (`abuse.py`) and request validation: they refuse a request and
  change nothing; a refusal is `Abandon`. The contact form (`contact.py`) spends its five
  budgets one `allow_request` after the other and then sends: each is a call of
  `RateLimits`, and they share nothing.
- *Start-up* (`create_app`, the checks of `register_mail_oauth` and
  `register_connector_oauth`): the process starts or does not. What has to be there for
  it to start is `SettingsAreBacked`.
- *InnoDB's gap locks* in `issue_token` and `consume_token`: the manager of locks is the
  database's; a victim of a deadlock is a request that ends (`Abandon`).
- *Host configuration, DNS, infrastructure*: shell commands run once by one person, whose
  state is in AWS and on hosts and read by nothing here.
- *Release tooling*: `update_download_release.mjs` and the `sync_*` scripts rewrite files
  from files; `migrate_account_profile.py` adds a column if it is missing.
- *Pages and presentation*: no state.
