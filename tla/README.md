# Verification of trustyca

trustyca is a multi-tenant certificate authority. This directory holds TLA+ models of the parts
where its correctness depends on concurrency, time or recovery, the TLC runs that check them on
small instances, and TLAPS proofs of the main safety properties for every size. `PROJECT.json`
maps every definition to the lines of code it models, and lists runs, mutants, hazards, findings
and theorems.

## The system

- `wfe` processes serve tenants: login, orgs, the UI, the public certificate information (CIS)
  and a proxy to the CA. `backend` processes hold the keys: they register issuers, sign, revoke,
  publish CRLs and answer OCSP. `aia` endpoints serve certificates, CRLs and OCSP responses.
- All of them share one PostgreSQL database. A backend keeps issuers in a
  per-instance registry cache, an AIA instance keeps OCSP responses, and every server keeps grants
  and projects; a shared cache holds one-time codes and revoked token IDs. Caches are bounded by a TTL and are invalidated on the instance that made a change.
- Two tasks run on every instance of their role: `crl_renewal` publishes CRLs that are due, and
  `cert_status` marks expired certificates and deletes those past the retention.
- On start a backend mirrors its ca-config into the platform rows (bootstrap).

The models make one step of every SQL statement or transaction, and split a statement where
PostgreSQL lets another session in: between `SELECT ... FOR UPDATE` and `COMMIT`, between the two
writes of `PublishCrl` (readers see the committed row, writers of it wait), and between the snapshot of a batch
statement and the moment it holds its rows. Processes interleave freely and
may fail or crash between any two steps.

## Modules

| Module | Models | State and actions |
| --- | --- | --- |
| `CertStatus` | `certificate` and `revoked` tables, sign and revoke handlers, `SignOCSP` reads, `cert_status` task | `status`, `revoked`; one record per revoke request (`rv`), task run (`task`), OCSP lookup (`look`). `RevokeFind/Lock/Commit/Abort` follow `RevokeCertificate` and its transaction, `Expire*`/`Delete*` the batches of `Run`. |
| `CrlPublisher` (extends `CertStatus`) | the `CrlPublisher` type, the `PublishCrls` handler, `crl_renewal` | `issuer` (status, number), `crl`, one record per publisher. `Publish`, `BuildPage`, `StaleCrlNumber`, `RereadIssuer`, `RereadCrl` are the steps of `publish` and `crlEntries`; `SetCrlNumber` and `StoreCrl` the transaction of `PublishCrl`, which holds the issuer row in between (`IssuerLocked`). `base` is history. |
| `CrlLog` | what relying parties may expect of the CRLs of an issuer; `CrlPublisher` implements it | `Record`, `Retire`, `Publish` over `recorded`, `listed`, `number`: no publishers, pages or retries. |
| `IssuerLifecycle` | `RegisterIssuer`, `ImportIssuer`, `ActivateIssuer`, `UpdateIssuer`, `Keys` | one issuer `row`, the keys of the `provider`, one record per request. |
| `Registry` (extends `IssuerLifecycle`) | `internal/ca.Registry` of one instance | `label` and `entry` caches with expiry, lookups by label (sign) and by key identifier (OCSP), invalidation in two steps. |
| `OcspCache` (extends `CertStatus`) | OCSP handlers and response cache of an AIA instance | `aia` handlers, `cache`; `ended` records when the tables stopped holding each answer. |
| `Bootstrap` | `Registry.Bootstrap` on several instances | issuer rows, anchors, profiles, one record per instance, with the profiles its registry caches. `LoadFind` and `LoadBuild` are the last loop, which builds every enabled issuer: the delegated OCSP profile of its settings must exist and bind to it (`profileBinds`). `overwritten` is history. |
| `PathLength` | `checkPathLength`, `pathLenConstraint` | the loop over the ancestors of a parent; the inputs are chosen in the initial state. |
| `PathValidation` (extends `PathLength`) | no code: the path validation of RFC 5280 that `checkPathLength` must agree with | `Up`, `MaxPathLength` as recursive functions of the inputs. |
| `Membership` | member, invite and org handlers, `CheckAccess`, the grants cache of each authorizer, invites accepted at login | `grants` and `invites` rows of one org, `cache` per instance and user, one record per request (`req`) and login. A handler is its reads, its checks, its statement and its invalidation, in that order; `held` and the `raced` flag are history. |
| `Session` | `AuthorizeHandler`, `CallbackHandler`, `ExchangeCode`, `SelectOrg`, `RevokeToken`, the snapshot of revoked IDs | `otc` and `revoked` in the shared cache, a `snapshot` per instance, the `tokens` of clients. `ExchangeGet/Delete/Verify` are the steps of `ExchangeCode`. `loginAt`, `signedOut` and `answered` are history. |
| `ProjectAccess` | the project cache of each authorizer, `CheckAccess` for users and API keys, project and API key handlers, the sign-in of a key | `active` projects, `keys`, `cache` per server, `keyTokens`, one record per call. `ProjectHit`, `ProjectRead`, `ProjectFill` are `getProject`; `UseAPIKey`, `KeyProject`, `SignToken` the sign-in. `closedAt`, `keyEnd` and `settled` are history. |
| `Listing` | `pageBy`, `listRows`, the cursors, `tenantScope` of the backend | the rows of a `table`, the `cursor` or `offset` of one list, its caller. `NextPage` is one call of a list; the other actions change rows, grants or projects between two pages. `InScope` is the filter of the list, `Readable` the check of a row. |

`MC*` modules give the constants of a run. `MCOrg` and `MCAccess` put parts that share no state into
one run: a behaviour is one of one part, while the others stay as they start. `*Proofs` modules hold the theorems.

## Runs

| Run | What it checks |
| --- | --- |
| `cert_status` | A certificate is Revoked exactly when it has a revocation; a revocation in progress owns its row; a revocation is undone only by the retention; `SignOCSP` misses a revocation only when the retention deleted it between its two reads; every expired certificate is marked, every retired one deleted. |
| `crl_publisher` | CRL numbers are consecutive, also when a publisher fails between the number and the CRL; a CRL lists what was on record when its predecessor was stored; entries are revocations of valid certificates; no needless CRL; a CRL stays within its issuer; the stored CRLs are a behaviour of `CrlLog`. |
| `crl_publisher_live` | A CRL that is due is renewed once its issuer, which may move between Active and Archived, has come to rest in one of them. |
| `org` | Issuer: the certificate is set once and is for the key of the row; no way back to Active; a destroyed wrapped key is gone; an issuer that signs has its key. Path length: `checkPathLength` accepts exactly what path validation would accept. Lists: a cursor list shows every row that stays exactly once and none twice; its filter agrees with the check of single rows. |
| `issuer_lifecycle_order` (violation) | The lifecycle order the comments promise. |
| `registry` | A built issuer is replaced only by a newer one; an archived issuer signs for at most one TTL, a destroyed one answers with its wrapped key for at most two. |
| `registry_ttl` (violation) | The TTL as the staleness bound the comments promise. |
| `ocsp_cache` | Every OCSP answer is at most the OCSP expiry and one call to the CA older than the tables. |
| `bootstrap` | Instances of one configuration do not make each other fail: a start of a consistent configuration fails only when an instance of another version wrote a row or a profile during it; roots have their anchor, issuers their parent; after a roll-out the rows are what the new configuration says; all starts end. |
| `membership` | A role is granted, at once or through an invite, only for a user who held the right to grant it; an accepted invite gives the role it has at that moment and is used up; the last Owner is lost only to a race. |
| `membership_owner` (violation) | The last Owner is never removed or demoted. |
| `access` | Sessions: a sign-out ends every token of its session, at once on its instance and within the snapshot TTL on the others; switching the org never prolongs a session; a one-time code that a call has answered is gone. Projects and API keys: a deactivated project admits no call that begins `CacheTTL + CallTime` later, and none on the server that dropped it; an ended key gets no call in `KeyTokenTTL + CallTime` later. |

### Bounds

- Two certificates, a batch of one row and a page of one entry make every loop go around, and let
  a revocation become visible before and after the page it belongs to. Two publishers make every
  number race; two attempts are the code's. In
  `crl_publisher_live` the issuer takes every status; without the condition that its moves end `DueIsRenewed` fails,
  since a run lists Active before Archived and an issuer that always moves the other way is in neither list. Two revoke requests are enough to fight over a row.
- The clock is bounded by `MaxTime`, chosen past every expiry, retention and TTL of the run;
  CRL numbers by `MaxNumber`, database timestamps by `MaxStamp` (two are enough to tell an older
  row from a newer one; equal stamps happen), starts of an instance by `MaxStarts` (one with
  each version and one after a crash).
- `org` enumerates every bundle of three certificates, every issuer relation (cycles and
  missing issuers included) and every constraint from none to 3.
- `membership` has two users, a project, two requests at a time and three in all (`MaxStarts`: one to
  make a second Owner, two to race), one login at a time and one invite ID; roles granted are Owner
  and Admin, the two that matter to what may be granted. One instance is enough for stale grants,
  since a load that is overtaken by an invalidation caches them. `membership_owner` needs no invite.
- The lists of `org` have three rows of two projects, pages of one row, every caller, every initial
  table and one change at any point; that makes a list end before, at and after a page boundary.
  The issuer has a wrapped and a provider key, and two requests that race.
- `registry` has one request and two lookups, a wrapped and a provider key, and time for two TTLs. The
  bound of two TTLs is about the wrapped key: a provider may fail to destroy its key, which then works on.
- `access` has two instances and two concurrent calls, one login, one project and one key. `CallTime`
  is an assumption on the environment: the code sets no deadline of its own on these calls, so the
  bounds are stated in the time a call may take between what it reads and what it does with it.
- Symmetry is used only where the run has no liveness property.
- `CHECK_DEADLOCK FALSE` is set for `bootstrap`, `org` and `access`: a start, a walk, a list and a
  bounded number of calls end.

### Fairness

- The scheduler starts a task again and again (`tasks.Scheduler`), so `TaskStart` and `StartRun`
  are weakly fair, as is time. Statements of a task are strongly fair: a database that refuses a
  statement does not do so forever, although any run may fail.
- A revoke transaction commits or is rolled back (weak fairness); nothing forces a client to ask.
- A supervisor starts a stopped instance, and a start that runs goes on (`FairBootSpec`).

## Findings

- `UpdateIssuer` checks the transition on a row it read before the `UPDATE`, which has no
  condition on the status. A slow Active -> Archived request writes Archived over Destroyed
  (`LifecycleOrder`). The key of the row stays gone (`DestroyedForGood`) and the issuer never
  signs again (`NeverReactivated`).
- A built issuer lives a TTL from its build, also when it was built from a label cached nearly a
  TTL before, so the staleness bound is two TTLs for answers (`AnswersWithinTTL`,
  `AnswersWithinTwoTTL`).
- `checkLastOwner` counts the Owners in a query of its own. A demotion that counted two Owners
  commits after another request has demoted the second one (`LastOwnerKept`). `OwnerlessOnlyByRace`
  states what remains: it takes a write of the owners after the request has read the member, or an
  invite accepted over the grant of the Owner.

## Proofs

`CertStatusProofs` proves the invariants and the action property of `CertStatus` for any set of
certificates, requests, tasks and lookups, from `CertStatusAssumption` alone. The inductive
invariant `CertInv` joins the type invariant, `StatusMatchesRevocation` and `RevocationOwnsRow`,
with facts about what is in flight: a batch selected for deletion holds only rows past the
retention, times of task runs are not in the future, and a lookup that saw Revoked has a
certificate that is Revoked or was deleted by the retention. Without them `RevocationIsFinal` is
not inductive, since `DeleteApply` acts on a batch that was selected in an earlier step.

`CrlPublisherProofs` proves the invariants and action properties of `CrlPublisher`. Its invariant
`CrlInv` adds to `CertInv` what a publisher knows: a number it read is not above the issuer's; when
it is equal, the CRL is the one it read and has not changed since, so every revocation in `base`
that is still valid at the publisher's time is in its entries or below its cursor. This is what
makes the compare-and-set on the number enough for `CrlCatchesUp`. Between the two writes of its transaction a
publisher is alone and its number is still the committed one (`RowHeld`), and a number without its CRL is never
committed (`NumberMatchesCrl`): so a failure at that point leaves no gap.

`MembershipProofs` proves the invariants and action properties of `Membership`, from
`MembershipAssumption` alone. Its invariant `MemberInv` says of every cached or loaded view that its
grants were in the table at some time; this needs the history variable `held`, since the table itself
may have changed, and it is what `GrantedByHolder` can promise of checks on cached grants. A view of
grants passes `checkGrantable` only with an Owner or Admin among them, provided that no project ever
had an Owner (`ProjectsFit`). For the last Owner the invariant follows a request from `findMember` to
its write (`ReqKeeps`): while no other write changes the owners, what it read is right, and if it
is about to write over an Owner there is another one. `raced` marks the requests for which this is lost.

`CrlPublisherProofs` also proves that `CrlPublisher` implements `CrlLog` (`CrlLogRefined`). The mapping
reads `recorded`, `retired`, `number` and `listed` off the tables; the step that stores a CRL is
`Publish`, whose first condition is what `CrlInv` says of a publisher with the current number.

`CertStatusProofs` also proves `AnswerWasTrue` of `OcspCache`, for any OCSP expiry and call deadline. The
tables change under a handler and under the cache, so `OcspInv` speaks of the past: `Held(c, a, t)` says
that the tables held answer `a` at time `t` or later, which no step can undo (`HeldStays`). A handler that
waits for the CA is within its deadline and has an answer that held since its request came (`HandlerInv`);
a cached response held `Staleness` before its `NextUpdate` (`CacheInv`). The second read of `SignOCSP`
need not see the tables of the first: it can only turn the answer into an error.

`IssuerProofs` proves the properties of `IssuerLifecycle` for any set of requests and keys. Its
invariant `LifeInv` says what a request in progress may rely on although its row was read earlier
(`RequestOK`): a request about to activate has a certificate for the key of the row, one about to archive
or destroy found a row that can never be Pending again. Statuses only move `Forward`, except that
Archived and Destroyed may overwrite each other, as the findings say.

Its second part is about `Registry`. `RegistryInv` bounds every copy of a row by the time the row stopped being
like it: a label by one TTL, a built issuer by two, since it may come from a label at the end of its
life (`LabelOK`, `EntryOK`, `LookupOK`), and it says that one lookup builds at a time, from a newer row
(`BuildOK`), without which `EntryMovesForward` fails.

`BootstrapProofs` proves the three invariants of `Bootstrap` for any ca-config, number of instances,
versions, starts and crashes. `BootInv` says where each start is in its configuration (`Placed`), and that
what it has passed is in the tables (`Done`). `StoredWhole` needs `Done`, since the parent of an issuer may be the
row of another instance; it is about issuers whose parent comes before them in the file and is enabled with them
(`ParentFirst`), because the code looks the parent up once, at registration. `FailsOnlyWhenOverwritten` is about
versions whose own profiles fit their own settings (`Consistent`); no relation between versions is assumed. As long
as no other version has written during a start, the rows and profiles it has passed are its own (`Fresh`), and so is
what it reads back when it builds the issuers, from the table or from its cache (`Loads`); `Undisturbed` joins the
two. `Settled` does not follow from facts
about each instance: while versions mix, any start can be undone by another. `RolledOut` says that once
all instances have one version, *some* start has seen only what instances of that version changed since
(`Fresh`). That is the last one to move, and it stays so, because a step of an instance of that version
never takes a row away from what the version says (`Improves`).

`SessionProofs` proves the properties of `Session`. `SessionInv` ties each token, also one that waits
under a code, to the ID and the expiry of its login, and says of a snapshot that misses a revoked ID that
it was read before the sign-out. For `AnsweredCodeIsGone` the invariant must follow a call between its delete and
its comparison, and say that codes are never used again (`CodesInv`).

`ProjectAccessProofs` proves the properties of `ProjectAccess`. `ProjectInv` follows a value that was
read before a change: a lookup that read an active row began before the project was closed, so what it
caches ends `CallTime + CacheTTL` after that; a sign-in that passed began before the end of its key.

`OrgProofs` proves the properties of `Listing` for any table, page size and number of changes. In
`ListingInv` a row that was there all along was shown or is past the cursor, a shown row is not past it,
and, for lists by offset without changes, the rows shown are those with a rank below the offset. The
lemmas on ranks rest on the theorems about finite sets.

Its second part proves `AgreesWithValidation` for bundles of any size. The reference is recursive; since a
set of numbers has a least member (`Least`), a least counterexample shows that `Up` and `MaxPathLength` are
functions that follow their recursion (`UpIsChain`, `MaxPathLengthUnfolds`) and that validation accepts
exactly when every constrained ancestor leaves room for its distance and the CAs to follow
(`ValidationAdmits`). The loop of `checkPathLength` keeps the smallest room so far (`Tightest` in `PathInv`),
which decides the same. Where the issuers form a loop validation says nothing; there `WalkEndsCorrect`
shows that the walk ends.

Every proof uses the assumptions on the constants of its module and nothing else. The type invariants
are part of these inductive invariants, and are proved rather than listed with the runs. So is
`ScopeRoles` (a project has project roles only) of `Membership`.

Left to TLC are the four properties under fairness, which TLAPS does not reach: `ExpiredIsMarked`,
`RetiredIsDeleted`, `DueIsRenewed` and `BootstrapsFinish`. Every other property of a passing run is proved.
The recursive functions of the models are proved about by least counterexamples, as above; no theorem
rests on an induction rule with an operator parameter.

## Not modelled

- The construction and parsing of certificates, CSRs, CRLs and OCSP messages, and the signatures of
  API key requests and tokens: cryptography, where a model would only restate the library call.
- The exchange with the identity provider: a login appears as its result, a user who is known.
- Tenant profiles and trust anchors: each handler is one statement on one row. The profile cache of the
  registry follows the same pattern as the label cache, which is modelled.
- The table that gives each method its role and scope: data, not behaviour. Calls that pass it
  are what the models of access start from.
- The CA proxy, CIS, UI and status services: they forward and render, without state of their own.
- Events, metrics, logging, configuration, command line and generated code: no concurrent state.
  Most of the lines of the repository are here.
