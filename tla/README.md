# A TLA+ model of go-basicauth

go-basicauth is a Go library that adds password login, cookie sessions and a
TOTP second factor to a Gin server. These modules model what it decides and
remembers, the TLC configurations check them on small instances, and the proof
modules prove the safety properties for every instance.

## 1. The system

| component | state it keeps | operations | interacts with |
|---|---|---|---|
| Storage contract (`storage_interface.go`, `types.go`) | stored users: profile, password hash, security state | create, three lookups, `UpdateUser`, delete, five narrow security operations | called by every handler, by the application, by other replicas |
| `MemoryStorage` (`storage_memory.go`) | three maps to shared structs, one lock | the same | callers hold pointers it returned |
| Login and legacy upgrade (`handler.go`, `legacy_bcrypt.go`) | what one request has read | `handleLogin`, `verifyLoginPassword`, `upgradePasswordHash`, `createSession`, `createPendingTFASession` | storage; session |
| Second factor (`handler_tfa.go`) | what one request has read | setup, enable, disable, verify | storage; session; codes |
| Sessions (`handler.go`, gorilla/sessions) | nothing on the server: four values in a signed, encrypted cookie | save, `endPendingTFA`, logout | every handler; the browser, which keeps copies |
| Codes (`tfa.go`) | none | TOTP key and check, backup codes: draw and match | second factor |
| Password hashing (`util.go`) | none | `HashPassword`, `VerifyPassword`, `decodeParams` | login, enable, disable, backup codes |
| Registration (`handler.go`) | what one request has read | `handleRegister` | storage; session |
| Access rules (`handler.go`) | configuration | `RequireAuth`, `findLongestMatchingRule`, `ruleMatches` | every request |
| Validation (`validation.go`) | none | three checks of one string | registration |
| Configuration (`NewHandler`, `RegisterRoutes`) | ages, routes and parameters derived from the settings | run once | sessions, access rules, hashing |
| Request context (`context.go`) | the user of one request | set by `RequireAuth`, read by the handlers | access rules |

What is hard here:

- **Concurrency.** Each request is a goroutine and there may be several
  replicas. A handler makes two to four storage calls and decides on values it
  read before the last of them. Only single storage calls are atomic.
- **Stale copies.** `UpdateUser` takes a whole `User` read earlier; cookies
  carry decisions of earlier requests, may be replayed at any time, and keep
  values of another user who used the same browser.
- **Partial failure.** A storage call or the session save may fail after an
  earlier step of the same handler took effect.
- **Time.** A pending challenge expires by a signed time, while the cookie that
  carries it lives on.
- **Aliasing.** `MemoryStorage` keeps three maps that must lead to one struct,
  and hands users out by pointer.

What makes each component correct:

- *Second factor*: the attempt budget holds over all cookies, requests and
  replicas; a backup code works at most once; an enrolled user's session is only
  issued after a second factor.
- *Login*: a verified login is never denied by its hash upgrade; an upgrade does
  not undo a reset or the security state.
- *MemoryStorage*: behaves like a table of values, whatever callers do to the
  structs they hold; its maps agree.
- *Registration*: one account per name under races; whoever was registered is
  found by each of their names.
- *Access rules*: the longest rule decides; the authentication routes are open or
  closed whatever the rules; enforced enrolment leaves a way to enrol.
- *Hashing*: argon2 runs on what the stored string says, within the limits; a
  right password is never denied, nor a native hash offered to the legacy
  verifier.
- *Codes*: every code shown works, in any spelling, once; a TOTP code works for
  the configured tolerance and no longer.
- *Sessions*: cookies expire, browser and server agree when, and a logout ends a
  challenge.

PROJECT.json lists the hazards with their lines and the properties that catch
them, or the reason why no property of a listed run does.

## 2. Modules

| module | models | proved in |
|---|---|---|
| `Storage` | what each storage call does to one account | |
| `TwoFactor` | abstract: who may sign in, and what becomes of backup codes | |
| `AuthServer` | all login and second-factor handlers, concurrent, over `Storage`; implements `TwoFactor` | `AuthServerProofs` |
| `MCAuthServer` | instances of `AuthServer` | |
| `UserRecords` | users with names, replies | |
| `UserTable` | abstract: what `storage_interface.go` promises of a whole user table | |
| `UserStore` | `MemoryStorage` on a heap of structs; implements `UserTable` | `UserStoreProofs` |
| `Registration` | `handleRegister`, concurrent, over the records of `UserRecords`; `getUserByIdentifier`; `validation.go` | `RegistrationProofs` |
| `Access` | `RequireAuth` and its rules, beside the router's view of the routes | `AccessProofs` |
| `PasswordHash` | a stored hash over restarts, `VerifyPassword`, `decodeParams`, the legacy verifier | `PasswordHashProofs` |
| `BackupCodes` | drawing, normalising, matching and spending codes as text | `BackupCodesProofs` |
| `Sessions` | one browser's cookies in time: signing, ages, logout, overlapping requests | `SessionsProofs` |
| `TOTP` | keys, periods and clocks of time-based codes | `TOTPProofs` |
| `MCRegistration`, `MCAccess`, `MCPasswordHash`, `MCBackupCodes`, `MCSessions`, `MCTOTP` | instances of these | |

`AuthServer` and `UserTable` use the same operators of `Storage` for one
account, so the store that `UserStore` is proved to implement is, account by
account, the one the handlers run against. The other modules take up one part of
the system each where `AuthServer` abstracts it: what a login is checked against
(`PasswordHash`), what codes are (`BackupCodes`, `TOTP`), how long a cookie lives
and what happens to it on the way (`Sessions`), who gets to a handler at all
(`Access`), and where accounts come from (`Registration`).

### AuthServer and the code

A handler is a sequence of steps with one storage call each; computation between
two calls is folded into one of them. `req[r]` is what the handler's goroutine
remembers, its `pc` the place between two calls.

| steps | code |
|---|---|
| `LoginRead` → `UpgradeRead` → `UpgradeWrite` → `LoginIssueSession` or `LoginIssuePending` | `handleLogin`, `verifyLoginPassword`, `upgradePasswordHash`, `createSession`, `createPendingTFASession` |
| `VerifyBegin` (or `VerifyExpired`) → `VerifyRead` → `VerifyReserve` (or `VerifyExhausted`) → `VerifyTOTP`, `VerifyBackupMatch` or `VerifyWrong` → `VerifyConsume` (or `VerifyConsumeLost`) → `VerifyReset` | `handleTFAVerify` |
| `Setup` | `handleTFASetup` (no storage call after the user was read) |
| `EnableRead` → `EnableSet` | `handleTFAEnable` |
| `DisableRead` → `DisableClear` | `handleTFADisable` |
| `UpgradeFails`, `CallFails` | an error from any storage call; inside the upgrade it is ignored, elsewhere it ends the request |
| `ResetPassword`, `DeleteUser` | the application calling `Storage` beside the handlers |
| `Tick` | time passing |

`acct` and `live` are the stored users. `cookies` holds every session value ever
signed: a client may send any of them, so lost and late responses, several tabs,
replays and logging out (which changes nothing on the server) need no action of
their own. A cookie beyond the codec's age limit is read as an empty session,
which `cookies` always contains.

The variables from `owner` on are history, read by no handler. A *fresh budget*
is a reset of the counter (password login, accepted code, enabling, disabling);
`tries` counts the codes checked against reservations of the current budget. A
request that reserved an attempt in an earlier budget and checks its code later
used that earlier budget, so it is in `held` only until the renewal. `raced` and
`doubled` remember whom one of two races the code leaves open has met: a reset
just before an upgrade's write, two enables under way at once.

`TwoFactor` leaves handlers, cookies and storage calls out: a code is spent in
one step with the clearance it buys, codes leave the storage by being spent or
by enrolment alone, and a clearance signs in its own user at most once. Under
`Factor` (for `EnableTFA`) a request is cleared while it stands before
`VerifyReset`, the spent codes are those with a count in `uses`, the sessions are
the users of the signed cookies, and `everOff` is who could sign in by password.
Its `Spend` is thus `VerifyConsume`, the storage call and not the match before
it; logins, upgrades, reservations and resets of the password are stutters or
`SignInByPassword`.

Abstractions, none of which a property could tell from the code:

- a hash is its kind (a native argon2id string, or any other) and its password; a
  request remembers the password typed, which is what an upgrade hashes. bcrypt
  compares the first 72 bytes, `Truncated`, and `HashPassword` refuses more:
  `LongPasswords`. So a longer imported password and its first 72 bytes both log
  in, and only the latter upgrades;
  a backup code and its salted hash are one value, distinct between draws;
- `secret # None` stands for `TOTPEnabled` and `TOTPSecret`, which `SetTOTP` and
  `ClearTOTP` change together;
- `RequireAuth`'s lookup is one step with the handler behind it, as no other
  storage call lies between its read and the first thing the handler does with it;
- a request with invalid input or refused before any change stays idle;
- presenting a TOTP code of a secret succeeds; its time window is in `TOTP`.

### UserStore and the code

`heap` maps addresses to structs, `users` and `index` are `MemoryStorage`'s maps,
`hand` is the pointer an application or handler holds, and `Rename`/`Rehash` write
through it. `cloneUser` is the copy in `GiveClone`, `CreateUser` and
`UpdateProfile`. Cells nothing points to are cleared, as the garbage collector
would. All methods hold the mutex throughout, so each is one step.

### Registration and the code

`Begin` is everything before the first lookup, `FindUsername` and `FindEmail` the
two lookups, `HashFails`, `Create` and `CreateFails` the hash and `CreateUser`,
`SaveSession` the rest. A lookup that errs for any reason goes on, as the code
only looks at `err == nil`. `CreateUser` may also succeed while its answer is
lost. `Identified` is `getUserByIdentifier`: the accounts its lookup may return.
Names are values with a length and kinds of characters.

### Access and the code

One request at a time goes through the middleware, step by step: `Receive` (the
two lists of authentication routes), `TryRule` per round of the loop in
`findLongestMatchingRule`, `Decide`, `LoadUser` or `LoadFails`
(`getUserFromSession` and the demand to enrol), `Serve` (the router and its
handler's own check of the user). `AccountChanges` may come between any two.
`Hardcoded` is how the middleware spells a route, `Mounted` how the router does.

### PasswordHash and the code

`stored` is the column in the database, `params` the settings of the running
server, `v` one login. `Begin`, `ReadItem`, `EndItems`, `CheckLimits` and
`Compare` are `VerifyPassword` with `decodeParams`; any error leads to `"legacy"`,
where `LegacyRejects` and `LegacyAccepts` are `verifyLoginPassword`'s second half
with `upgradePasswordHash` (in one step; what may come between its read and its
write is in `AuthServer`). The legacy verifier is `BcryptVerifier`, which compares
the first 72 bytes (`Truncated`) of what was typed with those of the password that
was imported. `Restart` is the server coming back with other settings. Argon2
gives the stored key exactly for the password and the costs it was made with.
`password` and `v.right` are history: the password last set or imported, and
whether that is what was typed. A hash that a login has replaced is thus still
measured by what the user believes the password to be.

### BackupCodes and the code

A code is a sequence of characters with a lower case and perhaps a space among
them. `Enable` draws with `generateBackupCodes`, `Submit` runs
`findBackupCodeMatch` on a read user, `Consume` and `Refused` are the two ends of
`ConsumeBackupCode`. Each hash is salted, so it is its place in its enrolment.

### Sessions and the code

The handlers that sign a cookie are one action each, from reading the cookie to
`Set-Cookie`; the network around them is `Send`, `Deliver` and `Lost`. The clock
ticks a fraction of a second, since the code cuts durations to whole seconds.
`Drop`, `LoginMaxAge` and `CodecMaxAge` are the ages the code passes on.
`cancelled`, `loose` and `revived` are history: the challenges whose logout reached
the browser, those of them that something else carried at that moment, and those
that were finished afterwards.

### TOTP and the code

`Setup`, `Enable`, `Verify` and `Disable` are the handlers as far as keys and
codes go; `Scan` and `Read` are the user with the phone, whose clock is `drift`
off. A code is the number of the period it was made in, which `InStep` compares
with the server's as `totp.ValidateCustom` does.

## 3. Runs

| run | instance | checks |
|---|---|---|
| `legacy` | 1 user on a legacy or native hash, enrolled or not, or with an imported password over 72 bytes, 2 requests, limit 2, one backup code, challenges expire; login, verify, reset | type, budget, one use per code, second factor, resets, what changes a password |
| `reenrol` | 1 user not enrolled yet, 2 requests, login, verify, setup, enable, disable, two backup codes | promised backup codes work; implements `TwoFactor` |
| `live` | 1 legacy user, 2 requests, login, verify, reset, delete, fair | every request ends; verified logins go on; implements `TwoFactor` |
| `store_names` | 2 users, two spellings of a name, one e-mail address, 4 addresses | maps agree; implements `UserTable` |
| `store_security` | 2 users, all narrow operations, 4 addresses | implements `UserTable` with all of the security state |
| `registration` | 2 requests, one username in two letter cases, one e-mail address, 3 passwords, every choice of login methods | unique names, accounts found |
| `access_rules` | every list of two rules behind one public path or none, over five paths of rules; enforced mode on and off | the longest rule, the fixed routes, enforced mode |
| `password_decode` | every list of three items at and around the limits, frames of every kind, imported passwords of 11, 72 and 73 bytes, the second the first 72 of the third, 3 sound parameters, words of 18 bits | decoding, right passwords, native hashes |
| `backup_codes` | 3 requests, 3 codes of 2 letters, an alphabet in mixed case, 2 enrolments | every code once, every spelling |
| `sessions_time` | 2 requests, 2 ticks a second, 2.5 s of session, 1.5 s of challenge, copies | cookies expire, browser and server agree, what a logout ends |
| `totp_windows` | periods of 2 and 3 ticks, 0 to 2 windows, 5 drifts, 2 keys | tolerance, replays, confirmation |
| `own_secret` | 2 users, 2 requests share a browser | violated: a user enrols with a secret drawn for them |

Each run answers a question of its own. The other configurations here are larger
or differently shaped instances of the same properties, run by hand with
`tlc -config X.cfg M`; all of the first table pass, those of the second show the
disagreements below.

| configuration | module | instance and outcome |
|---|---|---|
| `AuthServer_verify.cfg` | `MCAuthServer` | 3 requests verifying codes of one user, limit 2, two backup codes: passes |
| `AuthServer_switch.cfg` | `MCAuthServer` | an enrolled and an unenrolled user of one browser: passes |
| `AuthServer_enrol.cfg` | `MCAuthServer` | disable, set up and enable again, 2 requests: passes |
| `AuthServer_sequential.cfg` | `MCAuthServer` | one request at a time, two secrets: `PromisedCodesAlwaysWork` passes |
| `Sessions_one.cfg` | `MCSessions` | one request at a time, no copies: `LogoutAlwaysCancels` passes |
| `Sessions_two.cfg` | `MCSessions` | two requests at a time, no copies, overlaps up to a later time: `LogoutCancels` passes |

| configuration | module | violated property |
|---|---|---|
| `Find_double_enable.cfg` | `MCAuthServer` | `PromisedCodesAlwaysWork` |
| `Find_reset_lost.cfg` | `MCAuthServer` | `ResetAlwaysSticks` |
| `Find_long_password.cfg` | `MCAuthServer` | `CurrentPasswordReverifies` |
| `Find_duplicate_500.cfg` | `MCRegistration` | `DuplicateIsConflict` |
| `Find_empty_path.cfg` | `MCAccess` | `OnlyMatchDecides` |
| `Find_trailing_slash.cfg` | `MCAccess` | `AlwaysPublic` |
| `Find_weak_params.cfg` | `MCPasswordHash` | `PasswordKept` |
| `Find_prefix_login.cfg` | `MCPasswordHash` | `PasswordAlwaysKept` |
| `Find_equal_codes.cfg` | `MCBackupCodes` | `EachCodeOnce` |
| `Find_space_codes.cfg` | `MCBackupCodes` | `IssuedCodesMatch` |
| `Find_logout_race.cfg` | `MCSessions` | `LogoutAlwaysCancels` |
| `Find_short_session.cfg` | `MCSessions` | `CookiesExpire` |

What they show:

- `BudgetHolds`: at most `MaxVerifyAttempts` codes are checked on attempts reserved
  between two fresh budgets, whatever races or is replayed.
- `BackupCodeOnce`: two requests never both pass with one code.
- `NoSessionWithoutSecondFactor`: a user enrolled throughout has a session only
  after a stored factor was presented.
- `ResetSticks`: a reset is not undone by a login that verified the old hash,
  outside the window the code's comment admits.
- `PasswordOnlyByReset`: step by step and outside the same window, a stored hash is
  replaced by a reset, or by a native hash of the same password or, where bcrypt
  compared no more, of its first 72 bytes.
- `PromisedCodesWork`: a code shown works until it is used or dropped, unless two
  enables of its user meet (`double_enable`, below).
- `ImplementsTwoFactor`: seen from outside, the handlers' interleaved steps are
  those of one atomic second factor; a stale copy written back, or codes that
  survive a disable, are not.
- `VerifiedLoginContinues`, `RequestsFinish`: no handler waits for another.
- `IndexConsistent`, `Implements`: the maps agree, and the pointer-level store is
  the value-level table.
- `UniqueNames`, `RegisteredIsFound`: the storage's own check carries all the
  weight; the accounts of failed registrations can log in.
- `LongestRuleDecides`, `AlwaysPublic`, `AlwaysProtected`, `EnforcedMode`: the
  order of the rules matters only among equally long ones, and no rule or mode
  reaches the authentication routes, for base URLs the router leaves alone.
- `ArgonAsWritten`, `NativeNeverLegacy`, `PasswordKept`: a repeated, missing,
  oversized or truncated item never gets to argon2, and changed parameters deny
  nobody while they stay within the limits; nor does a login that the change of
  the password overtakes. Who is denied with the right password is the user of an
  imported password over 72 bytes after somebody typed the first 72
  (`prefix_login`, below).
- `CodesAccountedFor`, `IssuedCodesMatch`: a hash is stored exactly until it has
  let one request in, and its code matches until then.
- `CookiesExpire`, `KeptWhileUseful`, `LogoutCancels`: rounding costs less than a
  second; the short age of a pending session does not stick to the login; a logout
  ends the challenge unless a copy or another request under way carries it on.
- `SkewHonoured`, `ReplayWindow`, `ConfirmedByPhone`: codes work for the
  tolerance, all uses of one lie in `2 * SkewWindows + 1` periods, and a
  confirmed key is on the phone.

**Disagreements with the documentation** (`own_secret` is a run, the others are
the `Find_` configurations of the same name):

- `own_secret`: the pending secret stays in the session when another user logs in
  with the same browser, so `/tfa/enable` succeeds for a user who never called
  `/tfa/setup`, with a secret drawn for the other.
- `double_enable`: `/tfa/enable` checks enrolment on an earlier read; two of them
  both succeed and the codes shown by the first are dead.
- `reset_lost`: the README says an upgrade is skipped after a concurrent reset;
  between the second read and the write it is not (a comment in the code admits
  it).
- `long_password`: a user left on a legacy hash can log in, but not enable or
  disable the second factor, where only native hashes are accepted.
- `prefix_login`: the README and the comment on `upgradePasswordHash` say that a user
  whose imported password exceeds 72 bytes is left on bcrypt and not re-hashed "to
  an argon2id form that would reject the user's full password next time". That
  holds for a login with the full password. A login with just its first 72 bytes
  succeeds too, is re-hashed, and from then on the full password is denied.
- `duplicate_500`: the second of two racing registrations of one name is answered
  500, not 409 `user_exists`.
- `empty_path`: a matching prefix rule with an empty path decides nothing.
- `trailing_slash`: with the base URL `/auth/` the public routes ask for a session.
- `weak_params`: `HashingParams` below the verifier's minimum are accepted and lock
  out everyone hashed with them.
- `equal_codes`: two equal codes of one enrolment work twice.
- `space_codes`: codes that begin or end with a space of the alphabet never match.
- `logout_race`: a verification already sent outlives the logout.
- `short_session`: a `SessionExpiration` below a second switches the codec's age
  check off.

**Bounds.** Two or three requests are enough for every race of a read, a call of
another request and a write; a limit of two has a first, a last and a refused
attempt. `MaxTime` bounds the clock, `Secrets` and `Codes` how often a user
enrols: fresh values are used up, a secret in a cookie may be enrolled with again,
so the two codes of `reenrol` give two enrolments with a disable between. `legacy`
allows one clock tick so that a challenge can expire with its budget open. Four
heap addresses hold two stored structs, the caller's and a new one. Request slots
and addresses are symmetric; `live` uses no symmetry.

Two registrations are all a race for a name needs; the two spellings of one
username collide only if letter case is ignored. In `sessions_time` the
two requests overlap up to `OverlapTime`, when a challenge opened at the start has
just expired, and while no copy has been taken; otherwise they come one at a time
(`Bounded`, for the sake of the run's time; `Cancels` is proved for overlaps with
copies at any time). Rules are compared in pairs and
scanned in a list, so a public path and two rules have every order of a longer, an
equal and a shorter one. The limits of `password_decode` are those of the code;
the words are of 18 bits, the least in which a value can wrap into them. Three
codes of two letters from two: equal codes and all case variants occur. `MaxTime`
in `sessions_time` is past both ages and their rounding; in `totp_windows` it lets
a code be used in its first and its last window. `MaxChallenges`, `MaxSetups` and
`MaxEnrolments` bound repetitions.

Deadlock is checked except in `live`, which stops once the user is deleted.

**Fairness.** `FairSpec` assumes, for each request, weak fairness of its next
step: `net/http` runs it in a goroutine the scheduler does not starve, and no
handler takes a lock across a call. A storage call returns, with a result or, if
the user is gone, with "not found". Errors injected at will, new requests, resets
and time are not fair: they may never come.

## 4. Proofs

`AuthServerProofs` proves, for all users, request slots, passwords, codes and
limits and every initial table (`ServerConstants`, `InitialTablesAssumption`,
`StorageConstants`):

| theorem | inductive invariant, and why the property is not inductive alone |
|---|---|
| `TypeCorrect` | a request past its first step names a user, and past its read holds a snapshot |
| `Budget` | `BudgetInv`: codes checked plus reservations held never exceed the stored counter, which never exceeds the limit. A code is checked after the reservation, so the reservations must be counted |
| `CodesOnce` | `CodesInv`: a stored or freshly drawn code is unused, and no two users or requests own one code. Enabling stores codes drawn earlier, so the codes in flight must be covered |
| `SecondFactor` | `FactorInv`: each request about to sign a login, for a user enrolled throughout, either will be challenged or follows a presented factor; sessions already signed keep it |
| `FactorRefined` | none of its own: from `CodesInv` (codes about to be stored are new to every user) and `FactorInv` (a login about to be signed without a challenge is of a user who was unenrolled once), each step is a step of `TwoFactor` or leaves it unchanged |
| `ResetsStick` | `ResetInv`: a request about to write an upgrade found the hash it verified, so a user it is about to overwrite was reset in its window |
| `PasswordsStay` (an action property) | `WritesVerified`: the password an upgrade is about to hash is what bcrypt compared of the password still stored, unless the user was reset in its window. So it is the whole of it, or the first 72 bytes of a longer one, which the property allows for `LongPasswords` |
| `PromisedCodes` | `PromisedInv`: only an enrolled user has codes stored, a user about to be enrolled is not, and two requests about to enrol one user are remembered. So an enrolment finds no codes to throw away |
| `PromisedCodesOneByOne` | the same: with one request slot no two enables meet |
| `OwnSecrets`, under `[]OwnBrowser` | `SecretInv`: the secrets in login sessions, in enables under way and in the storage were drawn for the users they serve. `OwnBrowser` says that no login is signed over another user's pending secret; `own_secret` shows that nothing in the code ensures it |
| `PasswordReverifies`, without a legacy verifier | `NativeUsers`: everyone named by a cookie or by a request under way has a hash that parses, since the password step let them through and all later writes are native |
| `Forward` | that of `TypeCorrect` |

`Forward` is what can be proved of the two liveness properties: each step of a
handler lowers a bound on its calls left, no other step moves it, and an upgrade
can only lead to the session step. That some step is always possible, and that
fairness then makes it happen, is TLC's part.

`UserStoreProofs` proves of `MemoryStorage`, for all users, names, letter cases
and addresses (`UserConstants`, `NoneIsNoUser`, `RefConstants`): `Indexes` (the
maps agree) and `Refinement` (it implements `UserTable`). The invariant
`StoreInv` adds that each struct is filed under its own ID and is not the
caller's; without that a caller's write could rename a stored struct, or an
update file one struct under two IDs. Each step then maps to a step of the table
or leaves it unchanged.

Each of the other proof modules proves every property of its passing runs:

| module | theorems | assumes | inductive invariant |
|---|---|---|---|
| `RegistrationProofs` | `TypeCorrect`, `Unique`, `Reachable` | | stored names were accepted, so an e-mail address has an "@", a username has none, and its login method is on |
| | `Conflicts` | `[]NoRivals`, `[][NothingMissed]_vars`: no two registrations of one name at once, no lookup misses a stored user (`duplicate_500`) | `FreeInv`: what a request has looked up is still free |
| `AccessProofs` | `TypeCorrect`, `LongestWins`; `StayPublic`, `StayProtected`, `Enforced` | `CleanBase` for the last three: the router leaves the base URL as it is (`trailing_slash` shows what happens else) | the best rule so far is the earliest of the longest among those scanned |
| | `OnlyMatch` | `NamedPaths`: no rule has an empty path (`empty_path`) | the same; the only match is then the longest |
| `PasswordHashProofs` | `TypeCorrect`, `AsWritten`, `Kept`, `NeverLegacy` | `SoundSettings` for the last two: all parameters within the verifier's limits (`weak_params`) | the costs read so far are those of the items read so far; three items and no zero leave one place per key; a stored hash, and the one a right password is checked against, is of that password or of its first 72 bytes (`Followed`) |
| | `AlwaysKept` | `SoundSettings`, and no password longer than 72 bytes (`prefix_login`) | the same; there is nothing to cut |
| `BackupCodesProofs` | `TypeCorrect`, `AccountedFor`, `StillMatch` | `NoSpaces` for the last: none in the alphabet (`space_codes`) | drawn codes are in lower case; what is left of a spelling after trimming is the code |
| `SessionsProofs` | `TypeCorrect`, `Expire`, `Kept` | `SessionExpiration >= Second` for `Expire` (`short_session`) | the browser got its cookie no earlier than it was signed, with the age of what it says |
| | `Cancels`, `CancelsOneByOne` | for the second no copies and one request slot (`logout_race`) | `LogoutInv`: nothing carries a challenge whose logout arrived with nothing else carrying it; challenges still to be drawn are carried nowhere |
| `TOTPProofs` | `TypeCorrect`, `Skew`, `Replays`, `Confirmed` | | the code in hand was made for the time it was read, by a key on the phone, and was in step at each use |

The assumptions are those under which the documented property is true; each has
a run or a `Find_` configuration that breaks the property without it. For each
disagreement of section 3 but `equal_codes` and `reset_lost` there is thus a
theorem that says when the documented sentence holds; `ResetsStick` is that of
`reset_lost`.

Only model-checked: the two liveness properties, `VerifiedLoginContinues` and
`RequestsFinish`, since fairness and `ENABLED` are out of the prover's reach.
`EachCodeOnce` is refuted by `equal_codes`; of draws without equal codes it says no
more than `CodesAccountedFor`, which is proved.

## 5. Plan

1. One composition of `Sessions` and `TOTP`, so that a code is late for its
   challenge and for its window at once, with the proofs of both carried over.
2. An abstract registration (one atomic step per account) that `Registration` is
   shown to implement.

Not modelled: `DefaultSettings`' values, `NewHandler`'s nil and key-length checks,
the key generators and `ToUserResponse` (they fill in values once, and unit tests
reach them); a key's issuer and account label (text for the phone); `UserKey` and
`UserTransformer` (they hand on the user of one request); changing `TFA.Period` or
`Digits` between restarts (nothing is promised about it); the examples; and the
cryptography of cookies, hashes and TOTP. Distinct TOTP codes are taken to differ.
