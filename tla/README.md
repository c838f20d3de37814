# Formal models of teldrive's upload path and login

These TLA+ modules model the parts of teldrive under `src/` where concurrency, partial failure or query semantics decide correctness:

- the part-upload orchestrator;
- its ledger queries;
- the per-day statistics query;
- the bot-credential pool;
- the login handler;
- the websocket login handler and the rate-limited client it drives.

TLC model-checks the modules on small instances. TLAPS proves the main safety properties for every value of the constants.

## The system

`UploadService.UploadFile` (`src/pkg/services/upload.go` 100-278) uploads one part of a file.

1. It binds the query, refuses an encrypted upload when no key is configured, resolves the channel and looks up the channel's bot tokens.
2. It logs in as the user when the channel has no bots. Otherwise it takes a bot from the shared `tgc.BotWorker` (`Set` then `Next`, lines 154-155) and logs in as that bot.
3. Inside `RunWithAuth` it:
   - resolves the channel;
   - draws a salt for an encrypted part (the error is dropped);
   - uploads the file and sends it as a message;
   - inserts the row `(upload_id, part_no, message id, ...)` into the ledger;
   - if the insert fails, deletes the message best effort;
   - otherwise reads the message back.

`GetUploadFileById` and `DeleteUploadFile` list and delete a session's rows. `GetUploadStats` reports the per-day upload totals.

`AuthService.LogIn` (`src/services/auth.service.go` 121-196) runs these database calls in sequence, with no transaction:

1. It checks the allow-list.
2. It looks the user up.
3. On a first login, it creates the user row and then a root folder.
4. On a later login, it updates the stored session instead.

`AuthService.HandleMultipleLogin` (lines 258-388) upgrades the request to a websocket and builds a `tgc.NoLogin` client (`src/utils/tgc/tgc.go` 66-70: a flood-wait retrier and a token bucket of burst 5 refilled every 100 ms). Inside `Run` a loop reads one message per iteration into a freshly allocated `SocketMessage` (line 277). For a QR, SendCode, SignIn or 2FA message it starts a goroutine that calls the client and answers with `conn.WriteJSON`. The QR goroutine shows a token, then waits for the scan or the token's expiry. A login by a user not on the allow-list is answered and then logged out. When `ReadJSON` fails the loop returns, the client stops and the connection is closed, while the goroutines may still run.

Every HTTP request runs in its own goroutine. Uploads, listings, deletions and logins therefore interleave at every database call and every remote call.

## Modules

| Module | Models | State | Actions |
|---|---|---|---|
| `BotWorker` | `tgc.BotWorker` `Set`/`Next` (in `internal/tgc`, not under `src/`: modelled from spec §4.1) | `worker[ch] = [bots, idx]` | `AfterSet`, `Pick`, `AfterNext` operators, each one atomic call under the worker's mutex |
| `UploadService` | `UploadFile`, `GetUploadFileById`, `DeleteUploadFile` | `pc`, `rq` (per-request locals), `worker`, `ledger`, `live` (messages on the channels), `nextId`, `compensated`, `erased`, `listing`, `now` | `Begin`, `UserClient`, `SetBots` (`worker.Set`, line 154), `BotClient` (`worker.Next` and the bot login, lines 155-169), `Prepare`, `Send`, `Persist`, `Verify`, `GetUploadFileById`, `DeleteUploadFile`, `Tick` |
| `UploadStats` | `GetUploadStats` (the SQL of lines 74-90) | `files` (rows of `teldrive.files`) | `Upload` (the environment adding a row); `GetUploadStats` is an operator |
| `AuthLogin` | `LogIn`, `checkUserIsAllowed` | `pc`, `who` (the user id, user name and session the client sent), `res`, `users`, `roots` | `Bind`, `Find`, `CreateUser`, `CreateRoot`, `UpdateSession` |
| `WsLogin` | `HandleMultipleLogin`, the `NoLogin` middleware | `reader` (the loop), `nread`, `kind` (the message each goroutine was started for), `gpc` (each goroutine's place), `reply`, `floods`, `writing` (goroutines inside `WriteJSON`), `tokens`, `crashed` | `Read`, `Close`, `Refill`; per goroutine `Invoke`, `Expire`, `Scan`, `WriteBegin`, `WriteEnd`, `LogOut` |

The proofs are in their own modules; see "Proofs (TLAPS)":

- `UploadServiceProofs` and `UploadAnswerProofs` for `UploadService`;
- `WsLoginProofs` for `WsLogin`;
- `AuthLoginProofs` for `AuthLogin`.

Each action is the whole step of the code between two calls that another request can interleave with. Its guard is the code's early returns, and failures are disjuncts.

Data is abstracted:

- a message is a `<<channel, id>>` pair with ids handed out per channel;
- a salt is `"salted"` or `""`;
- names, sizes of parts and payloads are left out.

`Send` has five outcomes, one per way the remote calls of lines 196-233 can end:

- the upload or the send fails before a message exists;
- the message is posted but the reply is lost;
- the send is confirmed and the message is visible;
- the send is confirmed but the message is not visible;
- the answer holds no channel message and line 231 panics on the nil `message`.

`WsLogin` splits `conn.WriteJSON` into `WriteBegin` and `WriteEnd`, the way a data race is modelled: two goroutines between the two steps are two concurrent writers. gorilla/websocket then either panics (`crashed`) or interleaves the frames. `Invoke` is one call through the `NoLogin` client: it takes a token and is answered, retried on FLOOD_WAIT up to `MaxFlood` times, or failed once the client has stopped.

The ledger's key `(upload_id, part_no)` is in the schema, which is not under `src/`; it is taken from spec §8. `Persist` therefore fails the insert of a key already in the ledger. This is an assumption of the model, not a property: spec §9 leaves the duplicate policy open, and nothing is checked about it.

`UploadFile` calls `worker.Set` and `worker.Next` as two calls (lines 154-155), each atomic under the worker's mutex. They are two actions, `SetBots` and `BotClient`, so another request's `Set` or `Next` on the same channel can run between them.

`LogIn` checks the allow-list on `session.UserName` (line 127) but makes the JWT subject (line 134), looks the user up (line 158) and stores the session (line 186) by `session.UserID`. Both fields come from the client's JSON. The model keeps them apart: `Bind` takes any id and any name, and checks the name. `NameOf` gives each id its real Telegram user name, which the properties use.

## Runs

| Run | Config | Result | Shows |
|---|---|---|---|
| `upload_safety` | `MCUploadService.cfg` | pass, 1.41M states | The properties listed below this table |
| `verify_after_persist` | `MC_FailedUploadLeavesNoRecord.cfg` | violation | A failed read-back (line 258) returns an error, yet the row inserted at 247 stays |
| `retention_filter` | `MC_ListExcludesExpired.cfg` | violation | `created_at < now + retention` (line 56) lists expired parts |
| `salt_error_dropped` | `MC_EncryptedPartHasSalt.cfg` | violation | A failed salt draw (line 190) records an encrypted part with salt `""` |
| `login_root_unique` | `MCAuthLogin.cfg` | pass, 6.7K states | No user gets two root folders (`RootFolderUnique`) |
| `allowlist_bypass` | `MC_OnlyAllowedLoggedIn.cfg` | violation | A request with an allowed user name and another user's id is answered "ok" and logs in as that id (line 127 checks the name, lines 134-186 use the id) |
| `login_without_root` | `MC_LoggedInUserHasRoot.cfg` | violation | A login succeeds for a user without a root folder: the folder create failed (line 180), or a concurrent first login has not made it yet |
| `stats_totals` | `MCUploadStats.cfg` | pass | Each day reported carries exactly the user's uploaded size (`ReportedTotalsExact`) |
| `ws_login` | `MCWsLogin.cfg` | pass, 1.37M states | Once the handler returns every goroutine ends (`GoroutinesEndAfterClose`) |
| `ws_concurrent_write` | `MC_SingleWriter.cfg` | violation | Two goroutines are inside `conn.WriteJSON` at once (lines 286-379): the connection's single-writer rule is broken and the write can panic the server |
| `orphan_message` | `MC_LiveMessagesAccounted.cfg` | violation | A send that posts and then fails (line 213), or panics on an answer with no channel message (line 231), leaves a message that no row and no request knows of. The spec (section 4.5) allows that only when the compensating delete fails |
| `stats_days_dropped` | `MC_EveryDayReported.cfg` | violation | A day with only another user's upload drops out of the report (WHERE on the LEFT JOINed table, line 85) |

The `upload_safety` run checks these properties:

- `TypeOK`: every variable keeps its type, and the bot cursor stays inside its channel's token list, also when another request's `Set` or `Next` ran between a request's two calls.
- `CompensationSparesRecorded`: no compensating delete removes a recorded part's message.
- `SuccessfulUploadRecorded`: every part answered as uploaded is in the ledger, unless the session was deleted since.

Each property of a passing run has a mutant, a plausible bug in the mapped code, that TLC shows breaks it:

- a channel handing out the same message id twice;
- the failed insert deleting the message without returning;
- `Next` not wrapping the cursor;
- a users table with no key on `user_id`;
- the stats WHERE clause forgetting the user;
- a stopped client still answering calls, so a goroutine keeps retrying after the handler returned.

### Fairness and liveness

`WsLogin` assumes weak fairness of each goroutine's steps and of `Refill`. The Go scheduler runs every runnable goroutine, and the limiter earns a token every 100 ms. The client's reads, its closing and the user's scan are not fair: the client may never send again and the user may never scan. `GoroutinesEndAfterClose` needs no more: once the loop has returned the stopped client fails every call, so each goroutine reaches its write and returns.

### Bounds

The upload run uses:

- two concurrent requests;
- one session with two part numbers;
- two channels: one with two bots, one with none;
- retention 1, and time up to 2.

Two requests are enough for each interleaving the properties are about:

- the same part uploaded twice;
- a delete or a listing between the send and the insert of another request;
- another request's `Set` or `Next` on the same channel between one request's two calls.

Symmetry over the requests is sound because requests are interchangeable. Three requests give more than 3.5M states a minute without reaching a new kind of step.

The websocket run reads up to three messages of any kind with burst 2 and one flood retry, so three goroutines compete for two tokens and a retry after the close happens. The single-writer run needs only two messages.

The login run uses three requests, two user ids and two user names, one of them not on the allow-list. This gives two concurrent first logins plus a later login of the same user. The allow-list run needs one request. The stats run uses:

- two users;
- three file rows;
- days 0 and 1;
- window arguments 0, 1 and 2.

The login and stats runs end once every request has returned or every file id is taken. Their configs therefore turn deadlock checking off.

## Proofs (TLAPS)

`UploadServiceProofs` proves these theorems from `ConstantsAssumption`, for every set of requests, channels, sessions, parts and tokens:

- `TypeCorrect`: `Spec => []TypeOK`.
- `CompensationSafe`: `Spec => []CompensationSparesRecorded`.

Neither is inductive by itself. Both rest on the strengthening `IInv` (the theorem `IInvInvariant` proves `Spec => []IInv`), which adds these conjuncts:

- the worker holds the channel's tokens or nothing (`WorkerConsistent`), and a request between `SetBots` and `BotClient` finds its channel's worker set (`BotsSet`), since nothing unsets it;
- what a request holds fits its stage (`StageLocals`): a message id from `Send` on, and `created` only after the insert;
- a request's message id is below its channel's next id (`MsgFresh`), hence distinct from every other request's (`MsgDistinct`);
- every ledger row belongs to the request that inserted it (`RowsOwned`);
- every compensated message belongs to a request that failed its insert (`CompensatedOwned`).

A recorded row's owner has `created` and a compensated message's owner does not. So they are two requests, and `MsgDistinct` rules out a shared message. `BotsSet` is what keeps the cursor in range across the gap between `Set` and `Next`: `Next` on a set worker stays inside the token list.

The proof has one lemma per action. Four shared lemmas carry the frame reasoning:

- `LocalStepIInv`: steps that touch one request;
- `PostStepIInv`: steps that post a message;
- `PersistInsertIInv` and `PersistCompensateIInv`: the two outcomes of the insert;
- `FrameIInv`: steps that leave the request state alone.

`UploadAnswerProofs` proves `AnswerRecorded`: `Spec => []SuccessfulUploadRecorded`. It is not inductive: an "ok" says nothing about why the row is there. The proof adds two invariants:

- `OkCreated`: only a request with `created` set answers "ok".
- `RecordedKept`: a request with `created` finds `RowOf(r)` in `ledger \cup erased`.

`RecordedKept` holds because the fields `RowOf` reads change only before the insert. The insert writes exactly `RowOf(r)` once `created` and `at` are set. `DeleteUploadFile` moves rows to `erased` and never drops them. `OneRequestAnswer` packs this frame argument once. Each action lemma supplies its conditions, using `StageLocals` of `IInv` to know that a request before `Persist` has no row.

`AuthLoginProofs` proves `RootFolderUniqueness`: `Spec => []RootFolderUnique`, from `AuthAssumption` (`Users`, `Names` and `Sessions` non-empty, `NameOf` a function on `Users`). It rests on the inductive invariant `AuthIInv` (proved by `AuthIInvInvariant`), which says:

- a login in the root-folder step made the user's row and sees no folder yet;
- it is the only login in that step for the user;
- a user with a folder has a row.

The argument is that the `user_id` key makes every Create but the first fail.

`WsLoginProofs` proves `WsTypeCorrect` (`Spec => []TypeOK`) from `WsAssumption`, for every message bound, burst and retry bound. `TypeOK` is inductive alone, with one lemma per action. The content is in its bounds: `Invoke`, `Scan` and `LogOut` spend a token only when one is there, `Refill` stops at the burst, a FLOOD_WAIT retry happens only below `MaxFlood`, and `Read` starts a goroutine only below `MaxMsgs`.

Some things stay with TLC only:

- Everything about `UploadStats`. It uses `FiniteSetsExt` folds, which are recursive, so it stays out of the proof modules.
- `GoroutinesEndAfterClose`: liveness under fairness is beyond TLAPS.
- The violated properties (`FailedUploadLeavesNoRecord`, `ListExcludesExpired`, `EncryptedPartHasSalt`, `LiveMessagesAccounted`, `LoggedInUserHasRoot`, `OnlyAllowedLoggedIn`, `SingleWriter`, `EveryDayReported`): TLC's counterexamples are the result.

## Not modelled, and the plan

- **Not modelled:**
  - The gotd transport under `tgc.New`: the client's retries (MaxRetries 5), the reconnection backoff, and `UserLogin`'s and `BotLogin`'s session loading. They live in the library, and the upload model covers a retry only by its effect: a send may post and still fail.
  - The cookie helpers (`GetSession`, `Logout`, `setCookie`, `generateTgSession`). They hold no shared state.
  - `src/schemas/user.schema.go`: type declarations and JSON tags, with no behaviour. The CI workflow is build configuration.
  - In `HandleMultipleLogin`, the panic of the type assertion at line 323 and gin's reuse of the request Context after the handler returns. Both depend on library behaviour outside this code.
- **Planned:**
  - a property for `DeleteUploadFile` racing an upload of the same session between its send and its insert (line 66);
  - liveness of the upload requests under fairness of the database and the remote.
- **Not checked:** the bot pool's balance over a channel's bots. `BotWorker` is modelled from the spec, not from code under `src/`, so a property about its balance would check the spec against itself.
