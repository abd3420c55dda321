# Lattice Wallet in TLA+

Specifications of the Lattice Wallet (the extension in `src/`), model-checked
with TLC and, where this file says so, proved with TLAPS. Paths below are
relative to the repository, whose sources are `src/src/...`; `app.ts` is
`src/src/popup/app.ts`, `signer.ts`, `settings.ts`, `node.ts` and `backup.ts`
are in `src/src/lib/wallet/`.

`PROJECT.json` lists the components, the runs, for each property a mutation of
the code that violates it, the source lines of every definition, the findings,
the hazards and the theorems.

## 1. The system

The wallet is a Manifest V3 extension. Its pages (a popup, and tabs of the same
page) show screens, read nodes and keep records; its background worker owns the
keys. Nothing else runs: nodes, chains and the browser are external.

| Part | State it keeps | Operations | Talks to |
|---|---|---|---|
| Signer (`signer.ts`) | `session` (open vault: key, data, accounts), `pairing`, `failedReauth`, `requests` (a promise chain), `generation` | one handler per request: create, unlock, lock, reset, add/import/select account, cookies, exports, import, transfer, sign | vault storage, the host's idle timer |
| Service worker (`service-worker.ts`) | the auto-lock alarm | forwards requests, re-arms the alarm, locks when it fires | signer, `chrome.alarms` |
| Vault encryption, derivation, backups (`lib/crypto`, `backup.ts`, `session.ts`) | none | encrypt, decrypt, derive, validate, merge | signer |
| Device pairing (`pairing.ts`) | none of its own (the signer keeps the offer and its secret) | newOffer, seal, open | signer |
| Settings (`settings.ts`, `update()` in `app.ts`) | one stored object: chain, endpoints, records; a copy in every page | load, save, `update` under a cross-page lock | every flow of a page |
| Recovery of transfers (`app.ts` 144-348, 1847-1932, 2065-2145; `replacement.ts`) | `pendingSubmissions`, `confirmedSubmissions` | review, confirm, submit, resubmit, replace, dismiss, reconcile | signer, settings, node |
| Purchases (`app.ts` 1120-1337, 1409-1555) | `openPurchases`, `confirmedPurchases` | pay, check receipt, withdraw, retry, replace, restart, archive, dismiss | signer, settings, two chains |
| Sales (`app.ts` 999-1093, 1623-1721) | `openDeposits` | review, lock, check, rebuild, resubmit, dismiss | signer, settings, two chains |
| Transaction status, reads and proofs (`node.ts`) | none | sentStatus, verified state reads | node |
| Node choice (`app.ts` 350-515, 657-890, 1339-1367; `popup.ts`) | `endpoints`, `pendingEndpoint`, `pendingAutomaticChain`, `pendingDiscovery`; cookies in the signer; permissions in the browser | request, resume, discover, pick, probe, save, switch, release | settings, signer, browser, nodes |
| Screens (`app.ts` 113-143, 892-962, 1783-1931, 2196-2218) | what is shown, with what its handlers close over; copies of the settings and the active account; a node's cookie and its URL | home, send, review, sent, fee | signer, settings, node |
| Status cache (`app.ts` 242-331) | last statuses of this page, an epoch | reconcile at most every 30 s, invalidate | node |
| Unlock prompt (`app.ts` 2221-2300) | one shared prompt, a notice | prompt, repeat the request | signer |
| Scanner (`scanner.ts`), transfer screens (`backup.ts` in `popup/`) | camera, frame loop, a shown offer | scan, load a file, paste, show, poll | camera, signer |
| Animated QR codes (`qr/ur.ts`) | the decoder's parts | encode, receive | scanner, backup screens |
| Seed QR, rendering, order links | none | conversions, markup | |

Where it is hard:

* **Awaits.** Handlers and screens are async functions. The signer runs one
  request at a time, but the alarm calls `lock()` between any two of a handler's
  steps, and the browser may end the worker. What a handler captured before an
  await may be stale after it (`session !== current`, `generation`).
* **Several pages.** Every page has its own copy of the settings and its own
  screens, however old. Only `update()` is serialised.
* **Submissions without an answer.** A node may have accepted what timed out.
  So the exact signed bytes are saved before they are sent, kept until the user
  dismisses them, and sent again unchanged; signing anew may pay twice.
* **Reads of a moving node.** Status, nonce, tip, receipt and deposit are read
  one after the other.
* **Prompts that close the page.** A permission prompt closes a popup; what was
  under way must be in storage and resumed.

What makes each part correct is stated as properties in section 3; the hazards
they are for are listed, with their lines, in `PROJECT.json`.

## 2. The modules

| Module | Models | Builds on |
|---|---|---|
| `WalletData` | contents of the vault: derived accounts, next index, validation and merging of backups | |
| `WalletContents` | wallets of several devices that exchange backups | `WalletData` |
| `Signer` | signer and service worker | `WalletData` |
| `SignerProofs` | theorems about `Signer` | `Signer` |
| `Outbox` | abstract: what the wallet promises of everything it signs | |
| `AtomicUpdates` | abstract: what pages expect of an update of the settings | |
| `SettingsLock` | `update()`: the queue of a page, the lock of all, closing pages | implements `AtomicUpdates` |
| `Recovery`, `RecoveryProofs` | records of transfers, settings lock, pages, node; theorems | implements `Outbox` |
| `Purchase`, `PurchaseProofs` | purchases, two chains, another buyer; theorems | implements `Outbox` |
| `Sale`, `SaleProofs` | deposits for sale; theorems | implements `Outbox` |
| `SentStatus` | `sentStatus` against a moving node | |
| `StatusCache` | the shared pass of status reads, its cache and the screens it serves | |
| `StateProof` | verification of one answer with state proofs | |
| `OrderCheck` | the reads of two moving nodes a purchase rests on | what `StateProof` establishes |
| `Endpoint` | node choice, permissions, pending requests | |
| `Screens` | from the home screen to a sent transfer, with what a screen closes over | |
| `UnlockPrompt` | requests that meet a locked signer, the prompt and the notice | |
| `Pairing` | offers, secrets and transfers between devices, in the worker and on pages | |
| `Scanner` | one QR input: camera, files, pasted texts | |
| `Fountain` | the decoder of animated codes | |
| `MCSigner`, `MCRecovery` | model values, bounds and symmetry for TLC | the module of that name |
| `MCTrades` | for TLC: buying and selling | `Purchase`, `Sale` |
| `MCPage` | for TLC: the parts of a page | `Endpoint`, `StatusCache`, `Screens` |
| `MCOrderCheck` | for TLC: the check before a purchase, and one read's proof | `OrderCheck`, `StateProof` |
| `MCProgress` | for TLC: the parts that wait, with their fairness | `SentStatus`, `SettingsLock`, `Scanner`, `Signer`, `UnlockPrompt` |
| `MCTransfer` | for TLC: the stages of a transfer between devices | `Pairing`, `Fountain`, `WalletContents` |
| `EndpointProofs`, `OrderCheckProofs`, `ProgressProofs`, `TransferProofs` | theorems about the parts of `MCPage`, `MCOrderCheck`, `MCProgress` and `MCTransfer` | those modules |

Conventions: an action carries the name of the function or handler it models, or
of the await it continues after. A definition marked *Mutant* in its comment is a
plausible mistake in the definition that follows it; it is not part of the
specification and only shows that a property can fail.

**Signer.** `job` is the running handler, `job.at` the await it is suspended at;
`queue` are the requests chained behind it. Between two awaits a handler is one
action. A password stands for the key derived from it, so a session is a password
and data. `AutoLock` (the alarm), `Teardown` (the worker ends: memory goes, the
alarm and the vault stay) and `Send` (a page's request, which re-arms the alarm
unless it only polls) interleave with every await. Storage may fail at any call.
`job.stale` is the outcome of comparing `generation` with its earlier value, so no
counter grows. All four kinds of signing are one action `Sign`: their handlers
check and compute alike and change nothing.

**Outbox.** Every kind of record follows one promise (`src/README.md`, "Status"):
what is signed is kept before it is sent, may be sent again any number of times,
may be lost by the node, and is forgotten only because its user dismissed it.
`Outbox` says this of plain sets; it stands for no single place in the code.
Three modules implement it, each with the substitution under its last heading:

| Module | `Transactions` | `kept` | `sent` | `forgotten` |
|---|---|---|---|---|
| `Recovery` | transfers | pending and archived records in storage | the node's pool and blocks | dismissed records |
| `Purchase` | paid orders | open and archived purchases | payments the parent node heard of | dismissed purchases |
| `Sale` | deposits | saved deposits | the pool and what is mined | dismissed deposits |

**Recovery.** One account on one chain. `stored` is the settings in storage,
`known` each page's copy, `holder` the page in the settings lock with what it
loaded, `flow` what the user of a page is doing, `pass` its reconciliation,
`submitted` and `chain` the node. An update is cut at its awaits: `Load`, then
`Save` or `SaveFails`. Signing is deterministic, so a transaction is its payment,
nonce and fee. `Reopen` closes a page at any point.

**Purchase.** One order and one buying account. `screen` is a page's screen with
the record it was opened with (`view`), which other pages may have changed since.
`owner` is whom the order's receipt names, `locked` whether its deposit is still
there. `Foreign` is another transaction that spends the account's nonce on the
child chain. An update is one step here; `SettingsLock` shows that it may be.

**Sale.** A flow is one review or one check in some page. A deposit is the sale
(its deposit nonce) and the account nonce it was signed with. `bare` are deposits
an older version saved without their bytes, which a check rebuilds. The chain is
*not* asked to refuse a second deposit of the same sale: nothing in it would.

**SettingsLock.** A settings object is the set of updates that made it. `at` is where
an update's promise stands, `queue` who stands in the page's chain of promises, `locks`
who has the lock or has requested it. Both are lines: `earlier` and `ahead` say whom
each update finds before it, and whoever leaves is taken out of them. `AtomicUpdates` says: an update changes
what is stored at one moment, and its caller is told ok exactly when it did; `applied`
is `stored`, and an update whose page has closed is never answered. Reads
(`Refresh`, `Refreshed`) take no lock.

**SentStatus.** `at` is the read a check waits for. The node mines, learns,
drops and prunes between the reads; `listing` is the mempool listing other checks
of the pass share.

**StatusCache.** A status is the number of times the node had received the transaction
when it was read, so an older status is a smaller number. `pass` is the one
reconciliation under way with its epoch (`current`), `screen` one that awaits it.

**StateProof.** CIDs are constants and so is what they stand for (`Content`):
content addressing is the assumption, everything else an answer chooses. A walk goes
from the dictionary's root of the expected block along `remaining`; `Below` is the
reference, what each tree node says of each key.

**OrderCheck.** `at` is the read the check waits for, `pin` the tips it is about. Both
tips move to any block, also to another branch; `lost` is a history: the child chain
dropped the block that had been compared.
That a node proves only what is so in its tip is the theorem about `StateProof`.

**Endpoint.** `known` is each page's copy of the settings. A handler that waits for the
node, the browser or storage is a `task` of its page: the header's chain menu, the node
screen's buttons and a list of nodes stay live meanwhile (`app.ts`:2320-2330), so several
wait at once, in one page or in many. A choice goes from a request over the permission
prompt and the probe to the save; a page closes anywhere, and a prompt may be answered
after its page has gone. `Serves` is fixed: which node answers for which chain; whether it
accepts transactions (`acceptsSubmit`) is its answer at each probe. `caveats` is a history
of what came between a probe's reading of the chain and its save.

**Screens.** `screen` is a record of the values the screen's handlers have in their
closures. An opening (`openings`) is a `mainScreen` that awaits its node's cookie;
`current` says that nothing was rendered since it began, which is what comparing
`renderVersion` finds out. `requests`, `signed` and `feeFor` are what the last step
did.

**UnlockPrompt.** A request is a message to the signer that is handled, answered,
maybe refused, and sent again after a prompt; `shown` are the overlays on the page,
`unlocking` the shared one.

**Pairing.** `secrets` are the offers whose secret is in the worker's memory,
`session` the one a transfer would be opened with. The worker's idle time, the alarm and
the offers' ages are counted, so that polling, expiry, the idle lock and the
browser's stop of the worker are in their real order. A sender's clock is not the
receiver's.

**Scanner.** Every press of the camera's button has its own stream and loop, and the
button stays live while the browser asks for the camera; `camera` and `cancel` are the
variables they share, and `replaced` a history of the streams they no longer hold.

**WalletContents.** A request is one step (`Signer` has their awaits). Backups of
other programs (`Foreign`) may hold whatever validation lets pass. Of labels, and of the text a
raw key is kept as, only what validation refuses is told apart (`longNames`, `unfitKeys`).

**Fountain.** A part is the set of fragments it mixes and the set its data is the
exclusive or of; the code's reductions are set differences of both. `receive` is
`Receive` followed by `Process` until the queue is empty. `Reduced` and `Sorted` are the
code's two loops, over what is held in the order it was found.

## 3. The runs

Several components are small and share no state with each other. Their runs put them
side by side: the MC module takes them as instances with variables of their own,
`AllInit` chooses which one runs, and the others wait in their initial states
(`MCProgress`, `MCTransfer`, `MCPage`, `MCOrderCheck`, `MCTrades`). A run's states are the sum, not the
product, of its parts', and each part behaves as it does alone. Where a run takes
several properties together, their conjunction is named in the component's or the MC
module.

### What must hold, and does

| Run | Distinct states | Checks |
|---|---|---|
| `signer` | 1,095,000 | `UnlockedIsSaved`: outside a save, what is unlocked is what is stored. `OpenSessionGuessedLittle`: no open session has survived the limit of wrong passwords. `UnlockedIsTimed`: unlocked means an alarm is pending. `LocksAreFinal`: a lock during a creation's derivation is not undone, and no `session!` reads null. `KeysLeaveByChoice`: only a reset or an authorised replacement loses a key. `OpensWithPassword`, `OkIsEarned`: openings, exports and "ok" are what they say, several awaits after the check. |
| `recovery` | 2,446,000 | `ImplementsOutbox`: what a node heard of is kept; no page's update undoes another's, no archive and no failed save loses a record. `ReplacementOutbids`: a replacement is saved only as the best of all saved attempts. `PaysTwiceKnowingly`: of two mined payments the later one acknowledged the earlier, or that was settled. `ArchivedIsConfirmed`: what is archived has its confirmations, although the chain grows between a pass's reads. |
| `trades` | 2,974,000 | Buying: `ClaimsAreOwned`: nothing is withdrawn that is not ours. `LiveClaimsAreSaved`: no attempt that may still be mined is forgotten, unless its purchase was dismissed. `RestartIsSafe`: a second nonce is used only when no earlier attempt can be mined. `ArchivedIsWithdrawn`: a spent deposit alone archives nothing. `ImplementsOutbox`: a payment stays recorded through restarts, replacements and archives. Selling: `OneDepositPerSale`: funds are locked once. `SalesImplementOutbox`: no flow's save undoes another's, and no deposit a node heard of is forgotten. |
| `page` | 1,090,000 | Node choice: `EndpointsServeUnlessSwitched`, a saved node serves its chain, unless the chain was switched between the page's reading of it and the save, and hosted and automatic choices accepted transactions; `EndpointsReachableUnlessReleased`, it has permission, unless it was saved or answered while a release was under way. Statuses: `RebroadcastsAreKnown`, what the cache serves was read after the last rebroadcast, and so was what a screen shows, also one that joined an older pass. |
| `order_check` | 786,000 | `AnswersAreOfOneState`: an answer is about one state of each chain. `ProvenUnlessLost`: orders are offered only on a chain with the block the parent commits, unless the child chain dropped that block after it was compared. `ClaimsHold`: a verified claim is what the block's dictionary holds, a verified absence too, whatever the answer brings or leaves out. `TrueClaimsAreVerified`: honest answers are not refused. `ChecksEnd`, although the tips keep moving. |
| `progress` | 107,500 | `FinalAnswersAreTrue`: a status of included, replaced or advanced is true for good. `UpdatesAreAtomic`: no page's save of the settings undoes another's, its own are saved in order, and no page goes by what storage refused. `ScansOnceAndStops`: a scanner's screen is left once, and then no camera records but one whose place another took. `WaitsEnd`: status checks, updates and signer requests end. `IdleWalletLocks`: an unused wallet locks although pages keep polling. |
| `unlock_prompt` | 303,000 | `AnsweredOnce`: a request that waits finds its prompt on the page; sent twice, it is done at most once, and not at all when the user is told so. `PromptsEnd`: a request is answered or given up. `NoticeFollowsLock`: a page in view learns whether the signer is locked. |
| `transfer` | 610,000 | `OneOffer`: the secret of an offer that is shown is neither lost to an idle worker nor locked away, and is used once and erased, whichever pages scan, lock or close. `DecodesAllThatFollows`: no sequence of reductions corrupts a part, the plain fragments always complete a message, and until a mix is dropped everything that can be peeled from what was received is known, against a reference fixed point. `ExportsRestoreUnlessUnfit`: whatever a wallet was made of, its backup can be restored, unless one of its rows by itself is refused. `MergesAgree`: merging keeps all accounts of both, once each, in either order, and the active account is one of them. |
| `screens` | 2,241,000 | `SentAsReviewed`: what is signed and where it goes is what the review showed. `HomesDoNotMix`: cookies go to their own node only, and a home screen that wakes late takes nobody away from another screen. |

Every module states its `TypeOK`; adding it to a run's configuration is one line. Most
are also proved, as part of an inductive invariant (section 4).

### Where the code and its texts disagree

Three claims that the code refutes are runs of their own; what the code keeps of each is
a property of a passing run, in which the way it fails is named:

| Run | Claim | What happens | What holds |
|---|---|---|---|
| `endpoint_switch` | `EndpointsServe`: "The wallet checks that it serves this chain and accepts transactions before saving it" (`app.ts`:723) | `chooseEndpoint` probes for its page's chain and saves for the stored one (`app.ts`:669, 676), which the header or another page switched meanwhile. | `EndpointsServeUnlessSwitched` |
| `order_reorg` | `ProvenOnCommittedChain`: each order is proven "on a chain that contains the block the parent commits" (`app.ts`:1430-1432) | The child's chain drops that block between the comparison and the reads of its deposits (`app.ts`:1439-1440). | `ProvenUnlessLost` |
| `transfer_edge` | `ExportsRestore`: a backup can be restored (`README.md`:215) | A key typed with "0X" is kept with it (`signer.ts`:132, 184), a label at any length, and after a backup with index 2^31 - 1 the next index wraps (`slip10.ts`:28): later backups are refused. No page of the wallet sends a label itself. | `ExportsRestoreUnlessUnfit` |

Further claims were met while modelling that the code does not keep in full. Each has
a configuration, with which TLC finds the counterexample in seconds:

| Configuration | Module | Shows |
|---|---|---|
| `MCSignerUnlock.cfg` | `MCSigner` | `LockStopsOpening`, which a test title claims of the signer (`security-regressions.test.ts`:57), fails for `unlock`: it derives twice and notes the generation only before the second derivation. |
| `MCRecoveryRace.cfg` | `MCRecovery` | `SavedAcknowledged`, from `docs/network-binding.md`:9, fails: `confirm()` looks for unresolved transfers outside the settings lock, and two pages confirm at once. |
| `MCEndpointRelease.cfg` | `MCPage` | `EndpointsReachable`, from `app.ts`:1361, fails: permissions to keep are read before a node is saved and released after. `EndpointsReachableUnlessReleased` is what holds. |
| `MCEndpointReplace.cfg` | `MCPage` | `RequestsResume`, from `settings.ts`:88, fails: a request to *replace* a node is not resumed when the prompt closed the popup. |
| `MCUnlockPromptAdd.cfg` | `MCProgress` | `LockedRequestsAsk`, from `app.ts`:2228, fails for `addAccount`, which is refused in other words (`signer.ts`:164). |
| `MCScreensFee.cfg` | `MCPage` | `FeeAsShown` fails: the fee screen saves for the chain selected by then, not for the one its heading names (`app.ts`:2206, 2212). |
| `MCScannerTwice.cfg` | `MCProgress` | `CamerasStop`, from `scanner.ts`:3-4, fails when the camera's button is pressed again before the browser has granted the first one: the stream whose place is taken records on. `ScansOnceAndStops` is what holds. |

Smaller ones are described with their hazards: a reorganisation between the two reads of
`inclusionDepth` (`app.ts`:238), a withdrawal attempt recorded into a purchase that
another page archived meanwhile (`settings.ts`:232), and a status cached between the saving and the
sending of a first submission (`app.ts`:1919).

### Bounds

* `signer`: two pages, because a page's request re-arms the alarm while another's
  is handled; two passwords, a phrase and a raw key, so that there is a wrong
  password, a second account and a backup with other contents. The limit of wrong
  passwords is 2 instead of 5 and the alarm takes two ticks, so that a request can
  re-arm it halfway: both counts only meet their limits. Up to two waiting requests. At
  most two accounts, so the limit of 256 is met as well. Every request kind and both
  outcomes of each check are offered (`AllRequests`).
* `recovery`: two pages and one payment, and of each of its states either one nonce, two
  fees, two blocks and one dismissal, or two nonces, one fee, three blocks and no dismissal
  (`Explored`, a state constraint), with two confirmations instead of six. No replacement
  meets a payment of another nonce here; the theorem `AlwaysWarned` covers both together,
  for any number of fees and nonces.
* `trades`: two pages, one payment, two nonces, two fees and two blocks, with one
  confirmation, so that a purchase that was restarted can still be archived. Two flows, an
  old and two new sales, two nonces; flows that have run out of both may rest (`Rest`).
* `page`: a root and a child chain, a hosted node that serves the root and one of the
  user's own that serves both; two pages, two handlers that wait at once, of one page or of
  both, and four that are started in all (`MaxStarts`), after which pages may rest.
  A permission of an own node is lost only by `ReleaseUnused`. For the statuses a transfer
  and a withdrawal, two calls under way, each received once more (`MaxReceived`).
* `order_check`: three parent and four child blocks with a fork each, three deposits,
  one per page and two pages instead of 100 and 100, and the code's three tries: the
  limits and the joining of pages of two states are met. Either tip may move to any block at
  any time.
  Its state proofs: two blocks, two dictionaries each, nine tree nodes: an honest tree
  with a value inside a path and at its ends, doubled children, a cycle, contents that
  are no node; two claims, so that one may repeat the other. A proof that was verified or
  refused may rest (`ProofRests`).
* `progress`: no symmetry, as TLC needs for liveness. Settings: two pages and three
  updates, so that two wait behind each other in a page while another page holds the
  lock. Scanner: two cameras, both of which may be asked for at once. Signer: `IdleRequests`, which
  leaves out requests that only add states. A check that has returned and a scanner that
  was left may rest (`Rest`).
* `unlock_prompt`: one request, one submission of a password, two overlays, one
  that is waited for and one left behind.
* `transfer`: two offers, the second of which replaces the first, two pages, one sender.
  Times are 3 for an offer's 300 s, 2 for the worker's 30 s and 6 for the alarm's
  600 s: a poll falls into each idle time, and the alarm outlasts an offer. Two long
  messages of four fragments, which have all the shapes of overlap that three mixes can
  have, and a short one; one mix is kept per fragment instead of four, so that some are
  dropped. One device, two phrases and a raw key
  that a phrase derives too; indices up to 2 where a path tells 2 apart (`IndexSpace`
  stands for 2^31), so that indices wrap. Foreign backups repeat accounts, lack a phrase or
  an account, have a last or a wrapped index, a long label, or too many accounts. The limit
  of accounts is 3. One export at a time is kept beside the foreign backups.
* `screens`: one account, two chains that share a node, the first of which may change
  to another; two waiting home screens (`MaxOpenings`) and one account read or
  signature at a time (`MaxFlows`). Every chain has a node here: the screens of a chain
  without one are `Endpoint`'s.

### Fairness

In `progress` each part that runs has the fairness of its module. A status check's read
is answered or times out (`WF(Check)`); nothing is assumed of the node. The signer's
suspended handler goes on, as storage and WebCrypto answer or reject (`WF(Begin \/
Handler)`), and time passes (`WF(Tick \/ AutoLock)`); nothing makes pages send or
the browser end the worker, and `IdleWalletLocks` asks in its statement that
requests other than polls stop. Promises run and storage answers or refuses for every
update of the settings; the browser hands the lock of a closed page on. It answers a
request for the camera and goes on showing the page, whose frame loops find out that
they are disconnected. `order_check` assumes that its reads end.

`unlock_prompt` assumes that messages are handled and answered or reported lost; it
needs strong fairness for receiving an answer, only because the bound on overlays may
disable it for a while, and for the answer to a page's check, which wakes the worker
that would answer it. The user is assumed to leave or answer a prompt in the end, nothing
makes anybody type the right password or look at the page: `NoticeFollowsLock` asks for
the latter in its statement.

## 4. The proofs

The theorems hold for every value of the constants that satisfies the modules'
assumptions (any number of pages, flows, passwords, accounts, nonces, retries). Of
components that run side by side, a theorem is about the component's own specification
(`Endpoint`, `OrderCheck`) or about the MC module's, in which a step of another
component leaves its variables alone.

* **`SignerProofs`.** `TypeCorrect`, `GuessesBounded`, `UnlockedTimed`,
  `SessionIsSaved`, `OpenedByPassword`, `KeysKept`, `LocksLast`, `OkEarned`. `TypeInv` strengthens the types
  by what each await may rely on (`JobShape`: a handler that derives has data to
  open, one that encrypts has captured a session) and by `GuessesLeft`, which also
  covers a handler whose check is still running. `UnlockedIsSaved` is not inductive:
  `HandlerKnows` adds that what a handler captured or loaded is what is stored as
  long as the session lasts. The two action properties follow from these and, for
  `KeysKept`, from the fact that a handler that saves over a vault opened that vault.
  `LocksLast` rests on a creation never being suspended, once interrupted, but in its
  derivation, which it then leaves stale (`LocksInv`). `OkEarned` takes two invariants:
  who waits for an answer waits in one place (`WaitInv`), so that an ok is the answer to
  the running handler's request; and what that handler is about to save, has saved or
  was given the password for is what the request asks (`EarnedInv`).
* **`SaleProofs`.** `LockedOnce` and `AlwaysSaved`. A deposit that may be mined is
  kept, saved or dismissed (`DepositsAreSaved`); what is kept for a sale is unique
  (`KeptIsUnique`); and a review that can still sign owns its sale
  (`ReviewsOwnSales`), so it never adds a second one.
  `SaleIsOutbox` maps each step to one of `Outbox`. The three assume `SaleAssumption`.
* **`RecoveryProofs`.** `TypeCorrect`, `AlwaysSaved`, `AlwaysOutbids`,
  `RecoveryIsOutbox`, `AlwaysWarned`, `AlwaysConfirmed`. A page submits awaits after it saved, so the invariant says
  what each of its stages may rely on: a flow that may submit has saved its
  transfer, or it was dismissed since (`FlowsKnow`), what a page's copy shows is
  saved or was dismissed (`PagesKnow`), and what a holder of the settings lock
  loaded is still what is stored (`LockHeld`). The last one is what makes an
  update neither undo another page's (the refinement) nor outbid only some of the
  attempts. `ChainInv` is about the chain: it orders payments by their nonces
  (`ChainOrdered`), so when a send has read its nonce, all that can be mined before
  it already is, and is among what its user is shown (`FlowsWereShown`); a
  replacement inherits the warning of the payment it repeats (`KeptWereWarned`); and
  what a pass was told of the chain stays true (`PassesWereTold`).
* **`PurchaseProofs`.** `AlwaysSaved`, `AlwaysOwned`, `AlwaysRecorded`,
  `PurchaseIsOutbox`, `AlwaysRestartsSafely`, `AlwaysWithdrawn`, `PurchaseTypes`. A screen acts on the record it was opened with. `Knows` says
  of each of its stages what it has established, all in terms of facts that no
  step takes back: a receipt's owner, a withdrawn deposit, an attempt that is
  recorded, a dismissal. A lemma shows once that every step leaves these facts
  standing, so that each action only has to answer for the screen it changes.
  `SafeInv` adds what the child chain shows: a deposit that is still locked has no
  mined withdrawal (`ChainKnows`), so a screen that saw the nonces spent and *then* the
  deposit locked knows that none of its attempts was mined (`SafeScreens`); and a pass
  archives only for a withdrawal it saw deep in the chain (`SafePasses`).
* **`EndpointProofs`.** `EndpointTypes`, `SavedNodesServe` and `SavedNodesAreReachable`, for
  any number of pages, waiting handlers, chains and nodes. A handler between its probe and
  its save knows that its node serves the stored chain or that a switch came between, that
  it accepted transactions or was not asked to, and that it has permission or was released;
  what it knows becomes the caveats of the node it saves. A release knows which nodes were
  saved since it read what to keep.
  Three more are about the rest of a page. `StatusesAreFresh`: a pass of reads knows what
  had been received when it began, and as long as nothing invalidates it nothing was sent
  again (`PassKnows`); who waits, waits for the pass under way. `SendsWhatWasReviewed`
  and `HomesStayApart`: each screen carries the node and account it was drawn with, a
  cookie that is held is that of the node it is held for (`CookiesKept`), and a
  home screen that wakes late compares what it began with.
* **`ProgressProofs`.** What waits, whatever is fair. `AnswersAreTrue`, from
  `AgainIsSpent`: only a spent nonce sends a check back to the transaction.
  `UpdatesOfSettings`: `SettingsLock` implements `AtomicUpdates`, and the updates of a
  page are saved in their order. Of two updates in one line one waits for the other, and
  only the first has begun (`PageLines`, `LockLine`), so at most one has loaded or
  written (`OneHolds`), and what it loaded is still what is stored (`HolderKnows`); without
  `navigator.locks` this needs that there is one page (`LockAssumption`). `Purchase` and
  `Sale` rest on this theorem where they take an update as one step. `OneTextIsTaken`:
  a screen that took a text wants no more. `RequestsAreDoneOnce`: nothing was done yet
  for a request that may still be sent (`UndoneYet`), and a prompt that ends takes along
  all who wait for it.
* **`TransferProofs`.** `OffersAreKept`: a page that waits polls, so the worker is not
  idle while its offer has time left (`WaitingKeepsAwake`), and making the offer put the
  alarm beyond its end (`AlarmOutlasts`). `ContentsAreRestorable` and
  `MergesKeepAccounts`: every wallet is `Sound`, that is valid, finite, and with an
  active account it holds; creating, adding, importing, merging and replacing keep it so.
  Of the first, `Sound` leaves out what a row may be refused for by itself
  (`HasUnfitRow`), which comes from adding, creating and importing, never from merging.
  `FragmentsAreFound`: every fragment of every part that
  was received is known, or in a part that is still held and lies within that part
  (`Kept`), unless a mix was dropped for want of room; and no mix that is held has a known
  fragment (`MixesAreMixed`). So a part of which all but one fragment are known leaves
  nothing to hold, and what is known is closed under peeling. What the two loops
  do to a part and to the list of mixes is proved by induction on their turns: of the
  turns after which the claim is wrong there would be a first (`Smallest`).
* **`OrderCheckProofs`.** `OrderCheckTypes`, `AnswersOfOneState`, and
  `ProvenWhileCommitted`. What each read has established is about the pinned
  tips (`Pinned`, `Listing`, `Payments`), which the last reads of the tips confirm; from the
  comparison on, the child's chain has the committed block or has `lost` it (`Committed`).
  `VerifiedClaimsHold` and `TrueClaimsAreNotRefused` are about one read's state proof, for
  any blocks, trees and answers. The walk keeps an invariant: what the node it stands at
  says of the rest of the key is what the dictionary says of the key (`OnThePath`), where
  `BelowAssumption` says what "says of" means, one node at a time. For the second, a
  tree that is in the answer is followed to its end (`Descends`).

The three `AlwaysSaved` theorems state invariants (`SubmittedIsSaved`, `PaidIsSaved`,
`DepositsAreSaved`) that the refinement of `Outbox` contains; the runs check them as
part of `ImplementsOutbox`.

Every safety and action property of a passing run is so proved. Only model-checked,
as fairness and `ENABLED` are outside the prover: `ChecksEnd`, `WaitsEnd`, `IdleWalletLocks`,
`PromptsEnd`, `NoticeFollowsLock`, and of `ScansOnceAndStops` that the camera stops.

## 5. Not modelled

Cryptography and encodings (vault, backup and pairing formats, keys, addresses,
CBOR, bytewords, CRC, the sampler of `ur.ts`): a value that is decrypted, decoded
or verified is the one that was encrypted, encoded or signed, or the operation
fails. Markup, wording, seed QR codes, the validation of order links
(`order.ts`, a pure function of its input), what a picture decodes to, the comparison
code of a transfer, the display-only list of sent transactions, build scripts.
`historyScreen` (app.ts:2145) has no caller. Balances and fee floors, which only
refuse. Reorganisations outside `OrderCheck`. Two pages of a host without
`navigator.locks`: the code does not serialise them and no host is known to have
both. The chains and the browser, beyond what the code relies on, are marked
external in `PROJECT.json`.

## 6. Plan

Done, in this order: signer; recovery; purchases; status; sales; QR decoder; node
choice; the outbox and its refinements; the checks before a purchase and the state
proofs they rest on; the status cache; the unlock prompt; pairing; the scanner; wallet
contents; updates of the settings; screens.

Every safety property that a run checks is proved (section 4). What is left:

1. Reorganisations in `Recovery`, whose records should survive them: the depth is
   counted from two answers (`app.ts`:238).
2. A permission that the browser revokes while a page is open.
