# Verification of MoaCrypto

TLA+ models of the stateful parts of this repository, the TLC runs that check
them, and proofs of their main properties.  PROJECT.json maps every definition
to the lines it models; this file says how the parts fit together.

Contents: 1 inventory, 2 plan, 3 payment server, 4 authentication server,
5 browser wallet, 6 the CryptoJS bundle, 7 Android wallet, 8 desktop wallet,
9 all runs, 10 proofs, 11 not modelled.

## 1. Inventory

| part | state it keeps | operations | what is hard about it | section |
|---|---|---|---|---|
| Simple payment server (`MoaSimplePayment`, `CardDbMgnt`) | `TB_USER_CARDS`, `TB_USER_CARDS_PWD_HISTORY`, a static map with one entry per member | registCard, getCardList, changeCardNick, deleteCardOne, initializePassword (1, ini, 2), requestPayment (1, 2) | servlet threads interleave at every SQL statement and map call; whole rows are written back from old copies; nonces; KICC and the shop's server may fail; restarts lose the map | 3 |
| Authentication server (`moaCoreAuthLib/.../server/api`) | one text file of records per kind of user, and its temporary copy | append, look up, rewrite without one id, log in, change a password | checks and appends are separate; the rewrite deletes the file before it renames the copy; separators that the reader takes for empty lines; replayed logins | 4 |
| Authentication client (`.../client/api`, `moaClientCoreAuthLib`) | none | builds and reads messages | none of its own; its messages drive sections 4 and 5 | 4, 5 |
| Browser wallet (`moaBCWalletLib`, the franchise pages) | `localStorage`, item by item; the account's wallet columns at the server | create, register a backup, restore, save, sign | pages closed in the middle of a save, two pages on one storage, requests that repeat and answers that come late | 5 |
| CryptoJS bundle (`moaCryptoModule`) | buffers, counters and states of hashers, ciphers and key derivations | update, process, finalize, reset | buffers cut at word and block boundaries; objects that share arrays | 6 |
| Android wallet (`AndroidBcWallet`) | preferences `moaWallet` and `tempWallet`, a password field, a mode flag | create, save, sign, restore, reset the password through a temporary wallet, remove | the WebView answers on another thread; a process that ends between two preferences; a key store that fails | 7 |
| Desktop wallet (`MoaWalletLib`) | three wallet files | issue, restore, sign, reset the password through a temporary file, delete | a write is a truncation and then a text; the program exits on its own; another device replaces the backup | 8 |
| Transaction server (`server/Transaction.java`), peer-to-peer node (`server/p2p`), user database access (`AuthDbMgnt`), cryptographic wrappers | tables; routing tables; a table; none | | | 11 |

Components call each other in three places: the pages of section 5 talk to
`MoaServerCoreAuthLib` (its wallet methods are in `BrowserWallet`, its login
methods in `AuthServer`); the wallets of sections 5 to 8 encrypt and hash with
the bundle or with the JDK, symbolically in the models of the wallets and block
by block in `CryptoStream`; the payment server's handlers share the card table
and the static map.

What makes each part correct:

* **Payment server**: one nonce pays once; an approved charge ends confirmed or
  cancelled; a card in use has a billing key that KICC issued; a card's key was
  set or confirmed by its member; a deleted card stays deleted; a reset that is
  answered 200 took effect; every request is answered.
* **Authentication server**: a record never vanishes except by its removal, not
  even by a crash; a registered id is found; one login per login request, and
  only with a registered password.
* **Wallets**: what a password verifies opens with it, to the private key of
  the public key and address stored beside it; a crash leaves a wallet that is
  whole or is not one; a reset keeps the key.
* **Bundle**: what is computed in pieces is what the definition says of the
  whole.

## 2. Plan

1. Payment server with its abstract specification `PaymentPromise` and proofs.
   **Done**, the refinement included.
2. `AuthFile`, `AuthServer` with its abstract specification `AuthRegistry`.
   **Done**.
3. `BrowserWallet` with `WalletPromise`, and the bundle beneath it.  **Done**,
   proofs included.
4. `AndroidWallet`, `DesktopWallet` and their proofs.  **Done**.
5. A module for the transaction server and one for the routing table of the
   peer-to-peer node.  **Dropped**, see section 11.

What could still be added: the Java client's own flow control, if a caller other
than the test programs appears; the transaction server, when the server around
it and its database layer are in the repository.

## 3. The payment server

### Modules

| module | models |
|---|---|
| `CardTable` | the table and the SQL statements of `cardMapper.xml` as operators |
| `SimplePayState` | variables, types, the static map, a worker's control, tickets |
| `CardHandlers` | registCard, changeCardNick, deleteCardOne |
| `PasswordReset` | initializePassword and initializePasswordStep2 |
| `Payment` | requestPayment, verifySecureKey, easypayRun's use of KICC and the shop |
| `PaymentPromise` | what the two steps of a payment promise about nonces |
| `SimplePay` | Init, Next, restarts, fairness, all properties, the refinement |
| `MCSimplePay` | the instances for TLC |
| `SimplePayInvariants` | the inductive invariants |
| `SimplePayProofs` | the proofs about types, cards and nonces |
| `SimplePayChargeProofs` | the proofs about charges, and of the refinement |

A request is a worker's record in `call`: `pc` says which shared access comes
next, the other fields are the handler's local variables.  A handler is cut
at each DAO call (every call of `SqlMapCardDao` opens a session, runs one
statement and commits), each access to the static map and each message to KICC
or the shop.  What runs between two such accesses touches nothing that another
thread sees, so it belongs to the action before or after.  Checks that fail
and exceptions end the request (`Respond`).

Clients are honest and lossy: a second step uses the nonce and order that the
server gave the member (`ticket`), and may be delivered up to `MaxDeliver` times,
in any order and with any delay.  A rename, a deletion or a payment names any
card there is: `registCard` step 1 returns the token before KICC has bound the
card, `changeCardNick` and `deleteCardOne` check the member but not whether the
card is bound, and `verifySecureKey` checks neither.  A restart empties the map
and ends the handlers; the database and the outside world keep their state.
`used`, `ledger`, `consumed`, `vouched` and `crashes` record what happened, for
the properties; no guard of a handler reads them, except that fresh nonces are
fresh and that `crashes` is bounded.

Abstractions: a digest is equal to another when the inputs are
(`SecureKeyMatches`); columns that no handler looks at are left out; `getCardList`
reads and changes nothing, so it is no action; `changePasswordSimplePay` cannot be
reached, because `switchAction` has it commented out (lines 60-64), and is not
modelled; the B2C
server's `getUserPayInfo` and `payCallBack`, and KICC, answer arbitrarily.
`Faults` names what may fail: `db` (an UPDATE or INSERT of a step that ignores
or reports it), `kicc` (approved, but the answer is lost), `b2c` (`payCallBack`
throws).

### Runs

| run | question | bounds | result |
|---|---|---|---|
| `pay_server` | what survives every interleaving? | 2 threads, 1 card, 2 keys, 2 nonces, each second step twice, failing updates, 1 restart | 725 thousand states, passes |
| `pay_serial` | are the handlers right one at a time? | 1 thread, 2 cards, 2 keys, 2 nicknames, 2 nonces, each second step twice, lost KICC answers, throwing B2C server, 1 restart | 961 thousand states, passes |
| `pay_promise` | does the server implement the promise, and answer? | 2 threads, 1 card, 2 keys, 2 nonces, 2 orders, one delivery, no faults | 24 thousand states, passes |
| `pay_nonce_race` | is a nonce charged once when delivered twice? | 2 threads, 1 nonce | violated |
| `pay_deleted_back` | does a deleted card stay deleted? | 2 threads, 1 card | violated |
| `pay_reset_replay` | does a reset nonce work once? | 1 thread, 1 nonce, two deliveries | violated |

The bounds are enough for the cases of interest: two threads give every race
between a reader and a writer of one row or one map entry; two nonces give an
old and a new request of one member; two keys tell the confirmed key from the
unconfirmed one; one restart hits every step of a handler.  Symmetry over
threads, nonces and cards is used in the safety runs only.

Two of the properties need a word.  In the code a payment may carry the
placeholder `BILL_KEY` that step 1 stores (the member paid with a token that is
not bound yet), and a rename or deletion that read the card before KICC's callback
unbinds it again.  Neither "no payment has the placeholder" nor "a bound card
stays bound" is therefore true, and TLC finds both histories.  What holds, and
what `pay_server` checks, is:

* `InUseBillable`: a card in use has an issued billing key, in the table and in
  the hands of every payment that read it in use.  It needs that every statement
  writes flag and key together and from one copy.
* `StatusSettles`: a binding or deletion is undone only by a handler that had
  read the row before.  Once the table and all copies under way agree on it,
  nothing undoes it: not a rename, callback, reset or restart.

The three violations are disagreements between what the code does and what it
says; `findings` in PROJECT.json quotes the lines.

### Fairness

`FairSpec` is weak fairness of each worker's steps after its request started: a
servlet container runs a started handler to its end, and none of the handlers
waits for another.  Whether clients send requests at all is up to them, so the
actions that start a request are not fair.  KICC and the shop answer or fail;
a call that hangs for ever is not modelled.

### Proofs

Checked by TLAPS for every number of threads, members, cards, keys, nonces,
deliveries, restarts, and every set of requests and faults:

| theorem | property | inductive invariant |
|---|---|---|
| `TypeCorrect`, `TypeSafe` | `TypeOK` | `TypeInv`: types, and `ControlOK`: a handler has the locals its step reads |
| `BillableSafe`, `StatusSafe` | `InUseBillable`, `StatusSettles` | `CardInv`: every row in use has an issued billing key (`RowsBillable`), and so has every copy that a handler writes back or pays with (`CopyBillable`) |
| `ConsumedSafe` | `ConsumedNonceGone` | `NonceInv`: all places that hold a nonce (map, handlers, tickets) agree on member, purpose and data; an entry that a reset prepared is nowhere else yet |
| `KeysSafe` | `KeyProvenance` | `KeyInv`: copies and confirmed resets carry vouched keys; uses `NonceInv` to identify the confirmed entry with its ticket |
| `ChargedSafe` | `ChargedAfterConsumed` | `ChargeInv`: a handler that charges holds the entry of its own request, which was consumed; every charged nonce is consumed and its ticket a payment's |
| `SettledSafe` | `Settled` | `SettleInv` adds that finitely many handlers are in flight, so that they can be counted |

Where concurrency breaks a property, the theorem says what suffices:

| theorem | property | assumed | inductive invariant |
|---|---|---|---|
| `ChargedOnceSafe` | `ChargedOncePerNonce` | one thread | `OnceInv`: a handler that read an entry finds it unchanged when it removes it; what it has taken is not charged yet |
| `DeletedSafe` | `DeletedStaysDeleted` | one thread | `CopiesCurrent`: the copy of a deleted row is deleted |
| `ResetSafe` | `ResetTakesEffect` | one thread, no failing UPDATE | `ResetDone`: between the two statements all the member's cards have the new key |
| `PromiseSafe` | `KeepsPromise` (the refinement) | one delivery per request | `DeliveredOnce`: no two handlers work on the same nonce, and one that is being worked on has no delivery left |

The first three hold with repeated deliveries and restarts, the last with any
number of threads and with every fault.  The refinement reads the live nonce of
a member off the map and the armed nonces off the handlers that found their own
request's entry (`Holding`): verifySecureKey takes the nonce when it reads the
entry, gives it back armed until KICC answers, and a removal drops whatever the
map holds by then.

The invariants are needed because the properties are not inductive: a handler
writes what it read steps ago.  `SimplePayInvariants` states them, TLC checked
them on the instances before they were proved.  The assumptions are
`NilAssumption` and `SimplePayAssumption`: `Nil` is none of the values and the
parameters have their types.  Only model-checked: the two liveness properties.

## 4. The authentication server

`AuthFile` is the record file: the sequence of what was written to it (records,
line feeds, carriage returns), how `readLine` and the tokenizer read it, and how
records are appended and copied.  `AuthClient` is the messages of the client
library.  `AuthServer` puts them together: a worker's record in `call` says
which access to the file, or to its temporary copy, comes next.
`AuthRegistry` is what the file promises.

* Cuts: the id check, the check that the file exists, the append; the copying,
  the delete, the rename; the drawing of a nonce and the login.  A client's
  request belongs to the first file access it triggers.  The copying of a rewrite
  is one step: nothing reads the temporary file but the rename.
* An answer that steers nothing is left out.  A password change verifies the
  current password, computes the new digest, answers "updated" and stores
  nothing; it is an action that changes nothing.
* The franchise class is the manager class with one column less; one module
  stands for both.
* Init: a file with one record, with or without a line end after it, which is
  what a registration and a removal leave.
* Failures: `delete` and `rename` may fail, workers crash anywhere, a login
  request may be delivered to any session and as often as the network likes.
* `live`, `rewritten`, `overlapped` and `accepted` are histories for the
  properties.  `overlapped` is set when a removal starts, or a record is written,
  while a rewrite is under way or was cut off after its delete; and when a record
  is written without a separator because there was no file when the worker
  looked, and by now there is one.  Two registrations that look while a rewrite
  has the file deleted do that: their records share a line, the second cannot be
  found, and the removal of the first removes both.  Three workers are needed,
  so TLC shows it on a larger instance than `auth_files` only; without the case
  `KeepsRegistry` is false and its proof fails.

| property | says | exempt |
|---|---|---|
| `LoginOnce` | a login request logs in once | |
| `LoginSound` | a login has the password of a registration whose removal was not answered | histories with `overlapped`: two rewrites can bring a record back |
| `KeepsRegistry` | refinement of `AuthRegistry`: the two files together hold what was registered and not removed, whatever crashes or fails | the same: a record appended during a rewrite is lost |
| `FoundUntilRewritten` | a registered id is found | a file that was rewritten: its last line end and the next separator make an empty line, behind which nothing is found |

`auth_files` checks them on Windows: 2 ids, 2 passwords, 2 workers, 2 writes, 2
removals, 2 nonces, 1 crash.  Two workers overlap any two operations; two writes
and two removals let a registration fall before, into and after a rewrite, and
one rewrite follow another; one crash falls into any gap.  `auth_linux_lookup`
shows that on Linux `RegisteredFound` fails with the second registration: the
separator `"\n\r"` is itself two line ends.

The five properties are proved for any number of workers, ids, passwords,
records and removals (section 10).

No fairness: a crash may leave the rename undone for ever, the code has no
recovery, so nothing is promised to happen.

## 5. The browser wallet

`WalletData` is the wallet's formats: backup, messages, MAC, what is encrypted
under what, and how a backup is cut into its parts again.  `BrowserWallet` is
the pages, the storages of the devices, the network and the account's wallet at
the server; `WalletPromise` is what they promise together.

* A page is a record: its device, password, key pair and the save it is in the
  middle of.  Reading the storage is atomic, `saveData` writes it item by item; a
  page may be closed, or its storage be full, between two items.
* Requests are handled late and several times, answers of a closed page reach
  nobody.  The server overwrites a wallet it has; the browser refuses to.  An
  account without a wallet is answered with success and no data.
* `Wallet.Type` is not a part of the state (`setType` lets a page use either
  type), os and iteration count are part of `version`, the backup's key pair is
  drawn at the first click instead of at loading.  The address hashes the public
  key's text for one type of wallet and its bytes for the other, as in the code.
* `raced` exempts a device on which two pages save the same type at once.

| property | says |
|---|---|
| `SignatureVerifies` | what signs is the private key of the public key shown, raced or not |
| `WalletConsistent` | a wallet with its MAC is one key pair's and one password's, whole |
| `KeepsWallets` | refinement of `WalletPromise`: a device keeps its first wallet of each type, and a restorable wallet appears after its backup was stored |

`wallet_browser`: 2 key pairs, 2 passwords, 2 pages, 2 devices, 1 id, known to
the server or not, 2 requests; a public key of two symbols, HMAC and salt of
one, so that a cut at the wrong place is seen.  Two pages on one device race, two
devices restore from one account; a second key pair is a second registration.
No fairness: pages are closed at will and requests may be lost.

Not modelled here: `getHmacPsw` and `getEncryptedHmacPsw`, which read and return,
and the page `RestoreWalletTest`, which is the same flow without the server.

## 6. The CryptoJS bundle

The wallet's cryptography is the second copy of CryptoJS in the bundle, which
replaces the first when it is loaded.  Modelled is what has state: the
buffering in blocks (`WordArrays`), hashers (`HashStream`), block ciphers with
chaining, counter mode, padding and the OpenSSL format (`CipherStream`), HMAC,
PBKDF2 and EvpKDF over a hasher whose arrays may be shared (`KeyDerivation`).  A
byte is the set of the symbols whose exclusive or it is, so that exclusive or is
symmetric difference; compression function, block cipher and digest are
uninterpreted.  `CryptoStream` runs one of them at a time (`job`), and the hash
of what was just decrypted, which is how a restored wallet gets its address.

| property | compares | with |
|---|---|---|
| `DigestOfMessage` | a message hashed in pieces | its padding and blocks by definition |
| `CiphertextOfMessage` | a message encrypted in pieces | CBC and CTR by definition |
| `RoundTrip` | a ciphertext read and decrypted in pieces | the message |
| `DerivedKeyCorrect` | the loops of PBKDF2 and EvpKDF over shared arrays | their definitions |

`crypto_stream`: words of two bytes, hash blocks of four words, cipher blocks of
two, pieces of 0, 1, 2, 3 and 5 bytes, messages up to 18 bytes when hashed and
11 when encrypted, a counter that wraps, keys of 1 to 5 words and 1 to 3
iterations.  Pieces fall before, at and after a word's and a block's end, the
length field fits into the last block or not, a derived key ends within a block
of the hasher or at its end.  `excess` exempts word arrays that hold more bytes than they
count, which the CTR decryptor returns: their digest depends on the bytes past
the count.  An algorithm is given its pieces by `process` and `update`, the bundle's
interface; the wallet gives it one.

The four properties and the types are proved for words, blocks, pieces, messages
and keys of any size (section 10).

## 7. The Android wallet

`AndroidWallet` is `Wallet` with `MoaWalletHelper` and the bridge to the WebView
that makes key pairs and signatures.  Two threads run: the user interface's,
which calls the library, and the JavaScript bridge's, which brings the answers.
The process may end between any two steps, the key store may fail, and `history`
records what the properties exempt.

A step makes at most one write: of one preference, of the mode or of the password.

* `setValuesInPreferences` is two steps, `ChoosePref` and `WritePref`: between
  `getPrefName()` and the write the other thread may change the mode, and a write
  then lands in the file that was chosen.  `updateWallet` reads its five values one
  by one (`GetPref`) and changes the mode in a step of its own (`GotTempWallet`).
* One step still reads several preferences where the code reads them one after
  the other: what a MAC is made of, the salt and the values of one backup, and
  `generateSignedTransaction`.  Only calls on the thread of the user interface
  change the mode, and a removal is one `apply()` on that thread.
* Fields are read as they were last written; that the bridge's thread may see an
  older value of an unsynchronised field is not modelled.
* Without the properties of a file the hash algorithm is an empty string and
  `generateAddress` throws: `savePair`, `setWalletPref` and what follows them end
  there (`Throws`) and leave the password and the mode as they are.  A process
  that ends inside `initProperties` leaves such a file, because the next one sees
  `Version.Info` and returns early.
* The receiver and the WebView are set; the server is the application's: it has
  the last backup it was sent, and sending may fail.
* `Properties` stands for the eight preferences that follow `Version.Info`; the
  RSA key that wraps stored values is folded into them, its failures are not.
* That `apply()` writes later is a crash that falls before its last writes.
* `verifiedSign`, `getHmacPsw`, `getEncryptedHmacPsw` and `verifyDateOfBirth`
  change nothing and are left out.
* Init: nothing stored, a backup only, a wallet, or a wallet and a finished
  reset that was not taken over yet.

| property | says | exempt |
|---|---|---|
| `WalletOpens` | a MAC in a preference file is of a whole wallet that its password opens | histories in which two threads worked at once, or a backup from another device was reset |
| `UpdateKeepsWallet` | the wallet that `updateWallet` puts into use opens, under every password it opened under before, in one of the two files, at every step and after every crash | see below |
| `PasswordCleared` | no password stays in the field when nothing is under way | after an exception |
| `CreatedAsAsked` | what the application is told of is stored and backed up under the password it asked for | overlapping calls, a failing key store |

`UpdateKeepsWallet` follows the wallets that `updateWallet` takes in hand
(`TakenInHand`, remembered in `history.kept`), on two conditions.

* The WebView owes no answer when `updateWallet` is called.  If it does, a save
  of the bridge chooses `tempWallet` while `updateWallet` has the mode set, and
  writes into it during the copy; TLC finds the loss in nine steps.
* The two files agree on `Version.Info` and `OS.Info`, which the MAC covers and
  `updateWallet` does not copy.  If they do not, the copy never verifies, and the
  temporary wallet is gone: a restore that ended after it stored the salt, a
  reset, and `updateWallet` (three calls and one crash).

Both are listed under `hazards`.  Each exemption of the other properties was
checked to be necessary, too: without it TLC finds a history.

`wallet_android`: 2 passwords, 2 calls, 2 faults, 4.4 million states.  Two calls
are a create and a reset, a reset and its taking over, or two that overlap; two
faults are a crash and a second one during what follows it.

## 8. The desktop wallet

`DesktopWallet` is `MoaWalletAPI` in the flow of its test program
`MoaBCFCWalletPswReSetTest`: a wallet that is not restorable, a restorable one
with a backup, and the reset of its password through a temporary file that is
tried before it replaces the wallet.

* Three files, each missing, empty or a wallet; writing is a truncating open and
  a write.  The program exits when it is to create a file that exists.
* The key pair and salt of `InfoGen` are constants in the source, so they are in
  the model (`Given`).  Another device may replace the backup at any time.
* `FranchiseModuleVerifyTest` updates the wallet before it tries the temporary
  file; the model follows the program that tries first.
* The password of a reset that exists is the server's.  Version, os and
  iteration count are constants and left out; signing and the getters only read.

| property | says | exempt |
|---|---|---|
| `WalletOpens` | what a password verifies opens with it, to the key of the public key and address | |
| `KeyKept` | no reset changes the key pair of the restorable wallet | |
| `NeverLost` | at every step and after every crash one of the two files holds the owner's wallet whole | a reset that is started again after a crash, which truncates the temporary file |

`wallet_desktop`: 2 passwords, 5 calls, 2 ends of the process: issue, reset, try,
take over and one more, interrupted twice.

The wallets have no fairness: the user decides whether to go on, and a process
that ended may never be started again.

## 9. All runs

| run | module | distinct states (about) | outcome |
|---|---|---|---|
| `pay_server` | `MCSimplePay` | 725,000 | passes |
| `pay_serial` | `MCSimplePay` | 961,000 | passes |
| `pay_promise` | `MCSimplePay` | 24,000 | passes, with liveness |
| `pay_nonce_race`, `pay_deleted_back`, `pay_reset_replay` | `MCSimplePay` | | each violates its property |
| `auth_files` | `MCAuthServer` | 1,080,000 | passes |
| `auth_linux_lookup` | `MCAuthServer` | | violates `RegisteredFound` |
| `wallet_browser` | `MCBrowserWallet` | 184,000 | passes |
| `crypto_stream` | `MCCryptoStream` | 1,700 | passes |
| `wallet_android` | `MCAndroidWallet` | 4,400,000 | passes |
| `wallet_desktop` | `MCDesktopWallet` | 127,000 | passes |

Deadlock is checked in `pay_server` and `pay_serial`, where a card can always be
renamed, and in `pay_deleted_back` and `pay_reset_replay`; in the other runs
nonces, calls or requests are used up at some point, and a behaviour comes to
its end.  Each
property has a mutant, a plausible mistake in one mapped definition that makes
its run fail (PROJECT.json, `mutants`); the mutants stand in the modules before
the definition they replace and begin "A mistaken".

Three refinements are checked and proved: `SimplePay` implements
`PaymentPromise` (for one delivery), `BrowserWallet` implements `WalletPromise`,
`AuthServer` implements `AuthRegistry` (on Windows and Linux).

## 10. Proofs

Each proof module EXTENDS the module it is about.  A proof is an inductive
invariant, one lemma per group of actions that shows it kept, and theorems that
read the properties off it.  The payment server's are in section 3.

| theorem | property | inductive invariant |
|---|---|---|
| `AuthLoginOnce` | `LoginOnce` | `SessionInv`: a nonce is drawn for one session, each session in progress has a nonce of its own, and nothing logged in with one that is still in use |
| `AuthTypes` | `TypeOK` | `TypeInv`: `SessionInv`, and the files are sequences of records and line ends |
| `AuthKeepsRegistry` | `KeepsRegistry`, the refinement, unless `Platform` is "other" | `Undisturbed`: as long as nothing overlapped, one worker at most rewrites, the temporary file is complete when the file is deleted, every record is live, and none follows another without a separator |
| `AuthLoginSound` | `LoginSound`, unless `Platform` is "other" | the same: what the reader finds on a line is a record of the file, so it is live |
| `AuthFound` | `FoundUntilRewritten`, if `Platform` is "windows" | `Unrewritten`: the file was appended to only, starts and ends with a record, and one separator stands between two; the reader cuts such a file into one line per record |
| `BrowserTypeSafe`, `BrowserSignatureVerifies`, `BrowserWalletConsistent` | `TypeOK`, `SignatureVerifies`, `WalletConsistent` | `WalletInv`: what pages save, requests, answers and accounts carry belongs to one key pair and one password, and a MAC is of such a wallet (this alone gives `SignatureVerifies`, raced or not); on unraced devices what a page has written is the beginning of what it saves |
| `BrowserKeepsWallets` | `KeepsWallets`, the refinement | the same |
| `AndroidTypeSafe`, `AndroidPasswordCleared`, `AndroidUpdateKeepsWallet`, `AndroidWalletOpens`, `AndroidCreatedAsAsked` | the five properties of `wallet_android` | `Typed`; `Cleared`: only a restore or a reset on its way has the password in the field while the bridge is quiet; `Started` and `Keeping`, `AllGood`, `Asked`, below |
| `DesktopTypeSafe`, `DesktopOpens`, `DesktopKeyKept`, `DesktopNeverLost` | the four properties of `wallet_desktop` | `DesktopInv`: every wallet and backup is sound, the restorable ones are the owner's, and at every step of a reset one of the two files is safe |
| `CryptoTypes`, `CryptoDigest`, `CryptoRoundTrip`, `CryptoCiphertext`, `CryptoKeys` | the five properties of `crypto_stream` | `StreamHolds`, below |

The invariants of the Android wallet speak of what a thread carries from one
step to the next:

* `Started`: the device's own file has its version as soon as `setContext` is done,
  so no crash starts writing properties into it again.  `Keeping`: how far
  `updateWallet` is.  While it reads, what it has read is what `tempWallet` has;
  while it writes, so is what it has written to `moaWallet`; then `moaWallet` has the
  whole wallet, and only then `tempWallet` may go.  All the time the bridge is quiet.
* `AllGood`: in orderly histories every MAC, stored or on its way, is of one key
  pair encrypted under its password and salt; a thread that saves holds such a
  pair, the file it has chosen is the mode's, and the other thread is idle.
* `Asked`: as long as no other call came in between, the password in the field is
  the one `create` was given, and what the bridge has stored so far is of the pair
  it holds under that password, phase by phase (`SavedSoFar`).

All of these theorems hold for any number of workers, nonces, pages, devices, keys, passwords,
calls and faults, and for words, blocks, pieces and messages of any size.
"other" in `Platform` stands for a system that is neither Windows nor Linux:
`Separator` is empty there, all records run together, and nothing but the login
sessions and the types is right.

`StreamHolds` has a part for each job of `CryptoStream`:

* `HasherHolds`: a hasher that was fed message m and compressed q blocks has
  hashed the first q blocks of m and holds the rest of m; unless `excess`, what is
  in its buffer past the count is zero, which the marker of the padding needs.  The padding of
  that rest is the end of the padded message, so finalize gives the digest by
  definition.
* `CipherHolds`: an encryptor that was fed m gave the beginning of what the mode
  makes of m, and its mode stands behind the last block given (previous block or
  counter).  A decryptor was fed the beginning of the ciphertext by definition
  and will be fed the rest, and it keeps one block back when there is padding.
* `KdfHolds`: the hasher waits in an array that no result is in, the key consists
  of the blocks of the reference so far, and the block's array and the last
  result are the reference's.  `DerivedKeyCorrect` alone says nothing of which
  arrays are shared, and sharing is what can go wrong.

The proofs about `CryptoStream` and about how `AuthFile` is read and copied are
about functions defined by recursion.  The library's induction theorems take the
property as an operator, which the provers cannot instantiate; `Induction`
states induction with a set instead (`UpTo`: a set that has 0, and with every
number below n the next one, has all up to n), from the well-foundedness of `<`
on `Nat`.  That a recursive function exists, so that its definition says what it
is, follows from `UpTo` too, or from `Iterated` when its values are in a known
set.

Assumptions: `AuthFileAssumption`, `AuthServerAssumption`, `WalletDataAssumption`
(the parts of a backup are not empty), `BrowserWalletAssumption` (`Closed` is no
key, page or open page), `AndroidWalletAssumption`, `DesktopWalletAssumption`,
`WordArraysAssumption`, `HashStreamAssumption` (the length field is at least two
words long, as in the code, and not longer than a block),
`CipherStreamAssumption`, `KeyDerivationAssumption`; all are types and sizes of
the parameters or say that a mark is none of the values.

Every invariant and every action property of a passing run is proved, the
refinements included.  Only model-checked: liveness (`RequestsAnswered`,
`ApprovedEventuallySettled`), which is beyond the prover.

## 11. Not modelled

* **Transaction server**: the client builds and sends a transaction, but the
  server that receives it, the selector of unspent outputs and the database
  layer (`Table`, `Query`) are not in the repository.  What a statement changes,
  what a failing one leaves behind and whether requests run at the same time
  cannot be read anywhere; a model would be of a guess.
* **Peer-to-peer node**: a prototype whose servers and client (`TCPServer`,
  `Server`, `UDPClient`) are missing and whose methods end in TODO.
* **User database access**: three statements without a caller.
* **Cryptographic wrappers** (`moaCryptoCoreAPI`, `moaECDSACoreAPI`): stateless
  calls of the JDK and of the bundle.
* **`updateFranchUserPwd`**: private, without a caller.
* **The rest of the bundle** (`moaCryptoModule`, 32,571 of the repository's
  33,392 lines of JavaScript): number theory of jsbn, EC and ECDSA, ASN.1, RSA,
  X.509, JWS, the first copy of CryptoJS, ciphers and hashes the wallet does not
  use.  It is vendored, stateless or never called in this repository; modelling
  it would say nothing about this program.  The map covers what the program
  reaches of it, and the Java and JavaScript sources of the components above.
* Logging, message formatting and the web layer's parsing: no property speaks of
  them.
