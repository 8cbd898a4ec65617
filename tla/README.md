# addplus: models of the permission, login and menu core, and of the page encryption

This directory holds TLA+ models of the back end in `src/` and of the
cryptography its pages and its server share, the TLC configurations that check
them, and TLAPS proofs of the properties that matter most. Paths below are
shortened:

| short | path |
| --- | --- |
| W | `src/addplus_web/src/main/java/com/addplus/server/web` |
| A | `src/addplus_api/src/main/java/com/addplus/server/api` |
| C | `src/addplus_connector/src/main/java/com/addplus/server/connector` |
| Q | `src/addplus_consumer/src/main/java/com/addplus/server/consumer` |
| JS | `src/addplus_web/src/main/resources/static/js` |

## 1. The system

addplus is a framework for back offices and the REST APIs next to them. Any
number of *web instances* (`addplus_web`) serve administrators. They share a
MySQL database (through MyBatis-Plus mappers), a Redis master with read
replicas, and a RabbitMQ broker from which `addplus_consumer` stores operation
logs. The instances talk to each other in one way only: a Redis topic
that tells everybody to rebuild the Shiro filter chains.

```
 administrator ──► Dispatcher ──► services ──► MySQL  (roles, menus, elements, role-menu rows)
      │                              │ publish              ▲
      ▼                              ▼                      │ grouped, paged query
  filter chains ◄── swap ── initFilterChains ◄── Redis topic (every instance)
      │
      └─► login ─► retry counter, captcha, sessions, serial numbers, dictionary (Redis)
                    operation log ─► RabbitMQ ─► consumer ─► MySQL

 index.html ─► aes.js, sha1.js (CryptoJS 3.1.2) ── Base64 text ──► AESUtils, Base64 (server)
```

The static page `index.html` enciphers and hashes what is typed into it. Its
scripts come from CryptoJS 3.1.2, which the repository carries as readable
components (`JS/components`), and the server has the other end of the AES text.
The library keeps state of its own: a hasher or a cipher is fed in pieces,
finished and reset, and its words are shared between callers.

### Inventory

| component | where | state | operations | interacts with | what makes it correct |
| --- | --- | --- | --- | --- | --- |
| Permission tables | A/mapper/authority, A/model/authority | rows with an `is_deleted` column | generated CRUD, the grouped rebuild query, its count and its page | every service below | a row counts while it is live; the pages of a query add up to the query |
| Chain rebuild | W/shiro/config/shiro/ShiroFilerChainManager, W/redis (listener, container) | staged and live chain maps, the role lists held by the `roles` filter | `initFilterChains`, topic message, start-up | tables, topic, requests | what is in force is what the tables say; unlisted urls stay closed |
| Chain lookup | W/shiro/config/shiro/CustomPathMatchingFilterChainResolver, W/shiro/filter | none of its own; reads the live map without a lock | `getChain`, the filters' decisions | chain rebuild | a request is decided as some version of the chains decides it |
| Role-menu, role, menu, menu-element services | W/serviceimpl/web/authoritymodule | transactions | add, edit, delete, save grants, refresh | tables, topic | what is committed gets into force; deletion is complete |
| Menu tree | `MenuFunctionServiceImpl`, A/utils/MenuFunctionTreeUtils | `pid` and `path` columns | add, move, delete, tree pages | tables | the path of a menu leads through its parents; pages show every menu once |
| Account lock | W/shiro/config/sessioncluster/CredentialsMatcherRdis | a Redis counter with an expiry per account | `doCredentialsMatch` | login | attempts are bounded, locks end |
| Login and captcha | W/shiro/service/SystemAdminService, W/shiro/config/shiro/AdminLoginShiroRealm | captcha key with a TTL, login counter | `getVerify`, `login`, `logout` | account lock, sessions | a captcha is tried once per concurrent request; only due logins succeed |
| Sessions | W/shiro/config/sessioncluster `RedisSessionDAO`, `RedisManager`, `RedisCache` | serialised sessions and authorisations | read, update, delete | replicas | a session that was ended stays ended |
| REST token | `TokenService`, `TokenRecord` | two keys per member | issue, check, refresh asynchronously | replicas | one valid token per member |
| Data dictionary | `SysDataDictionaryServiceImpl`, `CommonServiceImpl` | table and a Redis hash | add, update, delete, reload at start-up | Redis | cache and table agree |
| Serial numbers | `CommonServiceImpl` | Redis counters | `memberInviteCode`, `getOrderSerialNumber` | replicas | numbers are distinct |
| Protocol texts | `ProtocolServiceImpl`, `CommonProtocolServiceImpl` | row and cached text | update, read | Redis | readers see the latest text in the end |
| Operation log | `LogRecord`, Q `LogOperatorConsumer` | queue | publish, consume | broker | every recorded operation is stored once |
| Uploads | `AliOssUpload`, `FileUploader`, `OssServiceImpl` | static fields shared by requests | upload, remove | object store | an upload stores its own file |
| Replica rotation | `RedisSlaveTemplateManager` | shared index | next replica | all readers | an index in range |
| Page scripts | `static/index.html`, JS/sha1.js | none | `encryptByDES`, `decryptByDES`, `encryptBySHA1`, hash and HMAC in three notations | ciphers, hashers | what the page enciphers it can read; both scripts hash alike |
| Server end of the page encryption | A/utils/Base64, A/utils/security/AESUtils | none | `encode`, `decode`, `encryptAES`, `decryptAES` | page | page and server read each other; null only where something is wrong |
| CryptoJS words, buffers, encoders | JS/components/core.js, enc-*.js, lib-typedarrays.js | word arrays that hold more bytes than count, the buffer of a stream | concat, clamp, append, process, stringify, parse | all below | pieces leave no trace; text and bytes survive |
| CryptoJS hashers, HMAC, key derivation | JS/components/core.js, md5.js … sha3.js, hmac.js, pbkdf2.js, evpkdf.js | state, buffer, bytes counted | update, finalize, reset | buffers | the standard digest, MAC and key |
| CryptoJS ciphers | JS/components/cipher-core.js, mode-*.js, pad-*.js, format-hex.js, aes.js, tripledes.js, rc4.js, rabbit*.js | key schedule, mode register, keystream state | encrypt, decrypt, process, finalize, reset, formats, passwords | buffers, key derivation | the standard cipher; what goes in comes out |
| The rest (dispatcher, demo services, export records, utilities, wiring, rolled-up and minified scripts, jQuery, layui) | see `PROJECT.json` | none that survives a call | | | |

The behaviours that make this hard are concurrency between request threads of
one instance (nothing but `initFilterChains` is synchronized), between
instances (Redis commands interleave), a message that is delivered at most once
and only to whoever is subscribed, messages that are published inside an open
transaction, instances that crash and start again, and logical deletion, which
leaves rows behind that other queries must know to ignore. `PROJECT.json`
lists each such place as a hazard with its line, and the properties that cover
it; hazards of components that are not modelled are in section 8.

The scripts are sequential. What is hard in them is arithmetic at boundaries:
arrays that hold bytes past the ones that count, buffers that end on a word or
in the middle of one, counters that wrap, digests that are cut by a count,
arrays that are changed in the caller's hands, loops that look for a byte that
need not be there.

## 2. Modules

| module | models | kind |
| --- | --- | --- |
| `AuthorityStore` | rows of the permission tables, the rebuild query with its count and pages, the decision a chain set gives | operators |
| `AuthorityRefresh`, `AuthorityRefreshProofs` | operations of the authority services, the topic, `initFilterChains`, crashes | state machine, extends `AuthorityStore`; proofs |
| `MCAuthorityRefresh` | constants of the runs | model checking |
| `ChainLookup`, `ChainLookupProofs` | one instance: `getChain` against the swap of the map | state machine, extends `AuthorityStore`; proofs |
| `LoginLock` | `doCredentialsMatch`, one Redis command per step | state machine |
| `SignIn`, `MCSignIn`, `SignInProofs` | captcha, realm, `updateLoginUser` and edits of the account, around `LoginLock` | state machine, extends `LoginLock`; proofs of both |
| `MenuTree`, `MCMenuTree`, `MenuTreeProofs` | additions, moves, deletions and written paths of menus, one statement per step | state machine; proofs |
| `MenuForest`, `MCMenuForest`, `MenuForestProofs` | the pages of menus, query by query, `getMenuFunctionTree` and the marks on the role page, while the table changes | state machine, extends `MenuTree`; proofs |
| `WordArrays`, `BlockBuffer`, `BlockBufferProofs` | `WordArray`, `BufferedBlockAlgorithm` of core.js | operators; proofs |
| `BlockModes` | modes, over any block cipher | operators, extends `BlockBuffer` |
| `Padding` | the six paddings | operators, extends `WordArrays` |
| `MessagePipe` | what a caller expects of an encryptor and the decryptor at the other end | abstract specification |
| `CipherPipe`, `MCCipherPipe`, `CipherPipeProofs` | `Cipher`, `StreamCipher`, `BlockCipher`: both ends, piece by piece | state machine, extends `BlockModes` and `Padding`, implements `MessagePipe`; proofs |
| `Hashers`, `HashStandards` | hashers, HMAC, PBKDF2, EvpKDF over any compression function; what RFC 2104, RFC 2898 and the hash standards say of them | operators |
| `HashPipe`, `MCHashPipe`, `HashPipeProofs` | a hasher or HMAC fed piece by piece | state machine, extends `HashStandards`; proofs |
| `AES`, `DES`, `RC4`, `Rabbit`, `Sha1` | the ciphers and SHA-1, from their tables up | operators |
| `Encoders`, `CipherText`, `ServerCipher`, `PageSha1` | text notations; formats, password ciphers and the page's own functions; Base64.java and AESUtils; sha1.js | operators |
| `Crypto`, `MCCrypto` | samples of the pure functions' inputs, and what must hold of the outputs | algorithms against reference definitions |

### AuthorityStore and AuthorityRefresh

`db` holds the committed live rows: `roles`, `menus`, `elems` (each element's
url and menu, or nothing), `grants` (role-menu rows) and `dead` (role-menu rows
with `is_deleted = 1`, which only a physical `DELETE` still sees). `admin[a]` is
the progress of the operation a request thread runs; `builder[n]`, `staged[n]`,
`live[n]` and `cfg[n]` are an instance's rebuild, the chains of
`otherfilterChainManager`, those of `filterChainManager`, and the role list the
`roles` filter keeps for each url. The two managers construct filters of their
own, but `putAll` moves the staged manager's filter lists into the live map, so
the filter being configured is the one that serves requests: `cfg` is one
variable, and a rebuild changes it before the swap.

Every operation that writes is one action per committed statement group: an
insert with its own commit and then `Publish`; a transaction that commits as a
whole; `saveRoleMenuFunction` in four steps (`SaveRead`, `SaveWrite`,
`SavePublish`, `SaveCommit`) since it publishes inside its transaction. Rows
that an open transaction has written are locked for other writers
(`Unlocked`, `Insertable`). `logicalDeletedRoleMenufunctionById` calls
`updateById` on an entity whose `is_deleted` is set; MyBatis-Plus leaves the
logic-delete column out of the generated `SET`, so the row stays, and the model
says so (`Commit(db)`).

`initFilterChains` is `StartRebuild`, `CountRows`, `ReadPage` (once per page),
`ClearLive`, `PutAll`. Commits fall between these steps, so count and pages may
come from different tables. A failed rebuild leaves the live chains alone and
its staged ones and role lists half done; an instance that crashes loses its
queue; one whose subscription drops misses messages and does not rebuild when
it is back. `behind` is a history variable: the instances whose last rebuild
began before the last commit.

### ChainLookup

One instance, from a request's view. A rebuild stages an arbitrary version
(any that `DefaultDeny` of `AuthorityRefresh` permits), then clears the live
map and fills it entry by entry. A request asks `hasChains`, loops over names
(and may meet a `ConcurrentModificationException`), fetches the chain under the
name it picked, and runs the filters. `seen` collects what the versions that
were current while the request ran would have answered.

### LoginLock and SignIn

`LoginLock`: one account, one Redis counter, any number of login threads.
`doCredentialsMatch` is a sequence of Redis commands (does the key exist,
increment or read it, compare, check the password, delete or increment), each
an action, since nothing makes them atomic. A thread may die between any two.
`Collect` is the realm taking the result. `passed` (history) counts the password checks admitted since the key was last
removed, `pending` the threads that owe the counter an increment.

`SignIn` is the request around it: `code[v]` is the Redis key of a captcha,
`form[t]` the request a thread serves, `row` the account. `HasCode`, `GetCode`
and `DeleteCode` are the three commands on the captcha; `ReadAccount` is the
realm, which reads the row and calls the matcher (`Begin` of `LoginLock`);
`MatcherStep` is any step of `LoginLock` by that thread; `MatcherRefuses` and
`UpdateLoginUser` collect the result, and the latter writes the login count it
read plus one. That column has two more writers, both reachable through the
dispatcher: `updateUser` writes every column the client's entity has
(`UpdateUser` with a `given` count), and `UserServiceImpl.updateLoginUser`
writes the count a client sends, plus one (`ClientUpdatesLogin`). `due`
(history) starts again from whatever count a client wrote and adds one for each
login written back; `clash` remembers a login written back across another, and
`undone` one that was written back over a client's count it had not read.
`LoginsCounted` is about the count since the last write of a client, until a
login undoes that write. `UsesTheLock` says that every behaviour of `SignIn` is one of
`LoginLock`: the login never enters the matcher twice at once in one thread,
never touches the counter elsewhere, and so inherits what is proved of it. `UpdateUser`, `DeleteUserById` and the
two steps of `changePassword` edit the row meanwhile. `valid` and `opened` are
history variables that watch each request from start to end.

### MenuTree and MenuForest

`MenuTree` keeps rows with `pid` and `path`. `addMenuFunction` reads the
parent, inserts, and then sets its path in one transaction (`AddRead`, `AddCommit`:
others see the row with its path or not at all); a move reads the new parent and
later writes `pid` and `path` of the moved menu and of no other; a deletion
checks that there is something to delete and then deletes by path. A client
that updates a menu without a `pid` may write any path (`WritePath`); a blank
one stands for every text that names no menu (an empty text is not written:
`FieldStrategy.NOT_EMPTY` in `MybatisConfigConfig.java:66`). `moved`, `written`
and `raced` are history variables: menus that were moved, menus whose path was
written by a client, and menus that were hung under a parent that was deleted
meanwhile.

`MenuForest` adds one page to this table and its administrators. A page of the
administration reads some of the top-level menus (`BeginPage`: those of a type
that are on the page) and then the tree of each, with a query by path each
(`ReadTree`); the page of a user is one query for the menus of some roles
(`BeginUserPage`). The table may change between the queries, paths may be stale
or written, and `dept`, by which the queries order, is whatever clients entered,
so each query returns its rows in any order. The lists are put one after the
other as they come: a menu may be in the list twice, even with two parents,
and a child may come after its parent. `FillMap` and `Visit` are the two loops
of `MenuFunctionTreeUtils`, `father[m]` the `pid` in the row the hash map holds,
which is the one read last. `stage = "failed"` is the `NullPointerException` of a
second visit (`MenuFunctionTreeUtils.java:41`), or that of the caller when there is
no tree; `SortThrows` the one in `compareTo` where a menu was entered without a
`sort`. `shaky` (history) says that the table was out of order when the page
began, or has changed since.

- `ShownOnce` holds for whatever was read: a listed menu is a root or hangs in one
  place. It can be reached from a root unless it is below a menu that was moved
  under itself, which vanishes from the pages with all that is below it. In a
  longer cycle one menu always comes to the top, because its father was hung
  before it was visited.
- `RootsAreRoots` says for any order which menus are at the top.
- `PageFailsOnlyOnStale` says when a page can fail. It does fail where a path is
  stale: when a menu is moved to the top, those below it keep a path that begins at the old
  root and leads through the new one, and are listed under both.

### Word arrays, buffers and pipes

A word array is a record: `mem`, the bytes of all its words, and `sig`, how many
of them count. What lies behind `sig` is not lost: `concat` copies whole words
where the target ends on one and single bytes where it does not, and several
functions or-in or read what lies there. A buffer is such an array and the count
of bytes ever given. `Process` is `_process`: how many blocks are ready
(`BlocksReady`), what they are (`BlockAt`), what stays (`Spliced`).

`CipherPipe` has two ends over one line: `enc` and `dec` each have a buffer, a
mode register and a status, `out` is the ciphertext so far and `plain` what the
decryptor returned. `EncProcess`, `EncFinalize`, `DecProcess` and `DecFinalize`
take any piece, `Reset` starts both ends again. The register of a mode is one
block: the initialisation vector until the first block, then what the code keeps
as `_prevBlock`, `_keystream` or `_counter`. `DoProcessBlock` is the hook of that name: what an
`Encryptor` or a `Decryptor` of a configuration makes of a register and a
block. The block cipher is a parameter; the
run uses a small invertible one. `Pipe` maps this to `MessagePipe`: `sent`
is the part of the message handed over, `got` is `plain`, and the phase follows
the two statuses. `ImplementsPipe` says that each step is one of the pipe or
none: the reader has a prefix of what was written at every moment, and the whole
when both ends have finished.

`HashPipe` is a hasher or an HMAC (`object`), with `given` bytes of the message
and the `result` of `finalize`. `loose` remembers that what was hashed last held
bytes past the ones that count. `Compress` is a parameter, since the buffering,
the padding, the length field and the cutting are what differs between MD5,
SHA-1, SHA-2, SHA-3 and RIPEMD-160 outside it. `finalize` may be called once
before a `reset`, as its comment asks ("the finalize operation is effectively a
destructive, read-once operation").

### The pure functions

`AES` computes its tables as the code does, by walking the field, and its
deciphering key schedule with the code's indices, so that a key that is not
whole words reads rows that do not exist. `DES` has words as sets of bits.
`Rabbit` has words of `4 * Q` bits, since all its distances are multiples of a
quarter of a word or half a word less one; the run has `Q = 2`, and products fit
the numbers TLC has. `Sha1` is the compression function of the library, and the
one of `sha1.js` with `safe_add` and `rol`, which agree. A text is a sequence of
code units, and a Base64 or hexadecimal text is the sequence of its digits'
values. `ServerCipher` returns `Null` where `AESUtils` catches.

`Crypto` takes samples up and lays them down, one kind at a time (a word array,
a text, a block, a key, ...), and each property quantifies over the samples of
its kinds.

## 3. Runs

| run | question | result |
| --- | --- | --- |
| `refresh_all` | all operations and faults, one instance: is an instance that has caught up enforcing exactly the tables, and does a role pass only where it was granted? | `TypeOK`, `RebuildExact`, `DefaultDeny` hold; `OnlyGrantedAllowed` holds with the exception it names |
| `refresh_adds` | two instances, operations that commit before they publish: is every commit announced, and does everybody come to enforce it? | `StaleIsAnnounced`, `CatchesUp` hold |
| `refresh_save` | does `saveRoleMenuFunction` get into force? | no: `QuietMeansInForce` is violated |
| `chain_swap` | requests during swaps | `TypeOK`, `DecidedByAVersion` hold; the second is about requests that are allowed or denied, and about those no rebuild overlaps |
| `chain_window` | is every request filtered? | no: `NeverUnfiltered` is violated |
| `lock` | how many guesses does the lock admit, and does it end? | `TypeOK`, `EveryCheckCounted`, `AttemptsBounded`, `LockEnds` hold |
| `signin` | the whole login of one account while it is edited, its login count included | `SignInTypeOK`, `GuessesBounded`, `LoginWasDue`, `LoginsCounted`, `UsesTheLock` hold |
| `tree` | what a stored path is good for under concurrent edits, and where a client wrote one | `TypeOK`, `FindsItself`, `StaleOnlyBelowMoved`, `NoOrphans` hold |
| `forest_tree` | pages of menus, read while two administrators change the table: what do they show, and when do they fail? | `ForestTypeOK`, `ShownOnce`, `RootsAreRoots`, `PageFailsOnlyOnStale` hold |
| `pipe` | an encryptor and its decryptor, for every mode and padding and every cut into pieces | `ImplementsPipe`, `PiecesAreInvisible`, `LagBounded`, `ModesAreStandard`, `HangsOnlyOnNothing` hold |
| `hash` | a hasher or HMAC, for eight hashers and every cut into pieces | `HashIsStandard`, `MacIsStandard` hold with the exceptions they name, and `SlackShows`: without those exceptions they would be false |
| `crypto` | the pure functions on their samples | `TextSurvives`, `CiphersAreStandard`, `RabbitArithmetic`, `RabbitTurnsTheKey`, `KeysAreStandard`, `CiphertextSurvives`, `ScriptsAgree` hold |

### Where the code disagrees with its own words

1. `saveRoleMenuFunction` publishes inside its transaction. An instance that
   rebuilds at once reads the old rows, and no later message makes it rebuild.
2. Between `clear()` and `putAll()` the live map is empty, and a request then
   passes to the servlet without filters.

Others are shown by what a passing property has to leave out or to spell out:

- `addRoleMenufunction` does not look the role up. The row of a deleted role
  yields a url with an empty role list, which the roles filter takes for "every
  login" (the exception in `OnlyGrantedAllowed`).
- The query of a user's menus is in ascending depth, against the tree builder's
  comment that it works from the lowest level up. Every second level of a line
  of menus comes to the top (`RootsAreRoots`).
- A move leaves the paths of the menus below it as they were, although the column
  is documented as "the current menu's path" (`StaleOnlyBelowMoved`). Pages that
  list a menu under two roots for that reason throw (`PageFailsOnlyOnStale`).
- Logins that overlap are counted once, although `loginCount` is documented as
  "plus one for every login", and a client can set the count (`LoginsCounted`).
- `reset` of a cipher is documented to bring it back to its initial state
  (JS/components/cipher-core.js:98). Rabbit turns the words of its key round in
  the array it was given, so a reset, or a second cipher from that array, works
  with another key; another reset brings the first one back
  (`RabbitTurnsTheKey`).
- A digest that is cut by shortening `sigBytes` (SHA-224, SHA-384, SHA-3 of 224
  bits) still holds what was cut. HMAC, and PBKDF2 on it, take that in and are
  never the standard ones for these hashers; EvpKDF is, unless it iterates or the
  key ends within the cut words (`SlackShows`, `KeysAreStandard`).
- Whoever hands `update` an array that holds bytes past its `sigBytes` may have
  them hashed: if they are still in the buffer when it is finalized
  (`SlackShows`), and only then (`HashIsStandard`).
- ZeroPadding cannot take off the padding of an empty message: its loop runs
  past the front of the array and does not end (`HangsOnlyOnNothing`).
- The page enciphers with any key, but deciphers only if the bytes of the key are
  whole words, and the server only if they are 16, 24 or 32
  (`CiphertextSurvives`); the server's answer is null, as for a text that is
  damaged.
- `sha1.js` keeps the low byte of each character, CryptoJS encodes in UTF-8: they
  differ for every text that is not ASCII (`ScriptsAgree`).

What three of the passing properties do not say: `RebuildExact` is about
instances whose last rebuild began after the last commit, so it shows neither that an
operation that publishes nothing leaves them behind for good nor the effect of a
commit between count and page on a rebuild that is behind. `StaleIsAnnounced` and
`CatchesUp` are checked without faults: a lost message leaves an instance behind.
And `FindsItself` says only that a menu can still be selected for deletion,
wherever it was moved; what the pages make of it is in `ShownOnce`.

Three were met in reading and are not checked. `getMenuFunctionByPageWithRole`
updates two flags such that exactly one of them is true, so that no root is ever
shown half-checked (`Half` of `MenuForest` models it). `adminLogin` sets the new
login address on its request object, while `updateLoginUser` writes back the
address of the principal, so the column keeps its old value. And the page's
`aes.js` has `_` in the place of `+` in the Base64 alphabet, as the server has
and no other script of the library: the alphabet in force is that of the script
loaded last.

Also modelled, without a run, since no text of the repository promises
otherwise: deletions of roles, menus and elements publish nothing (they come
into force with the next message of somebody else), deleting a single role-menu
row changes nothing, and the lock counter gets its expiry only from an attempt
that finds the limit exceeded, so `LockEnds` speaks of locks an attempt runs
into.

## 4. Bounds, and why they are enough

- `refresh_all`: two roles, two menus, two elements, one public url, page size
  1 (so that two urls make two pages), two threads, `MaxOps = 2`,
  `MaxFaults = 1`, one instance. Instances do not influence each other except
  through the tables, so one is enough for what a rebuild leaves in force; two
  operations suffice to put one commit before and one inside a rebuild.
- `refresh_adds`: two instances, because announcing and delivery are about all of
  them; three urls and page size 2, so one page is full and one is not.
- `chain_swap`: one request against any number of rebuilds: requests do not
  write anything that others read. The bounds are the sizes of the sets; swaps
  are not bounded.
- `lock`: two threads, a limit of 2 and one death. The proof covers all
  values.
- `signin`: two threads and two captchas (so up to four attempts reach the
  password check, enough to lock the account at a limit of 1 and to be locked
  out), two passwords, one edit besides one `changePassword` that is under way, a
  client that may send the count 0 (with `updateLoginUser` it writes 1),
  no death (`lock` has one, and the proofs any number, since a death inside the
  matcher is a refusal to the login around it). Threads, captchas and passwords
  are interchangeable, and the run checks safety only (invariants, and steps
  against those of `LoginLock`, in which threads are interchangeable too), so
  symmetry is sound. The proofs cover all values.
- `tree`: four ids, two administrators, five operations: enough for a chain of
  three, a move, and a deletion that overlaps both; a client writes a blank path or
  one through two menus. The proofs cover all values.
- `forest_tree`: three ids, two administrators, five operations, one page at a
  time, and a client that may write a blank path. That is enough for two roots that
  share a menu by a stale path, for a move between the two queries of a page, for
  a menu under itself and a cycle of two, and every order of the rows. Two
  pages do not influence each other, as they only read. Menus and
  administrators are interchangeable and the run checks safety only, so symmetry
  is sound; every menu may lack a sort. The proofs cover all values.
- `pipe`: a message of 17 bytes (two blocks of eight and a byte) with bytes that
  look like padding, pieces of 1, 3, 8 and 11 bytes, so that every block is met
  whole, cut and joined, counters that wrap in the middle, and what lies behind
  the significant bytes of a piece is not zero. The seven modes (with the stream
  ciphers) under the six paddings are all run.
- `hash`: 128 bytes, pieces of 1, 8, 55 and 64, which meet the places where the
  length field just fits, where it does not, and where a block is full; with and
  without slack; a short key, a key longer than every block, clean and with slack.
- `crypto`: byte strings of lengths 0 to 6, 45 and 100 (the server's first line
  break and the one after the last), every malformed kind of UTF-8, texts with
  pairs and halves of pairs, keys of 8 to 32 bytes (whole words and not), the
  published answers for AES (three sizes), DES, RC4 and SHA-1, counters just below,
  at and above the point where they wrap, and every number of a Rabbit word. The
  functions keep no state, so a sample is independent of every other one.

`CHECK_DEADLOCK FALSE` stands in the configurations whose operations are
bounded, where the system stops when the bound is used up, and in `CipherPipe`,
where a decryptor may loop for ever, and `HashPipe`; `ChainLookup`, `LoginLock`
and `Crypto` cannot stop and are checked for deadlock.

## 5. Fairness

- `AuthorityRefresh!FairSpec`: a request thread that is inside an operation goes
  on (an HTTP worker is not suspended for ever), and an instance works off its
  queue (`RedisContainerConfig` gives the listener a pool of its own). Nothing is
  assumed about administrators starting operations or subscriptions coming back.
  `CatchesUp` is checked without faults: with lost messages it is false, as the
  topic is at-most-once.
- `LoginLock!FairSpec`: request threads go on, and time passes, so a key with an
  expiry expires in the end. Nobody is assumed to attempt a login.

## 6. Proofs

All theorems are checked by `tlapm` for every value of the constants.

**`SignInProofs`, the lock.** `ChecksAreCounted` says that every password check since
the key was removed is in the counter, about to be counted by a thread, or lost
with a thread that died. It is inductive together with `TypeOK`: a thread that is
admitted either increments the key in that very step or joins `pending`, and it
leaves `pending` only by incrementing, by dying, or with the key. The number of
threads that owe an increment is a cardinality, so the lemmas are about adding
and removing one element. `AttemptsAreBounded`
(at most `MaxRetry` checks, plus one for each concurrent thread and each that
died) is inductive with that: an admission finds the counter at most at the
limit, and every check so far is in the counter or in the other two terms.

**`SignInProofs`, the login.** `LoginsUseTheLock` is the refinement: each step of the
login is a step of `LoginLock` or leaves its variables alone. The theorems about
the lock therefore carry over (`LoginsAreBounded`), and `TypeOK` of the
lock need not be proved again for `SignInTypeCorrect`, whose own strengthening
(`RoomForChange`) is that a password change is begun only while edits are left.
`GuessesAreBounded` rests on `TriesAccounted`: the tries of a captcha that is gone
and the requests still about to try it are together no more than the requests,
and a live captcha has no tries, because the `DEL` comes before the comparison.
`LoginsAreDue` rests on `AllDue`, which says at each stage of the password check
what must have been seen so far, and `LoginsAreCounted` on `CountsKnown`, which says
what a request that has read the count since a client last wrote it knows of it: it
is at most `due`, until a login is written back over a client's count, and it is
still the row's unless another login was written back since. The theorem holds
for every set of counts clients may send, negative ones included.

**`MenuTreeProofs`.** `TypeCorrect`; `MenusFindThemselves` (the path of a live
menu ends with itself, which is what `FIND_IN_SET` relies on to delete the menu
itself); `PathsAreCurrent` (a path is the parent's path plus the own id
unless the parent was moved); `DeletionIsComplete` (a live menu has a live
parent unless it raced the parent's deletion, or its path was stale). Each of the three
names the menus whose path a client wrote as an exception, and `PathWritten` says what
such a write leaves alone. The
invariants are strengthened by what an operation in progress remembers: the
path it computed continues the path of the parent it read (`HangStep`), and rows
already selected stay hung (`StaysHung`). None of them assumes anything
about who moves what.

**`AuthorityRefreshProofs`.** `RebuildsAreExact` is proved for every page size and
any number of urls. Its invariant `Follows` says how far a rebuild that began
after the latest commit has got: before its page *i* it has staged exactly the
rows of rank at most (*i* - 1) × `PageSize`, with their role lists in force, and after
the last page the chains of the tables. `PagesInTurn` (a page continues where
the one before it ended, the last one ends the rows) and `PagesHoldAll` (so many pages
hold so many rows) are the arithmetic it rests on; they use the assumption that
`Urls` is a finite set of numbers and `PageSize` is positive. Steps of other
instances and of administrators need no case each: `NodeEffect` and `AdminEffect`
say that they leave the instance alone or behind. `GrantedOnlyAllowed` follows from
`RebuildsAreExact` and the decision of the filters. `DefaultDenied` holds
whatever commits in the middle: its invariant `StagedClosed` says that chains are
closed from the last page on, and that a rebuild started by a message finds
closed chains in force, so that a failure leaves them. `StaleAnnounced` is for
operations that publish after their commit and `MaxFaults = 0`, the instance that
`refresh_adds` checks; with lost messages or `saveRoleMenuFunction` it is false.

**`ChainLookupProofs`.** A request reads the live map up to three times (is it
empty, which name matches, which chain stands under that name) and the role list
once, while a rebuild changes the role lists, clears the map and fills it entry by
entry. `DecisionsOfVersions` says that an access or a denial that comes of it is a decision
of one of the versions the request saw, but for the one denial the property
names, and that a request no rebuild overlaps gets the decision of the chains
in force (the lemma `DecisionsSettled`). It does not constrain the errors and the
unfiltered requests that an overlap can also lead to; the latter are what
`chain_window` shows. The first invariant, `MapsAgree`, is about the two maps: both
hold chains a rebuild may leave, they are equal when no swap is under way, and a
map being filled has whole entries of the staged one and no `/**` yet. The
second, `AllFollow`, says for each stage of a request which decision it is going to
repeat: with its chain in hand, a `roles` filter will ask the current role list, and
that answer has been seen, whichever map the chain came from (`ChainDecides`,
`FiltersDecide`). A rebuild that stages new chains adds a decision to what
every request has seen before any of them can act on it (`StageFollows`).

**`MenuForestProofs`.** `PagesOnlyRead` says that the table with pages is the
one of `MenuTree`, so its theorems hold here, and `ForestTypeCorrect` needs
nothing new of the table. Nothing is assumed of the lists, which are whatever
the queries return.
- `MenusShownOnce` follows from `HangsOrStays`: a menu is out of the map exactly
  if it hangs under the father in its row, and every listed menu is below one that is
  still in the map or below one that is its own father. When a menu is hung, what
  was below it goes with it (`HangOnce`); the father is still in the map then, so it is
  reached, unless it is the menu itself.
- `RootsAreAsListed` follows from `RootsSoFar`: of the menus the loop has passed,
  those are in the map whose father is not listed, or came before them and has
  left the map; the others are all in it. The map only shrinks, so a menu that was
  visited as a root stays one, also when the list holds it again (`RootsVisited`).
- `PagesFailOnlyOnStale` follows from `Orderly`: on a table in order, as long as
  it is not changed, the list has no menu twice, every one has the father the
  table has, the roots not yet asked for are on no path of it, and what the loop has
  not come to is in the map. `PathsStartAtTheTop` is why the trees of two
  top-level menus are disjoint: in a table in order what has a top-level menu on its path
  starts there. That is an induction over the lengths of paths. The library's
  induction theorems take an operator as a parameter, so it is done with sets: a set of
  numbers that is not empty has a least element (`LeastNumber`, from
  `NatLessThanWellFounded` and `WFMin`), and the shortest path that is wrong
  contradicts that of its parent. `NoOwnFather` keeps the map from getting empty: the
  father under which a menu is hung stays.

**`BlockBufferProofs`.** `_process` is a loop over the blocks that are ready, and
`Process` runs it with functions given by recursion. That such functions exist
and obey their equation has to be proved before anything can be said of them:
`RowIs` and `RowsAre`, an induction over their domain, again with sets of numbers.
With that the lemma `ProcessIs` only rewrites `Process` into the form the
pipes' proofs use: the blocks that were ready go, and what comes back is the chain
of steps over them. The content is in the others. Chains join (`ChainsJoin`), agree when
their bytes do (`ChainsAgree`) and only grow (`ChainGrows`). The other lemmas
describe `concat`, `clamp` and `splice` by the significant bytes of their
results, so that what lies behind those never matters again.

**`CipherPipeProofs`.** Each theorem has one hypothesis, `IsACipher`: under the key the
block cipher takes blocks to blocks, and `DecryptBlock` undoes
`EncryptBlock`. Of AES and DES `crypto` checks that on its samples. Everything else is
arbitrary: the message, the pieces, the mode, the padding, the iv and the
size of a block within `PipeAssumption` (whole words, 8 to 252 bytes).
- `StepsUndo`: in every mode one step of the decryptor undoes one of the
  encryptor and leaves it with the same register. Hence `DecFollows`: over
  a prefix of the ciphertext the decryptor goes through the encryptor's registers and
  returns the blocks of the text.
- `Holds` describes a buffer by the text it is given: the blocks from one number on that
  went and the bytes up to another that came. Append and splice
  preserve it, and the pieces are not in it, which is why they do not show.
- `PadIs` and `UnpadIs`: each padding appends the bytes of `Padded`, and each
  unpadding finds where they begin. The walks back of ZeroPadding and Iso97971 are
  where `CallerFits` is needed.
- `PipeInv` is the inductive invariant. None of the properties is inductive by
  itself: that `plain` is a prefix of the message says nothing of what the
  decryptor's buffer and register will make of the next piece. So `PipeInv` says for
  each end, while open, what its buffer holds and which register it has
  (`EncOpen`, `DecOpen`), that `out` of a finished encryptor is the chain over the padded
  message (`EncDone`), and how the decryptor ended (`DecClosed`). TLC had checked
  it on the instance of `pipe` before it was proved.
- The counters are sums. `HalvesCount` says that adding one to the sum of a word and
  a number is what `incWord` does byte by byte, with its carry; from it follow
  `BigCounterCounts` for the last word of CTR and of the stream and `LittleCounterCounts` for the
  two words of CTRGladman. With the registers of `PipeInv` that gives
  `ModesAreTheStandards` (`ModesAreStandard`), for any number of blocks, past every wrap.
- From `PipeInv` follow `CutsDoNotShow` (`PiecesAreInvisible`), `LagIsBounded`,
  `HangsOnNothingElse` (`HangsOnlyOnNothing`: of the messages a caller may
  send only the empty one under ZeroPadding keeps `finalize` from returning), and
  `EndsImplementPipe`, the refinement: each step of the two ends is a step of
  `MessagePipe` or none.

**`HashPipeProofs`.** `HashesAreStandard` and `MacsAreStandard` say what `hash` checks
of eight hashers for every message, every way of cutting it, every hasher of the
shape `HashAssumption` allows and every key. Their one hypothesis,
`IsACompression`, is about the compression function, which is a parameter: there is
a set of states with the initial one in it that blocks lead from state to state
of, and a state has as many bytes as the hasher takes. Nothing is assumed about what
it computes.
- Arrays. Whatever lies past the significant bytes lies within the last word of
  the buffer, however often it was appended to and however many blocks were taken
  off (`ConcatIsTight`, `SplicedIsTight`). So `loose` is the only way for it to
  reach a block.
- Blocks. `Has` describes a buffer by the bytes it was given and `Hashing` a hasher: its
  state is the chain of compressions over the first blocks, its buffer has the
  rest. With the chains of `BlockBufferProofs`, taken with the compression as the
  step, `UpdateHashes` says that a piece leads from one such description to the
  next, and the pieces are not in it.
- Padding. The code writes the padding into words that are there already;
  the standard appends it. `LengthPads` and `BitsPad` compare them byte by byte,
  and `PadIs` says that without slack they are the same. For the length at the
  end the case to see is a message that leaves less than the length field in
  its last block. MD5 and RIPEMD-160 count one more word than the others, which never
  completes a block.
- `FinalizedIs` (a hash is what the chain makes of the padded message) is used three
  times: for the hash itself, for the key that is longer than a block
  (`MacKeyIs`), and for each of the two hashes of an HMAC (`MacFinalizedIs`).
- `HashInv` is the inductive invariant (`HashInvariant`): an open hasher is `Hashing` what was
  fed, an open HMAC is `Hashing` the inner pad followed by it and keeps both
  pads, and a result is the standard one under the conditions the properties
  name. The properties are not inductive by themselves, as they are silent about a
  hasher that has no result yet.

`HashAssumption` names the hashers' shape: whole words in a block and in a digest,
which is no longer than a block; a length that is noted low end first only with
blocks of 64 bytes, as in MD5 and RIPEMD-160 (the code writes eight bytes, and
of the sixteen that a longer block would take the low end comes first);
the message and a block are less than 2^21 bytes, so
that the length in bits takes three bytes, which is what the model of the length
field has. Earlier versions of the properties said "exactly if" of slack. Only
one half of that is true for every compression function: that slack shows in the
result depends on the absence of collisions, so it is a property of its own,
`SlackShows`, and stays with TLC and its small function that tells messages apart.

Model-checked only: liveness (`CatchesUp`, `LockEnds`), which is beyond the
prover; `SlackShows`, which is no theorem for every compression function; and what
the pure functions of `crypto` compute from their tables, which is mostly recursion
over data and published answers. `RabbitArithmetic` and `RabbitTurnsTheKey` are
about numbers, but the width of a word is a power of two, and the installed
provers have no facts about `^` (not even that 2 to a natural number is one):
`crypto` checks them for small words, on every number and at every place where
a counter wraps.

## 7. Abstractions

- A url pattern stands for the one url it matches. Ant wildcards that overlap are
  left out.
- The order of the grouped query is taken to be stable between two pages on
  unchanged tables. MySQL does not promise that without an `ORDER BY`.
- The database is InnoDB at its default isolation; a write of a row waits for the
  transaction that holds it.
- `updateMenuFunctionById` and `updateUser` accept any column the client sends.
  Of a menu the models let the client change `pid` (the service then computes the
  path) or `path`; `type`, `dept` and `sort` are the freedom of a page in which roots it
  reads, in which order rows come and whether they can be sorted. Of an account
  they let it change `status`, `password` and `loginCount`. The other columns (names,
  texts, addresses, roles of an account, times) are read by nothing that is modelled.
- A session that logs in again is logged out first; sessions are not in `SignIn`.
  Account names are unique in the table.
- The order of siblings, texts and icons of menus are left out.
- Digits of Base64 and hexadecimal texts are their values; the alphabets, and
  what `parse` does with characters outside them, are left out.
- The compression functions of MD5, SHA-2, SHA-3 and RIPEMD-160 are a parameter.
  In `crypto` SHA-1 stands in for them, in `hash` and `pipe` a small function and a
  small block cipher do: what is checked there does not depend on them.
- Random salts and random padding bytes are arguments or one fixed value; no
  property depends on which.
- An empty key is left out of `crypto` (RC4 and AES divide by its length), and
  `index.html` trims its fields before it calls what is modelled.
- Messages stay below 2^21 bytes: of the length field the model has the low 24 bits,
  and takes the rest for zero.
- Shiro, Redis, MySQL, RabbitMQ and the Java provider of AES are external. What the models say of them is
  how the code uses them.

## 8. Plan

In this order:

1. `Sessions`: sessions and the cached authorisation, read from replicas and
   written to the master; logout against requests in flight; roles that change
   while sessions live on. To be composed with `SignIn`'s login.
2. `DataDictionary` with `CommonServiceImpl.init` at start-up, and the protocol
   texts: one table-and-cache module with an abstract specification (a
   register that is in the end what the table says).
3. `RestToken`: issue, check, refresh, expiry; an abstract "one token" spec.
4. `SerialNumbers`: the counters and the first value of a day.
5. `OperationLog`: aspect, queue, consumer; `Uploads` and `ReplicaRotation`.
6. Abstract specification of `AuthorityRefresh` (what an instance enforces is
   some past state of the tables) with a refinement mapping.
7. Proofs of the safety properties of the modules above.
8. The role-menu rows and elements in `MenuTree`, so that a deletion that reads
   the subtree twice can be checked against them.

Hazards of these parts, besides those in `PROJECT.json`:

- The roles of a session are those of its login
  (`AdminLoginShiroRealm.java:40`).
- A dictionary edit writes the row and then the hash, with no transaction around
  both (`SysDataDictionaryServiceImpl.java:111`); at start-up the key that is
  looked up lacks the prefix of the key that is filled
  (`CommonServiceImpl.java:52`).
- Two threads may both add the offset of the first serial number
  (`CommonServiceImpl.java:86`).
- A token is looked up and then read, and may expire in between
  (`TokenService.java:87`); its asynchronous refresh extends whatever token
  is there by then (`:66`).
- A protocol text is read from the table and cached while another request changes
  it and drops the cache (`ProtocolServiceImpl.java:37`).
- The consumer listens on another queue than the one the records are routed to
  (`LogOperatorConsumer.java:30`), and a record without a module is delivered
  again and again (`:92`).
- Upload settings are static fields that each upload writes
  (`AliOssUpload.java:61`); the list of replica templates is rotated without a
  lock (`RedisSlaveTemplateManager.java:37`).
- `changePassword` overwrites what another change has written since it read the
  row (`UserAuthorityServiceImpl.java:119`); two saves of one role compute their
  differences from the same rows (`RoleMenuFunctionServiceImpl.java:136`).
  No text of the repository says what should come out.

Runs are few on purpose: a new component is composed with the one it touches
rather than checked apart from it.

## 9. Not modelled

The compression functions of the hashers other than SHA-1 and the 64-bit words
of `x64-core.js` are straight-line arithmetic on more bits than TLC computes with;
published test vectors are the better check. The rolled-up and minified scripts
are copies of the components. jQuery, layui and the editor are third-party user
interface code. The dispatcher, demo services, code generation, formatting
utilities and wiring keep no state beyond a call. Sessions, tokens, dictionary,
serial numbers, protocol texts, operation log, uploads and replica rotation are
planned above.
