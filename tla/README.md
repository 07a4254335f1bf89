# A TLA+ model of the Denota registrar

The Denota protocol is one contract, `NotaRegistrar` (`src/src/NotaRegistrar.sol`).
It mints *notas*: ERC-721 tokens, each with an escrowed amount of one ERC-20
currency and a *hook*, a contract chosen by whoever writes the nota. The registrar
asks the hook before every operation on the nota; the hook may refuse, and may
answer with a fee, which is booked as the hook's revenue. Hooks withdraw their
revenue, less a cut for the protocol, whose owner sets it.

Everything hard about this code comes from the calls it makes to contracts it does
not control: hooks, tokens that notify their holders, receivers of notas. Each of
them may call the registrar again before it returns, and each may fail. This
project models the registrar at that grain: a step is the code between two
external calls.

The repository also holds a copy of the OpenZeppelin contracts, with the scripts that
generate four of its libraries (`src/lib/openzeppelin-contracts/scripts`). The
registrar uses none of the four. They are modelled because they have invariants of
their own that are easy to break (swap-and-pop, binary searches, casts), and because
the scripts are the only JavaScript with state in the repository. They stand
apart from the registrar in every section below.

## 1. Inventory

| part | state | operations | talks to |
|---|---|---|---|
| nota operations (`NotaRegistrar.sol`) | `_notas`, `nextId` | `write fund cash approve transferFrom safeTransferFrom burn update` | calls the hook before each; calls tokens in `write fund cash`; calls the receiver in `safeTransferFrom` |
| revenue and governance (`RegistrarGov.sol`, OpenZeppelin `Ownable`) | `_hookRevenue`, `_hookTotalRevenue`, `_protocolRevenue`, `_protocolTotalRevenue`, `_protocolFee`, `_owner`, `_contractURI` | `hookWithdraw protocolWithdraw setProtocolFee transferOwnership renounceOwnership setContractURI` | calls tokens; credited by the nota operations |
| ownership (OpenZeppelin `ERC721`) | `_owners`, `_balances`, `_tokenApprovals`, `_operatorApprovals` | `_mint _burn _transfer approve setApprovalForAll` | used by the nota operations; `setApprovalForAll` is called from outside |
| `ReentrancyGuard` | `_status` | `nonReentrant` on the eight nota operations only | |
| hook calls (`libraries/Hooks.sol`) | none | `callHook`, one `before...` function per operation | decodes what the hook returned |
| ERC-20 tokens, `SafeERC20` | balances, allowances | `transfer`, `transferFrom` | may notify sender and receiver |
| `ImmutableCreate2Factory.sol` | `_deployed` | `safeCreate2` | runs the constructor it deploys |
| metadata (`tokenURI`, `contractURI`, `ERC4906`), views | none | formatting | reads a hook |
| `CustomRevert.sol` | none | builds error bytes | |
| deployment script, tests, mocks | | | |
| **vendored library** | | | |
| generated `EnumerableSet` (`scripts/generate/templates`) | values, indexes | `add remove contains length at values` | words, for `bytes32`, `address`, `uint256` (`conversion.js`) |
| generated `EnumerableMap` | keys (such a set), values | `set remove contains length at tryGet get` | the set |
| generated `SafeCast` | none | casts down, and between signed and unsigned | |
| generated `Checkpoints`, history and traces | checkpoints | `push`, lookups by binary search | reads `block.number`; the history uses `SafeCast` |
| `AccessControlEnumerable` | members of a role, twice | grant, revoke, count, member | a set; readers page through it |
| `migrate-imports.js` | the files of a project | reads, rewrites, writes each | the file system |
| other scripts, build configuration | | reports, documentation, release | |

What makes each correct:

* **nota operations**: the registrar holds what it owes at every moment; what a call
  read before an external call still holds when it uses it; a nota changes only in
  the call made about it; ids are never given twice; only the right callers move
  or burn.
* **revenue**: no hook's revenue is touched by another; the protocol never takes more
  than its maximum; books are written before tokens leave.
* **ownership**: counts agree with owners; approvals do not survive an owner or a nota.
* **guard**: at most one guarded call is open, and it is free again after every end of
  a call, failures included.
* **hook calls**: an operation goes on only after an answer of that very operation.
* **factory**: one deployment per address, and the caller's own salts only.
* **generated set and map**: array and indexes tell the same story after any removals,
  and every answer is the one a set, or a map, would give.
* **casts**: a value comes out unchanged or not at all.
* **checkpoints**: keys increase; a search, whose accesses are not checked, never leaves
  the array; a lookup finds what its block ended with, and what it found never changes.
* **roles**: the two records agree; a reader knows which order of queries misses nobody.
* **migration**: nothing but the old paths changes, even when a run is cut off and made
  again.

The hard behaviours, each at its line, are the hazards of `PROJECT.json`:
functions without the guard (`hookWithdraw`, `protocolWithdraw`, `setProtocolFee`,
`setApprovalForAll`, ownership) that run in the middle of guarded ones; values read
before a hook call and used after it (`burn`'s escrow, `fund`'s owner, `write`'s
`nextId`); failures half way, with a caller that goes on; `uint256` sums and
differences that involve whatever a hook answers; how a chain of callbacks ends. In the
library: the last element of an array that is also the removed one, the square root
that picks the bounds of a search, blocks wider than a key, queries of a set that changes
in between, a write that is cut off.

## 2. Modules

```
Chain            accounts, ERC-20 balances, the stack of open calls
  ERC721         owners, approvals, operators; the internal functions of ERC721
  RegistrarGov   revenue, protocol fee, owner; the functions of RegistrarGov
    NotaRegistrar    composes both: the operations, cut at their external calls
      NotaProperties     what is promised (with Sums, sums over finite sets)
        NotaGas            transactions with gas
          MCBooks
        NotaRefinement     implements NotaLedger, the promise
          MCAccounting
        MCOwnership        (the MC modules are the instances for TLC)
        NotaGuardProofs        types, the guard, what is read stays fresh
          NotaOwnershipProofs    owners, notas, approvals
            NotaMoneyProofs        sums; what the registrar holds and owes
              NotaLedgerProofs       the refinement (with NotaRefinement)

HookCall             callHook and beforeBurn: what a hook answers, what is made of it
  MCHookCall, HookCallProofs
Create2Factory       ImmutableCreate2Factory
  Create2FactoryProofs

Conversion           values of other types in words
  EnumerableSet      the functions of the set
    EnumerableSetMock      the contract around it; implements SetPromise
    EnumerableMap          the functions of the map, which has a set of keys
      EnumerableMapMock    the contract around it; implements MapPromise
    RoleReader             members of a role, and who pages through them
SafeCast, SafeCastMock     the casts, and sequences of them
Checkpoints                the functions of histories, searches by iteration
  CheckpointsMock          by block number; implements HistoryPromise
  TraceMock                with keys of the caller
GeneratedMocks       all of these contracts, one of which is called; instance for TLC
  GeneratedProofs
MigrateImports       the script
  MCMigrateImports, MigrateImportsProofs
```

**Chain.** `balance[t][a]` is what account `a` holds of token `t`. `stack` is the
list of the calls into the registrar that have not returned, the innermost last. A
frame holds the function, its arguments, what it read before its first external
call (`nota`, `to`), the fee its hook answered, the point `at` it waits at, and
`saved`, the storage when it began. While a frame waits at an external point, any
contract may call the registrar (`MayCall`); accounts without code call only when
no call is open. Tokens are honest: they move what they are asked to, and wait
before and after (`pull`/`pulled`, `forward`/`forwarded`, `pay`/`paid`), which is
where an ERC-777 token would notify. A contract that is not allowed to call, or
a token that calls back only in its own way, does a part of that.

**ERC721**, **RegistrarGov.** One operator per function of the code, over its
state, used by the actions of NotaRegistrar. `_contractURI` is left out.

**NotaRegistrar.** The code of an operation and its actions:

| code | actions |
|---|---|
| `write` 36-57 | `Write`, `DepositHooked`, `Pulls`, `PullReturns`, `Forwards`, `ForwardReturns`, `WriteFinishes` |
| `fund` 82-102 | `Fund`, the same, `FundFinishes` |
| `cash` 105-120 | `Cash`, `CashHooked`, `Pays`, `PayReturns`, `CashFinishes` |
| `approve` 123-135 | `Approve`, `ApproveHooked` |
| `transferFrom` 60-68 | `Transfer`, `TransferHooked` |
| `safeTransferFrom` 71-79 | `Transfer`, `TransferHooked` (receiver without code) or `SafeTransferHooked`, `Received` |
| `burn` 138-151 | `Burn`, `BurnHooked` |
| `update` 154-167 | `Update`, `UpdateHooked` |
| `hookWithdraw`, `protocolWithdraw` | `HookWithdraw`, `ProtocolWithdraw`, `Pays`, `PayReturns`, `WithdrawFinishes` |
| `setProtocolFee`, `transferOwnership`, `renounceOwnership`, `setApprovalForAll` | one action each |
| a holder's own token transfer | `SendTokens` |
| any failure | `Revert` |

A failing call is `Revert`, possible at every point: the frame goes, and the storage
is `saved` again. So a failing `require` needs no action of its own: the action of
the successful path has it as a guard, and only `Revert` is left when it does not
hold. A contract that calls and catches the failure goes on from there; one that
does not fails in turn, which is the next `Revert`. Out of gas, a refused
transfer, a missing allowance, a hook that answers wrongly, all are `Revert`.

A hook's answer is any fee of `Fees`. How `Hooks.sol` decodes it is the module
HookCall; `burn` has no fee, so `BurnHooked` has none.

A guard that cannot be met has no frame: a call that would fail before its hook is
called (a nota that does not exist, a caller who is not approved, the guard taken)
changes nothing, and is left out.

**NotaLedger, NotaRefinement.** The ledger is the registrar as its users think of it:
escrows, owners, revenues, the tokens held, and calls that act at once. Its `journal` has
the calls that have not returned, each with the ledger its failure brings back and
whether it has acted. A guarded call acts when it returns, except `safeTransferFrom`, which acts
before the receiver is told; a withdrawal acts when it is called, for its books are closed
before its payment. `View` maps storage to the ledger: it takes out what the open calls
have done so far (a deposit that is in and not booked, an escrow that `cash` has taken and
not paid, a withdrawal booked and not paid). The steps in the middle of a call are
stutters. The rates of fees, the approvals and who may call are not in the ledger.

**NotaGas.** A transaction begins with `GasLimit` of gas; each step of it costs one, and
with none left only `Revert` is possible. `Runs` is any step of the transaction under way.

**Transactions.** A transaction of an account without code is one call. A contract
that makes several calls in one transaction is the same as several transactions as
long as all succeed; if it fails as a whole, everything it did is undone, which
is the state before it.

**HookCall.** One guarded operation at a time, for `OneGuarded` is proved. `noted` is the
hook's own storage, reduced to how often each function ran; `done` is what the
registrar completed. `Asks` is one of the `before...` functions, `Answered` the
hook's end, with any bytes and either outcome (`Answers`). Bytes are counted in
cells of 4, so a selector is one cell, a word `WordCells` of them (8 in the EVM), and
`length < 36` is "less than `WordCells + 1` cells". `CallHook` and `BeforeBurn` are the
two ways to agree. `FeeRead` is the word at byte 32; where the answer is too short for
it, the memory behind the answer is read, and Solidity does not clear memory that it
has not given out, so `CallHook` takes any `memory`. `Fails` undoes `noted`: the hook's
failure, a wrong answer, or a failure after the hook agreed. `Completes` is the rest of
the operation.

**Create2Factory.** `calls` are the calls of `safeCreate2` whose constructor is running,
each with the storage to go back to. An address is its salt and code, for a hash
that is assumed to have no collisions. `account` is what the EVM has there: nothing, a
constructor that runs (`building`), a contract, one that destroyed itself (`doomed`
until the transaction ends, then `gone`, which leaves an account `create2` can
use again). `SafeCreate2` is the code up to `create2`, `Constructed` and `ConstructorFails`
what follows it, `Refused` a call that fails at once. While a constructor runs only
contracts call. A contract that makes a call of the factory and then fails brings
back a state from before that call, which needs no action. `Find` stands for
the views. `selfdestruct` is as it was before the Cancun fork (and since then for a
contract that destroys itself in the transaction that made it).

**The generated contracts.** `EnumerableSet`, `EnumerableMap`, `SafeCast` and `Checkpoints`
have one operator per function of the template that generates it; a structure is a
record of sequences and functions as it is in storage. The modules around them are the
generated mocks, one action per function. A mock's last `call` is a record of it: function,
argument, answer, `<<>>` if it failed. That is all its user sees, and what the promises are
about: `SetPromise` has a set for state, `MapPromise` a function, `HistoryPromise` the value
at the end of each block, and each says which call gives which answer; an enumeration may come
in any order. `conversion.js` is `Conversion`: an address is a number up to `AddressMax`,
a word one up to `Bytes32Max`, and a word that is read as an address loses what is beyond.

A lookup in `Checkpoints` is a step per iteration, between its beginning (`Begins`, with the
bounds that the function computes, the whole array or what the square root gives) and its
end (`Returns`). Nothing else happens meanwhile, for a call is a transaction. `UnsafeAccess`
past the end of the array gives a zero, as storage does. The traces of 160 and 224 bits are one
module with different limits. `pushAdd` and `pushSubtract` are the push with an operation
as the repository's `Votes.sol` uses it. `SafeCastMock` takes a value from cast to cast,
with the implicit widening of Solidity in between.

`RoleReader` is what such a set is used for: `_grantRole` and `_revokeRole` write the
two records, and a reader asks for the count and then for each position, in blocks of its
own, with grants and revocations in between. The contract warns of that and the reader is
ours: it goes from the last position down, and is shown to miss nobody.

`GeneratedMocks` deploys them all; `tested` says which one a test calls, and the others stay
as they are.

**MigrateImports.** A file is the sequence of the paths that occur in its text, in import
statements, comments or strings alike: the script replaces text and knows no Solidity. All
paths begin with `@openzeppelin/`, so no two occurrences overlap, and what is between them no
update touches. `Start` lists the files; for
each, `Read` is the code up to `writeFile` and `Write` the write; files come in any order. A
`Crash`, also a file operation that fails, ends the run between any two steps, and in a
write it may leave the beginning of the new text only. Whoever upgrades runs
the script again. `updateImportPaths` folds over the table, and `String.replace` with a
string replaces one occurrence per entry: a file with an old path twice needs two runs, which
is why `Migrated` speaks of files that have each once, and `Converges` of all.

## 3. Properties

| property | kind | what it says |
|---|---|---|
| `TypeOK` | invariant | types, of storage and of every frame |
| `Solvent` | invariant | for every token, escrows + revenues + what calls in flight owe is at most what the registrar holds |
| `NothingStranded` | invariant | and exactly that, if nobody sends tokens to the registrar itself |
| `ProtocolShareBounded` | invariant | the protocol never earned more than its maximum share of what hooks withdrew |
| `HookEarningsKept` | action | what a hook ever earned is never reduced by a step that does not fail, and grows only in calls about notas of that hook and currency |
| `OneGuarded` | invariant | the guard is taken exactly while a guarded call is open, one at most |
| `SnapshotFresh` | invariant | what an open guarded call read is what storage holds |
| `NotaChangedByItsCall` | action | a nota changes only in the guarded call about it |
| `OwnershipConsistent` | invariant | ERC-721 counts, blank records of notas that do not exist |
| `OneLife` | action | ids never return; a nota's currency and hook never change |
| `OnlyAuthorisedMoves` | action | moves and burns only by callers with authority when the call began, from the owner of then |
| `OnlyOwnersApprove` | action | approvals only by owner or operator, and gone with the owner |
| `IsALedger` (NotaRefinement) | refinement | every call acts on the ledger at once and exactly once, or leaves no trace, whatever runs inside it |
| `GuardFreed` (NotaGas) | liveness | a guard that is taken is free again, whoever calls back and whatever fails |
| `InStep` (HookCall) | invariant | the hook's storage counts what the registrar completed, and nothing that failed; of burns, none that did not happen |
| `FeeAsNamed` (HookCall) | invariant | a hook that answers by the interface is charged the fee it named |
| `Recorded` (Create2Factory) | invariant | the record names exactly the addresses at which a contract was completed |
| `NeverRebuilt` (Create2Factory) | action | nothing is built where a contract is or was destroyed |
| `OwnSalts` (Create2Factory) | action | a salt with an owner is used in calls of the owner only |
| `Indexed` (EnumerableSetMock) | invariant | the indexes and the array of the set tell the same |
| `IsASet` (EnumerableSetMock) | refinement | the contract answers as a set |
| `AbsentIsZero` (EnumerableMapMock) | invariant | a key that is gone leaves no value that `tryGet` would take for one |
| `IsAMap` (EnumerableMapMock) | refinement | the contract answers as a map |
| `RecordsAgree` (RoleReader) | invariant | the role and its enumeration have the same members |
| `SteadyMembersSeen` (RoleReader) | invariant | a reader going down is told of all who stay |
| `CastsExact` (SafeCastMock) | invariant | no sequence of casts changes a value; none fails needlessly |
| `KeysIncrease` (CheckpointsMock) | invariant | keys increase, and none is in the future |
| `SearchSound` (CheckpointsMock) | invariant | a search stays in the array with its key between its bounds |
| `IsAHistory` (CheckpointsMock) | refinement | both lookups answer what a block ended with, and that never changes |
| `LookupsRight` (TraceMock) | invariant | both searches find theirs, by any key; the latest checkpoint is that of the largest key, and each key is counted once |
| `PastFixed` (TraceMock) | action | no push changes what an upper lookup finds below the last key, or a lower one up to the last key but one |
| `AllLookupsReturn` (GeneratedMocks) | liveness | every lookup ends |
| `OnlyPathsChange` (MigrateImports) | invariant | a path is as it was, or the new one, in its place |
| `Migrated` (MigrateImports) | invariant | a run that ends has migrated what has each path once |
| `Converges` (MigrateImports) | liveness | runs made again and again migrate everything |

`Owed` counts money in flight: a deposit that is in and in no book (`Uncredited`), a
payment that is out of the books and not yet made (`Unpaid`), and the fee of a `cash`
that is in no book while the payment runs (`FeeKept`). `OnlyAuthorisedMoves` speaks
of the beginning of a call on purpose: `_transferHookTakeFee` checks before the
hook runs, and an operator may be dismissed while it does.

Where code and documents differ:

* `Hooks.sol:142`: `beforeBurn` drops the success flag of its call. A hook that fails with
  bytes that begin with `beforeBurn`'s selector has what it wrote undone, and the burn goes
  on, against `src/src/README.md:8`, by which a hook can revert any function (run `burn_doc`).
  So `InStep` claims less of burns.
* `Hooks.sol:35,52`: an answer of 36 bytes is accepted, as if the fee came right after the
  selector, as the comments say (49, 51); the fee is read from byte 32, mostly behind such
  an answer (run `fee_doc`). Hooks compiled from the interface answer 64 bytes
  and are not affected, which is `FeeAsNamed`.
* `ImmutableCreate2Factory.sol:35`: where a contract exists, the null address is said to be
  returned; the call fails (run `factory_doc`).

And `INotaRegistrar.sol:162` lets the approved address of a nota call
`approve`; `ERC721.approve`, which does the work, accepts only the owner and the
owner's operators (run `approve_doc`).

## 4. Runs

| run | instance | what it shows |
|---|---|---|
| `accounting` | 1 account, 1 hook, 1 token, 2 notas, every guarded function | money, guard and freshness with one call inside another |
| `books` | 2 hooks, 2 tokens, 2 notas, `write cash burn update`, transactions with gas | that books are kept apart, and the guard is free again after every transaction |
| `gifts` | 1 account, 1 hook, 1 nota, every guarded function, payments to anyone and to the registrar itself, ownership moved and renounced | solvency with tokens that nobody is owed; the ledger |
| `ownership` | 1 account, 2 contracts, 2 notas, no money, operators | authority, approvals, counts |
| `approve_doc` | the same with 1 nota | the approved address of a nota cannot approve |
| `hooks` | 3 functions, 3 cells, words of 2 | storage in step, fees as named |
| `burn_doc`, `fee_doc` | the same | a burn its hook did not agree to; a fee that is another one |
| `factory` | 1 account, 2 contracts, 4 addresses | the record, one life per address, salts |
| `factory_doc` | 1 contract, 3 addresses | no null address |
| `generated` | the six contracts of GeneratedMocks | each keeps its representation and its promise |
| `migrate` | 2 files that name up to 2 paths, 3 table entries, 2 crashes | what is cut off and run again |

Bounds, all CONSTANTS:

* `MaxDepth = 2`: one call inside another. A guarded call admits only unguarded ones
  inside it, each of which completes its books before its only external call, so a
  third level adds another withdrawal only. Every invariant, action property and the
  refinement are proved for every depth.
* `MaxUint = 3` with an endowment of 2 and fees up to 3: sums that overflow, fees larger
  than the escrow, and amounts that are enough do all occur.
* `FeeDenominator = 2`, `MaxProtocolFee = 1`: a cut of one half, rounded down on odd amounts.
* `MaxNotas = 2`: notas of different hooks, currencies and owners, and a nota
  written after another was burnt.
* `Functions`, `Payees`, `Approvees`, `Operators`, `Governors`, `Amounts`,
  `Withdrawals`, `Fees`, `FeeRates`: the inputs. A run leaves out what its question
  does not need (`ownership` has amounts of 0 only; `accounting` has no operators).

* `WordCells = 2`: the shortest word in which a fee and a selector differ in length; the
  answers then have every length around both limits (none, a selector, less than 36
  bytes, 36 to 63, 64). `MaxCalls = 2` operations of each kind are completed. Proved for all.
* Factory: `MaxDepth = 3` constructors inside one another, with salts of three owners and of
  nobody, and one init code; a second would give more addresses. Proved for all.
* `GasLimit = 8`: enough for a guarded call that runs to its end with another call inside it,
  little enough that both run out of gas at every point. That calls end does
  not depend on the number.
* Sets and maps: `AddressMax = 2`, `Bytes32Max = 3`: three members, so that the removed one
  can be the first, in the middle, the last and the only one, and words that are no address.
  Proved for all.
* Casts: `WordBits = 6` with `Lengths = {1, 2, 4}`: every value of a word, through every
  sequence of casts. Proved for all.
* History: `KeyBits = 3`, `FirstBlock = 2`, `MaxBlock = 8`: up to six checkpoints, and from
  the sixth on the square root picks the bounds; block 8 does not fit a key. `ValueBits = 1`
  with `Values = {1, 2}`: values that do not fit. Proved for all.
* Trace: keys up to `LastKey = 5`, values up to `LargestValue = 1`: lookups of keys that
  are present, between others, below and above all. Proved for all.
* Migration: the table has two old paths with the same new one, as the real one has;
  a file may have the same path twice; `MaxCrashes = 2`, so a run after a crash can crash.
  Proved for all, but for `Converges`.

Only `gifts` says `CHECK_DEADLOCK FALSE`: once all tokens have been given to the
registrar, all ids are used, and ownership is renounced, nothing is left to do.

Every property has a mutant, an operator next to the one it replaces, marked
`Mutant:`, that breaks it the way a bug in that code would.

**Fairness and liveness.** A chain gives no fairness to callers: nobody is obliged to call,
and no property here needs it. What is fair is execution:

* `NotaGas`: a transaction that was begun is executed to its end before anything else is
  (`WF(Runs)`), and its gas is finite. Which of its steps is taken is not fair: hooks may
  call as often as they can pay for. `GuardFreed` follows only because no end of a call,
  failures by lack of gas included, leaves the guard taken.
* `CheckpointsMock`, `TraceMock`: a lookup that was begun runs on (`WF(Iterate \/ Returns)`).
* `MigrateImports`: a run goes on until it is cut off (`WF(Step)`), and whoever upgrades runs
  the script again (`WF(Start)`); the crashes are bounded. Without the second nothing would
  ever be migrated, and the code cannot promise it.

## 5. Proofs

Every invariant and every action property that a run checks, and each of the four
refinements, is a theorem for all values of the constants; what is left to TLC alone
is at the end of this section.

### Assumptions

The constants are restricted as the code, or the meaning of the model, demands; TLC
evaluates each assumption in the runs.

* `AddressAssumption`: contracts, users, tokens, the registrar and the zero address differ.
  `AccountsAssumption`: there are finitely many contracts, without which there is no sum
  of what hooks own. `UintAssumption`, `NotasAssumption`, `GovAssumption`,
  `InputAssumption`: numbers are natural, the denominator is not zero and the fee has the
  maximum that `RegistrarGov` gives it, inputs are of their type.
* `ConversionAssumption`: an address is a word. `HistoryAssumption`, `TraceAssumption`,
  `CastAssumption`: powers of two are positive; blocks, keys and lengths are numbers in
  their ranges. `PowersAssumption`, a part of the last, says that `2 ^ n` is twice
  `2 ^ (n - 1)`, which the provers do not know.
* `TableAssumption`: the table of `migrate-imports.js` is a list of pairs of paths, gives a
  path one new path, and none that is an old one too. `BoundsAssumption`: bounds are numbers.

### The registrar

Four modules, each on the one before, each with an inductive invariant that contains the
last. They share one difficulty. A failing call brings back a storage of the past, so no
property of the current storage is inductive: it has to hold of that old storage too, and
of it with the shorter stack. Each invariant therefore says the same thing of the current
storage with the whole stack, and of the storage that frame `i` saved with the frames below
`i`. Opening a call adds one such pair, closing one forgets one, a failure goes back to a
pair that was kept.

`NotaGuardProofs`: `TypeCorrect`, `PaymentsNeverWrap`, `GuardCorrect`, `NothingReadIsStale`.
`TypeInv` is the type of all variables with `PaymentsCovered`: the type of a balance after
a payment needs `amount - fee` to be a natural number, which for a withdrawal is that the
protocol's cut is a part of the amount (lemma `CutIsPart`: division, the maximum fee, and
that the fee in storage never exceeds it). `GuardInv` adds that every storage fits its
frames: the guard is taken in it exactly if one of them is guarded, and what that one
read is still there (`Fits`, `StackFits`, `StorageFits`). One lemma per group of actions
(`EnterGuarded`, `LeaveGuarded`, `ContinueGuarded`, `OpenUnguarded`, `CloseUnguarded`).

`NotaOwnershipProofs`: `OwnershipSound` (`OwnershipConsistent`), `NotasKept`
(`NotaChangedByItsCall`), `NotasLiveOnce` (`OneLife`), `MovesAuthorised`
(`OnlyAuthorisedMoves`), `OwnersApprove` (`OnlyOwnersApprove`). `OwnInv` adds that every
storage is `Counted` (balances are the cardinalities of what is owned) and `Recorded`
(blank without an owner), and `KeptSince`: the nota that a call is about has the owner it
had when the call began, and every storage is `Later` than the ones saved below it, so
that ids are not given twice across calls. Authority is checked when a call begins and used
after its hook; `WellOpened` carries it there. That the nota is the same at both points is
what the guard gives, `OneGuarded`, and nothing weaker would do.

`NotaMoneyProofs`: `AlwaysSolvent`, `NothingIsStranded`, `ShareIsBounded`, `EarningsAreKept`.
First the sums (`SumRemove`, `SumNat`, `SumUpdate`, ...). The folds of the community modules
are functions over the subsets of a set, defined by a CHOOSE; that they exist and
what they compute is proved from a minimal counterexample under strict inclusion, which
needs no induction theorem with an operator as parameter. `MoneyInv` says of every storage
that it is `Funded`: escrows, revenues and what the frames have in flight (`Flight`) are at
most, and without payments to the registrar exactly, what it holds. Without the saved
storages, a `cash` that fails after its payment would return to a storage of which
nothing is known. `Placed` says which function may wait at which point. For the
protocol's share, `ShareInv` needs types only: each withdrawal adds a cut rounded down.
That a hook earns by calls about its own notas only takes `TopOwned` and `TopFresh` of the
other two modules: what a call credits, it read before its hook and its token ran.

`NotaLedgerProofs`: `RegistrarIsALedger`, `Spec => IsALedger`. With the refinement mapping of
`NotaRefinement`, every step is a step of the ledger or a stutter:

| registrar | ledger |
|---|---|
| a guarded call begins (`Write`, `Fund`, `Cash`, `Approve`, `Transfer`, `Burn`, `Update`) | `Open` |
| `DepositHooked`, `CashHooked` | stutter |
| `ApproveHooked`, `TransferHooked`, `UpdateHooked`, `BurnHooked`, `WriteFinishes`, `FundFinishes`, `CashFinishes` | `Close`: the call acts |
| `SafeTransferHooked` | `ActsEarly` |
| `HookWithdraw`, `ProtocolWithdraw` | `OpenWithdrawal`: acts when it is called |
| `Received`, `WithdrawFinishes` | `Close`: it has acted |
| `Pulls`, `PullReturns`, `Forwards`, `ForwardReturns`, `Pays`, `PayReturns`, `SendTokens` | stutter, or `Gift` if tokens go to the registrar that it owes nobody |
| fees, ownership, operators | stutter |
| `Revert` | `Fail` |

The mapping takes a sum over all frames out of the storage (`HeldAhead`, `Taken`); the lemmas
say how a step that opens, continues or closes a call changes it, and that at most one
frame takes from an escrow (`OneTaker`, again from the guard). `LedgerInv` is `MoneyInv`, of
which the proof needs the order of the points (`Placed`) and the books of ownership, with
one more fact: the fee of a `cash` is a part of its amount until it is booked. The ledger
says nothing of solvency; that is `AlwaysSolvent`, of the registrar.

### Hooks and the factory

`HookCallProofs` proves `InStep` and `FeeAsNamed`. `Inv` adds what holds inside a call: the
hook's storage is that of the call's beginning, plus one if the hook succeeded
(`NotedFits`), any operation but a burn that is agreed to had a hook that succeeded,
and the cells of the fee that the answer has are the answer's (`FeeFits`).

`Create2FactoryProofs` proves `Recorded`, `NeverRebuilt` and `OwnSalts`. Again a failure brings
back the past, so `Inv` says of every waiting call that the storage it saved fits the
calls below it (`CallsFit`): the record is exact in it, the addresses being built include
those of the calls below, and what cannot have changed since it was saved has not
(`Kept`: who is being built stays so, used addresses stay used, destroyed ones destroyed).

`CallTypeCorrect` and `FactoryTypeCorrect` are the type invariants of the two modules; both
are parts of the same `Inv`.

### The generated contracts

`GeneratedProofs` has, structure by structure, what its functions keep, then an invariant of
the contract around it. `EachOnItsOwn` says that the contracts deployed together are each
what it is alone, so what is proved of `Spec`, `HistorySpec` and the rest holds of the
run's `MockSpec`, and conversely `MockInv` is the conjunction of all invariants.

* The set: `AlwaysIndexed`, `SetTypeCorrect`, `ImplementsSet` (`IsASet`). For any set in
  storage, `Add` and `Remove` keep it `Good` and change its members by one word (`AddKeeps`,
  `RemoveKeeps`; the swap is `Moves`). `SetInv` adds that every word in the set is that of a
  value, without which reading it back as an address would lose something. A set that is
  `Good` has as many positions as members and names each once (`Enumerates`), which is the
  promise's enumeration.
* The map: `NothingLeftBehind` (`AbsentIsZero`), `ImplementsMap` (`IsAMap`). Its keys are a set,
  so the lemmas of the set are used as they are; `MapInv` adds that a word that is no key has
  the value 0, without which `tryGet` would answer as the promise forbids.
* The roles: `RolesAgree`, `SteadyMembersTold`. The two records name the same accounts, and a
  steady member that the reader has not been told of is at a position not yet passed.
  A removal moves the last member only, to a lower position, so going down misses nobody.
* The casts: `CastsAlwaysExact`, for words of any number of bits. Between signed and
  unsigned the remainders of powers of two have to be computed (`Remainders`, `SignedBits`).
* The history: `KeysAlwaysIncrease`, `SearchesSound`, `HistoryTypeCorrect`,
  `ImplementsHistory` (`IsAHistory`). `HistoryInv` says that checkpoints are sorted and not of
  the future, and of a search that it is for a block that has ended and `Fits`: its bounds
  are in the array, with smaller or equal keys before and larger ones behind, which every
  iteration keeps. That the bounds from the square root fit needs `SqrtBounds`: for more
  than five checkpoints the root is at least 1 and less than their number. Where a search
  ends, the array is cut at its key, and the value before the cut is what the block ended
  with (`CutExists`, `ValueAtCut`).
* The traces: `LookupsAlwaysRight`, `PastStaysFixed`, with the lemmas of the history; the lower
  lookup, which a history does not have, has an invariant of its own (`LowerFits`). What is
  settled differs between the two: a push for the last key overwrites the last checkpoint,
  which a lower lookup finds from every key beyond the last but one. So `InsertKeepsFirst`
  speaks of the checkpoints before the last, where `InsertSorts` speaks of keys below it.

`MockTypeCorrect` is the type invariant of all of them.

### The migration

`MigrateImportsProofs`: `MigrateTypeCorrect`, `NothingElseChanges` (`OnlyPathsChange`),
`EndedIsMigrated` (`Migrated`). The table is folded over a text. As for sums, the fold
is a function chosen on the sets of places in the table: `FoldExists` shows that there is one,
`Replacements` unrolls it to the texts in between, and `Updated` says by a minimal
counterexample on their number that every path follows from the one in its place, and
that no old path is left if each was there once. `MigrateInv` relates what a file has to
what it had before the first run (`CameOf`), says that the text held between a read and
its write is the update of what is still in the file, and that files taken off the queue
are done, unless their text is the one held.

### Only model-checked

* `GuardFreed`, `AllLookupsReturn`, `Converges`: liveness under fairness, which this prover does
  not reason about.
* `ApprovedMayApprove`, and with it the other three runs that expect a violation: they show what
  does not hold.

What is proved is proved of the model: that its definitions are those of the code is for
the reader to compare, and `PROJECT.json` names the lines.

## 6. Not modelled, and why

* **Tokens that do not keep their books honestly** (fee on transfer, rebasing): `Solvent`
  does not hold of them, and the code does not claim it.
* **`currency` or `hooks` that is no contract**, or the registrar itself: the call of
  the hook or the token fails, so that is `Revert` (a payment of 0 calls no token: a nota
  without money in a currency that is no token is like one in a token that nobody holds).
* **Allowances**: a call without one fails, `Revert`.
* **ETH sent along** with the payable functions stays in the contract; nothing reads it.
* **Views, `tokenURI`, `contractURI`, `setContractURI`, events**: no state that anything
  else depends on.
* **`CustomRevert`**: bytes of an error. **Deployment script**: not part of the chain; it
  passes `creationCode` without the constructor's argument, so what it deploys fails.
* **Init code that is the same text for another constructor, ETH sent to the factory**:
  no state of the factory depends on either.
* **The bytes of the errors that `callHook` raises**: any of them is a failure.
* **Who may grant a role**: `AccessControl`'s administrators; no contract of the protocol uses
  them. Only the pair of records is modelled.
* **`run.js`** writes and formats the generated files; what it generates is modelled, how it
  writes it is not. The comments it generates, and the version numbers in
  them, are left out.
* **The other scripts** (`compareGasReports.js`, `inheritance-ordering.js`, `gen-nav.js`,
  `hardhat.config.js`, release steps): they format reports and call other programs, once, and
  no part of the system reads what they give.
* **The rest of the vendored library**: the registrar does not inherit it.

## 7. Plan

1. *Done*: Chain, ERC721, RegistrarGov, NotaRegistrar: all invariants and action properties
   checked, with mutants, and proved.
2. *Done*: `NotaLedger` and the refinement, checked and proved.
3. *Done*: `Create2Factory`, checked and proved.
4. *Done*: `HookCall`, checked and proved. Left: its answers in place of "any fee or a failure"
   in the registrar, one machine for both.
5. *Done*: gas, and the guard that is free again (liveness, checked).
6. *Done*: the generated structures, checked and proved.
7. *Done*: migration, checked and proved but for its liveness.
8. Left: the safety half of the liveness properties as theorems, where there is one (a lookup's
   bounds come closer with every iteration; a second run changes only what has an old path
   left).
