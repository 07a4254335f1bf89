------------------------ MODULE NotaOwnershipProofs ------------------------
(***************************************************************************)
(* Who owns a nota, and who may change that, for any accounts, notas and   *)
(* depth of calls inside calls.                                            *)
(*                                                                         *)
(* The properties compare a state with the one in which a call began, and  *)
(* a failing call brings back the storage that its frame saved.  So the    *)
(* invariant relates every open call to the current storage and to every   *)
(* storage saved after the call began.                                     *)
(***************************************************************************)
EXTENDS NotaGuardProofs, FiniteSetTheorems

-----------------------------------------------------------------------------
(* The inductive invariant.  Operators have the owners o, the balances b,  *)
(* the notas n, the approvals ta and the next id x of a storage as         *)
(* parameters, because it speaks of the saved storages too.                *)

Counted(o, b) == \A a \in Address : b[a] = Cardinality({id \in Ids : o[id] = a})

Recorded(o, n, ta) ==
    \A id \in Ids :
       /\ o[id] = Zero => n[id] = Blank /\ ta[id] = Zero
       /\ o[id] # Zero =>
             o[id] \in Payees /\ n[id].currency \in Tokens /\ n[id].hooks \in Contracts

\* The second storage continues the notas of the first: no id is used again.
Later(o, n, x, oo, nn, xx) ==
    /\ x <= xx
    /\ \A id \in Ids :
          /\ id < x /\ o[id] = Zero => oo[id] = Zero
          /\ o[id] # Zero /\ oo[id] # Zero =>
                nn[id].currency = n[id].currency /\ nn[id].hooks = n[id].hooks

\* The nota that call f is about has, among the owners o, the owner it had
\* when f began.
OwnerKept(f, o) ==
    f.fn \in Guarded \ {"write"} /\ f.at # "received" => o[f.id] = f.saved.owners[f.id]

KeptSince(f, o, n, x) ==
    /\ OwnerKept(f, o)
    /\ Later(f.saved.owners, f.saved.notas, f.saved.nextId, o, n, x)

\* What the code checked, or took from its arguments, when call f began.
WellOpened(f) ==
    /\ f.fn \in Transfers \cup {"burn"} => WasAuthorised(f)
    /\ f.fn \notin {"approve", "burn", "update"} => f.to \in Payees
    /\ f.fn = "write" => f.nota.escrowed = f.amount
    /\ f.nota.currency \in Tokens
    /\ f.fn \in Guarded => f.nota.hooks \in Contracts

FrameGood(f) ==
    /\ WellOpened(f)
    /\ Counted(f.saved.owners, f.saved.nftBalance)
    /\ Recorded(f.saved.owners, f.saved.notas, f.saved.tokenApprovals)

\* The first d calls of the stack k have been kept up to a storage.
AllKept(k, d, o, n, x) == \A i \in 1 .. d : KeptSince(k[i], o, n, x)

SavedKept(k, i) ==
    AllKept(k, i - 1, k[i].saved.owners, k[i].saved.notas, k[i].saved.nextId)

OwnInv ==
    /\ GuardInv
    /\ Counted(owners, nftBalance) /\ Recorded(owners, notas, tokenApprovals)
    /\ \A i \in 1 .. Depth : FrameGood(stack[i]) /\ SavedKept(stack, i)
    /\ AllKept(stack, Depth, owners, notas, nextId)
-----------------------------------------------------------------------------
(* What the invariant's parts keep.                                        *)

LEMMA LaterTransitive ==
    ASSUME NEW o1, NEW n1, NEW x1 \in Int, NEW o2, NEW n2, NEW x2 \in Int,
           NEW o3, NEW n3, NEW x3 \in Int, NoneAhead(o1, x1),
           Later(o1, n1, x1, o2, n2, x2), Later(o2, n2, x2, o3, n3, x3)
    PROVE  Later(o1, n1, x1, o3, n3, x3)
<1>1. Ids \subseteq Int
  BY NotasAssumption DEF Ids
<1>2. x1 <= x3
  BY DEF Later
<1>3. ASSUME NEW id \in Ids, id < x1, o1[id] = Zero PROVE o3[id] = Zero
  BY <1>1, <1>3 DEF Later
<1>4. ASSUME NEW id \in Ids, o1[id] # Zero, o3[id] # Zero
      PROVE  n3[id].currency = n1[id].currency /\ n3[id].hooks = n1[id].hooks
  <2>1. id < x1
    BY <1>1, <1>4 DEF NoneAhead
  <2>2. o2[id] # Zero
    BY <1>1, <1>4, <2>1 DEF Later
  <2> QED BY <1>4, <2>2 DEF Later
<1> QED BY <1>2, <1>3, <1>4 DEF Later

\* What every step of the specification but Revert does to the notas.
Progress ==
    /\ Counted(owners, nftBalance)' /\ Recorded(owners, notas, tokenApprovals)'
    /\ Later(owners, notas, nextId, owners', notas', nextId')
    /\ owners' # owners => stack # <<>> /\ Top.fn \in Guarded

\* The calls that g continues: another point, another fee, nothing else.
SameCall(f, g) ==
    /\ f.fn = g.fn /\ f.caller = g.caller /\ f.id = g.id /\ f.nota = g.nota
    /\ f.from = g.from /\ f.to = g.to /\ f.amount = g.amount
    /\ f.instant = g.instant /\ f.saved = g.saved

LEMMA SameCallGood ==
    ASSUME NEW f, NEW g, SameCall(f, g), FrameGood(g)
    PROVE  FrameGood(f)
  BY DEF SameCall, FrameGood, WellOpened, WasAuthorised

\* A frame's saved storage has its type.
LEMMA SavedTyped ==
    ASSUME TypeInv, NEW i \in 1 .. Depth
    PROVE  stack[i] \in FrameType /\ stack[i].saved \in StorageType
           /\ stack[i].saved.nextId \in Int
<1>1. stack[i] \in FrameType
  BY DEF TypeInv, TypeOK, Depth
<1>2. stack[i].saved \in StorageType
  BY <1>1 DEF FrameType
<1> QED BY <1>1, <1>2, NotasAssumption DEF StorageType

\* The open calls are kept by a step that makes progress.
LEMMA KeptOn ==
    ASSUME OwnInv, TypeInv', Progress, NEW i \in 1 .. Depth,
           i < Depth \/ owners' = owners
    PROVE  KeptSince(stack[i], owners', notas', nextId')
<1> DEFINE s == stack[i].saved
<1>1. s.nextId \in Int /\ nextId \in Int /\ nextId' \in Int /\ Depth \in Nat
  BY SavedTyped, NotasAssumption
     DEF OwnInv, GuardInv, TypeInv, TypeOK, NotasTypeOK, Depth
<1>2. NoneAhead(s.owners, s.nextId)
  BY DEF OwnInv, GuardInv, StackFits, SavedFits, Fits
<1>3. KeptSince(stack[i], owners, notas, nextId)
  BY DEF OwnInv, AllKept
<1>4. Later(s.owners, s.notas, s.nextId, owners', notas', nextId')
  BY <1>1, <1>2, <1>3, LaterTransitive DEF Progress, KeptSince
<1>5. OwnerKept(stack[i], owners')
  <2>1. CASE owners' = owners
    BY <1>3, <2>1 DEF KeptSince
  <2>2. CASE i < Depth /\ owners' # owners
    <3>1. Depth \in 1 .. Depth /\ stack[Depth].fn \in Guarded
      BY <1>1, <2>2 DEF Progress, Top
    <3>2. stack[i].fn \notin Guarded
      BY <1>1, <2>2, <3>1 DEF OwnInv, GuardInv, StackFits
    <3> QED BY <3>2 DEF OwnerKept
  <2> QED BY <2>1, <2>2
<1> QED BY <1>4, <1>5 DEF KeptSince

LEMMA SavedKeptBelow ==
    ASSUME NEW k, NEW kk, NEW d \in Nat, NEW i \in 1 .. d,
           \A j \in 1 .. d : kk[j] = k[j], SavedKept(k, i)
    PROVE  SavedKept(kk, i)
<1>1. \A j \in 1 .. i - 1 : j \in 1 .. d
  OBVIOUS
<1> QED BY <1>1 DEF SavedKept, AllKept

-----------------------------------------------------------------------------
(* The invariant after a step that opens, continues or closes a call.      *)

LEMMA OpenOwned ==
    ASSUME OwnInv, GuardInv', NEW f \in FrameType, Open(f), f.saved = Storage, WellOpened(f),
           UNCHANGED <<owners, nftBalance, tokenApprovals, notas, nextId>>
    PROVE  OwnInv'
<1>1. /\ Len(stack') = Depth + 1 /\ stack'[Depth + 1] = f
      /\ \A i \in 1 .. Depth : stack'[i] = stack[i]
  BY OpenStack DEF OwnInv, GuardInv, TypeInv, TypeOK
<1>2. Depth \in Nat /\ Depth' = Depth + 1
  BY <1>1 DEF Depth, OwnInv, GuardInv, TypeInv, TypeOK
<1>3. \A i \in 1 .. Depth + 1 : i \in 1 .. Depth \/ i = Depth + 1
  BY <1>2
<1>4. /\ f.saved.owners = owners /\ f.saved.notas = notas /\ f.saved.nextId = nextId
      /\ f.saved.nftBalance = nftBalance /\ f.saved.tokenApprovals = tokenApprovals
  BY DEF Storage
<1>5. FrameGood(f)
  BY <1>4 DEF FrameGood, OwnInv
<1>6. SavedKept(stack', Depth + 1)
  BY <1>1, <1>2, <1>4 DEF SavedKept, AllKept, OwnInv
<1>7. nextId \in Int
  BY NotasAssumption DEF OwnInv, GuardInv, TypeInv, TypeOK, NotasTypeOK
<1>8. KeptSince(f, owners, notas, nextId)
  BY <1>4, <1>7 DEF KeptSince, OwnerKept, Later
<1>9. ASSUME NEW i \in 1 .. Depth PROVE FrameGood(stack'[i]) /\ SavedKept(stack', i)
  BY <1>1, <1>2, SavedKeptBelow DEF OwnInv
<1>10. AllKept(stack', Depth + 1, owners, notas, nextId)
  BY <1>1, <1>3, <1>8 DEF AllKept, OwnInv
<1> QED BY <1>1, <1>2, <1>3, <1>5, <1>6, <1>9, <1>10 DEF OwnInv

LEMMA ContinueOwned ==
    ASSUME OwnInv, GuardInv', stack # <<>>, NEW f \in FrameType, Continue(f),
           SameCall(f, Top), Progress,
           f.at = "received" \/ (Top.at # "received" /\ owners' = owners)
    PROVE  OwnInv'
<1>1. /\ Len(stack') = Depth /\ stack'[Depth] = f
      /\ \A i \in 1 .. Depth - 1 : stack'[i] = stack[i]
  BY ContinueStack DEF OwnInv, GuardInv, TypeInv, TypeOK
<1>2. Depth \in Nat \ {0} /\ Depth' = Depth /\ Depth \in 1 .. Depth
  BY <1>1, TopInStack DEF Depth, OwnInv, GuardInv, TypeInv, TypeOK
<1>3. \A i \in 1 .. Depth : i \in 1 .. Depth - 1 \/ i = Depth
  BY <1>2
<1>4. FrameGood(f) /\ SavedKept(stack', Depth)
  BY <1>1, <1>2, SameCallGood DEF OwnInv, Top, SavedKept, AllKept, SameCall
<1>5. ASSUME NEW i \in 1 .. Depth - 1
      PROVE  FrameGood(stack'[i]) /\ SavedKept(stack', i)
  <2>1. i \in 1 .. Depth /\ Depth - 1 \in Nat
    BY <1>2
  <2> QED BY <1>1, <2>1, SavedKeptBelow DEF OwnInv
<1>6. TypeInv'
  BY DEF GuardInv
<1>7. ASSUME NEW i \in 1 .. Depth - 1 PROVE KeptSince(stack'[i], owners', notas', nextId')
  <2>1. i \in 1 .. Depth /\ i < Depth
    BY <1>2
  <2> QED BY <1>1, <1>6, <2>1, KeptOn
<1>8. KeptSince(f, owners', notas', nextId')
  <2>1. CASE f.at = "received"
    <3> DEFINE s == Top.saved
    <3>1. s.nextId \in Int /\ nextId \in Int /\ nextId' \in Int
      BY <1>2, <1>6, SavedTyped, NotasAssumption
         DEF OwnInv, GuardInv, TypeInv, TypeOK, NotasTypeOK, Top
    <3>2. NoneAhead(s.owners, s.nextId)
      BY <1>2 DEF OwnInv, GuardInv, StackFits, SavedFits, Fits, Top
    <3>3. KeptSince(Top, owners, notas, nextId)
      BY <1>2 DEF OwnInv, AllKept, Top
    <3>4. Later(s.owners, s.notas, s.nextId, owners', notas', nextId')
      BY <3>1, <3>2, <3>3, LaterTransitive DEF Progress, KeptSince
    <3> QED BY <2>1, <3>4 DEF KeptSince, OwnerKept, SameCall
  <2>2. CASE Top.at # "received" /\ owners' = owners
    <3>1. KeptSince(Top, owners', notas', nextId')
      BY <1>2, <1>6, <2>2, KeptOn DEF Top
    <3> QED BY <2>2, <3>1 DEF KeptSince, OwnerKept, SameCall
  <2> QED BY <2>1, <2>2
<1>9. AllKept(stack', Depth, owners', notas', nextId')
  BY <1>1, <1>3, <1>7, <1>8 DEF AllKept
<1> QED BY <1>1, <1>2, <1>3, <1>4, <1>5, <1>9 DEF OwnInv, Progress

LEMMA CloseOwned ==
    ASSUME OwnInv, GuardInv', stack # <<>>, Close, Progress
    PROVE  OwnInv'
<1>1. Len(stack') = Depth - 1 /\ \A i \in 1 .. Depth - 1 : stack'[i] = stack[i]
  BY CloseStack DEF OwnInv, GuardInv, TypeInv, TypeOK
<1>2. Depth \in Nat \ {0} /\ Depth - 1 \in Nat /\ Depth' = Depth - 1
  BY <1>1, TopInStack DEF Depth, OwnInv, GuardInv, TypeInv, TypeOK
<1>3. ASSUME NEW i \in 1 .. Depth - 1
      PROVE  /\ FrameGood(stack'[i]) /\ SavedKept(stack', i)
             /\ KeptSince(stack'[i], owners', notas', nextId')
  <2>1. i \in 1 .. Depth /\ i < Depth
    BY <1>2
  <2>2. TypeInv'
    BY DEF GuardInv
  <2>3. KeptSince(stack[i], owners', notas', nextId')
    BY <2>1, <2>2, KeptOn
  <2> QED BY <1>1, <1>2, <2>1, <2>3, SavedKeptBelow DEF OwnInv
<1>4. AllKept(stack', Depth - 1, owners', notas', nextId')
  BY <1>3 DEF AllKept
<1> QED BY <1>2, <1>3, <1>4 DEF OwnInv, Progress

LEMMA RevertOwned ==
    ASSUME OwnInv, GuardInv', Revert
    PROVE  OwnInv'
<1>1. /\ stack # <<>> /\ Len(stack') = Depth - 1
      /\ \A i \in 1 .. Depth - 1 : stack'[i] = stack[i]
  BY CloseStack DEF Revert, OwnInv, GuardInv, TypeInv, TypeOK
<1>2. Depth \in Nat \ {0} /\ Depth \in 1 .. Depth /\ Depth - 1 \in Nat /\ Depth' = Depth - 1
  BY <1>1, TopInStack DEF Depth, OwnInv, GuardInv, TypeInv, TypeOK
<1>3. FrameGood(Top) /\ SavedKept(stack, Depth)
  BY <1>2 DEF OwnInv, Top
<1>4. Counted(owners', nftBalance') /\ Recorded(owners', notas', tokenApprovals')
  BY <1>3 DEF FrameGood, Revert
<1>5. AllKept(stack, Depth - 1, owners', notas', nextId')
  BY <1>3 DEF SavedKept, Revert, Top
<1>6. AllKept(stack', Depth - 1, owners', notas', nextId')
  BY <1>1, <1>5 DEF AllKept
<1>7. ASSUME NEW i \in 1 .. Depth - 1 PROVE FrameGood(stack'[i]) /\ SavedKept(stack', i)
  <2>1. i \in 1 .. Depth
    BY <1>2
  <2> QED BY <1>1, <1>2, <2>1, SavedKeptBelow DEF OwnInv
<1> QED BY <1>2, <1>4, <1>6, <1>7 DEF OwnInv
-----------------------------------------------------------------------------
(* What the parts of an operation do to the books of ownership.            *)

LEMMA Recount ==
    ASSUME NEW o \in [Ids -> AddressOrZero], NEW id \in Ids, NEW b \in AddressOrZero, b # o[id],
           NEW oo, oo = [o EXCEPT ![id] = b], NEW a \in Address
    PROVE  Cardinality({i \in Ids : oo[i] = a})
              = Cardinality({i \in Ids : o[i] = a})
                   + (IF a = b THEN 1 ELSE IF a = o[id] THEN -1 ELSE 0)
<1> DEFINE S == {i \in Ids : o[i] = a}
           T == {i \in Ids : oo[i] = a}
<1>1. IsFiniteSet(Ids)
  BY NotasAssumption, FS_Interval DEF Ids
<1>2. IsFiniteSet(S) /\ IsFiniteSet(T) /\ Cardinality(S) \in Nat /\ Cardinality(T) \in Nat
  BY <1>1, FS_Subset, FS_CardinalityType
<1>3. CASE a = b
  <2>1. T = S \cup {id} /\ id \notin S
    BY <1>3
  <2>2. Cardinality(S \cup {id}) = Cardinality(S) + 1
    <3> HIDE DEF S
    <3> QED BY <1>2, <2>1, FS_AddElement
  <2> QED BY <1>3, <2>1, <2>2
<1>4. CASE a = o[id] /\ a # b
  <2>1. T = S \ {id} /\ id \in S
    BY <1>4
  <2>2. Cardinality(S \ {id}) = Cardinality(S) - 1
    <3> HIDE DEF S
    <3> QED BY <1>2, <2>1, FS_RemoveElement
  <2> QED BY <1>2, <1>4, <2>1, <2>2
<1>5. CASE a # o[id] /\ a # b
  <2>1. T = S
    BY <1>5
  <2> QED BY <1>2, <1>5, <2>1
<1> QED BY <1>3, <1>4, <1>5

LEMMA MintCounted ==
    ASSUME ERC721TypeOK, Counted(owners, nftBalance), NEW to \in AddressOrZero, NEW id \in Ids,
           Mint(to, id)
    PROVE  Counted(owners, nftBalance)'
<1>1. ASSUME NEW a \in Address PROVE nftBalance'[a] = Cardinality({i \in Ids : owners'[i] = a})
  <2>1. to \in Address /\ to # owners[id] /\ a # owners[id]
    BY AddressAssumption DEF Mint, AddressOrZero, Exists
  <2>2. /\ owners \in [Ids -> AddressOrZero] /\ nftBalance \in [Address -> Int]
        /\ owners' = [owners EXCEPT ![id] = to]
        /\ nftBalance' = [nftBalance EXCEPT ![to] = @ + 1]
    BY DEF ERC721TypeOK, Mint
  <2>3. Cardinality({i \in Ids : owners'[i] = a})
           = Cardinality({i \in Ids : owners[i] = a}) + (IF a = to THEN 1 ELSE 0)
    <3>1. (IF a = to THEN 1 ELSE IF a = owners[id] THEN -1 ELSE 0) = IF a = to THEN 1 ELSE 0
      BY <2>1
    <3> QED BY <2>1, <2>2, <3>1, Recount
  <2>4. nftBalance[a] = Cardinality({i \in Ids : owners[i] = a}) /\ nftBalance[a] \in Int
    BY <2>2 DEF Counted
  <2>5. nftBalance'[a] = nftBalance[a] + IF a = to THEN 1 ELSE 0
    BY <2>2
  <2> QED BY <2>3, <2>4, <2>5
<1> QED BY <1>1 DEF Counted

LEMMA BurnCounted ==
    ASSUME ERC721TypeOK, Counted(owners, nftBalance), NEW id \in Ids, BurnNFT(id)
    PROVE  Counted(owners, nftBalance)'
<1>1. ASSUME NEW a \in Address PROVE nftBalance'[a] = Cardinality({i \in Ids : owners'[i] = a})
  <2>1. Zero # owners[id] /\ a # Zero /\ owners[id] \in Address
    BY AddressAssumption DEF BurnNFT, AddressOrZero, Exists, ERC721TypeOK
  <2>2. /\ owners \in [Ids -> AddressOrZero] /\ nftBalance \in [Address -> Int]
        /\ owners' = [owners EXCEPT ![id] = Zero]
        /\ nftBalance' = [nftBalance EXCEPT ![owners[id]] = @ - 1]
    BY DEF ERC721TypeOK, BurnNFT
  <2>3. Cardinality({i \in Ids : owners'[i] = a})
           = Cardinality({i \in Ids : owners[i] = a}) + (IF a = owners[id] THEN -1 ELSE 0)
    <3>1. Zero \in AddressOrZero
      BY DEF AddressOrZero
    <3> QED BY <2>1, <2>2, <3>1, Recount
  <2>4. nftBalance[a] = Cardinality({i \in Ids : owners[i] = a}) /\ nftBalance[a] \in Int
    BY <2>2 DEF Counted
  <2>5. nftBalance'[a] = nftBalance[a] + IF a = owners[id] THEN -1 ELSE 0
    BY <2>2
  <2> QED BY <2>3, <2>4, <2>5
<1> QED BY <1>1 DEF Counted

LEMMA TransferCounted ==
    ASSUME ERC721TypeOK, Counted(owners, nftBalance), NEW from, NEW to \in AddressOrZero,
           NEW id \in Ids, TransferNFT(from, to, id)
    PROVE  Counted(owners, nftBalance)'
<1>1. /\ owners \in [Ids -> AddressOrZero] /\ nftBalance \in [Address -> Int]
      /\ owners' = [owners EXCEPT ![id] = to]
      /\ from = owners[id] /\ from \in Address /\ to \in Address
  BY DEF ERC721TypeOK, TransferNFT, AddressOrZero, Exists
<1>2. CASE from = to
  <2>1. owners' = owners /\ nftBalance' = nftBalance
    BY <1>1, <1>2 DEF TransferNFT
  <2> QED BY <2>1 DEF Counted
<1>3. CASE from # to
  <2>1. nftBalance' = [nftBalance EXCEPT ![from] = @ - 1, ![to] = @ + 1]
    BY <1>3 DEF TransferNFT
  <2>2. ASSUME NEW a \in Address
        PROVE  nftBalance'[a] = Cardinality({i \in Ids : owners'[i] = a})
    <3>1. Cardinality({i \in Ids : owners'[i] = a})
             = Cardinality({i \in Ids : owners[i] = a})
                  + (IF a = to THEN 1 ELSE IF a = from THEN -1 ELSE 0)
      BY <1>1, <1>3, Recount
    <3>2. nftBalance[a] = Cardinality({i \in Ids : owners[i] = a}) /\ nftBalance[a] \in Int
      BY <1>1 DEF Counted
    <3>3. nftBalance'[a] = nftBalance[a] + IF a = to THEN 1 ELSE IF a = from THEN -1 ELSE 0
      BY <1>1, <1>3, <2>1
    <3> QED BY <3>1, <3>2, <3>3
  <2> QED BY <2>2 DEF Counted
<1> QED BY <1>2, <1>3

\* A step that changes escrows of living notas only.
EscrowsOnly ==
    \A id \in Ids :
       /\ notas'[id].currency = notas[id].currency /\ notas'[id].hooks = notas[id].hooks
       /\ ~Exists(id) => notas'[id] = notas[id]

LEMMA OneEscrow ==
    ASSUME NotasTypeOK, NEW id \in Ids, Exists(id), NEW e,
           notas' = [notas EXCEPT ![id].escrowed = e]
    PROVE  EscrowsOnly
<1>1. notas \in [Ids -> NotaType]
  BY DEF NotasTypeOK
<1> QED BY <1>1 DEF EscrowsOnly, NotaType

LEMMA ProgressOfBooks ==
    ASSUME OwnInv, EscrowsOnly, UNCHANGED nextId,
           \/ UNCHANGED <<owners, nftBalance, tokenApprovals>>
           \/ \E c, to, id : Exists(id) /\ ApproveNFT(c, to, id)
    PROVE  Progress /\ UNCHANGED owners
<1>1. /\ owners' = owners /\ nftBalance' = nftBalance
      /\ \A id \in Ids : ~Exists(id) => tokenApprovals'[id] = tokenApprovals[id]
  BY DEF ApproveNFT, OwnInv, GuardInv, TypeInv, TypeOK, ERC721TypeOK
<1>2. nextId \in Int
  BY NotasAssumption DEF OwnInv, GuardInv, TypeInv, TypeOK, NotasTypeOK
<1>3. Later(owners, notas, nextId, owners', notas', nextId')
  BY <1>1, <1>2 DEF Later, EscrowsOnly
<1>4. Recorded(owners', notas', tokenApprovals')
  BY <1>1 DEF Recorded, EscrowsOnly, OwnInv, Exists
<1> QED BY <1>1, <1>3, <1>4 DEF Progress, OwnInv

LEMMA ProgressOfTransfer ==
    ASSUME OwnInv, EscrowsOnly, UNCHANGED nextId, stack # <<>>, Top.fn \in Guarded,
           NEW from, NEW to \in Payees, NEW id \in Ids, TransferNFT(from, to, id)
    PROVE  Progress
<1>1. /\ to \in AddressOrZero /\ nextId \in Int /\ ERC721TypeOK
      /\ owners \in [Ids -> AddressOrZero] /\ tokenApprovals \in [Ids -> AddressOrZero]
  BY NotasAssumption, InputAssumption
     DEF OwnInv, GuardInv, TypeInv, TypeOK, NotasTypeOK, AddressOrZero, ERC721TypeOK
<1>2. /\ owners' = [owners EXCEPT ![id] = to] /\ to # Zero /\ Exists(id)
      /\ tokenApprovals' = [tokenApprovals EXCEPT ![id] = Zero]
  BY DEF TransferNFT
<1>3. Counted(owners', nftBalance')
  BY <1>1, TransferCounted DEF OwnInv
<1>4. Recorded(owners', notas', tokenApprovals')
  BY <1>1, <1>2 DEF Recorded, EscrowsOnly, OwnInv, Exists
<1>5. Later(owners, notas, nextId, owners', notas', nextId')
  BY <1>1, <1>2 DEF Later, EscrowsOnly, Exists
<1> QED BY <1>3, <1>4, <1>5 DEF Progress

LEMMA ProgressOfBurn ==
    ASSUME OwnInv, UNCHANGED nextId, stack # <<>>, Top.fn \in Guarded,
           NEW id \in Ids, notas' = [notas EXCEPT ![id] = Blank], BurnNFT(id)
    PROVE  Progress
<1>1. /\ nextId \in Int /\ ERC721TypeOK /\ notas \in [Ids -> NotaType]
      /\ owners \in [Ids -> AddressOrZero] /\ tokenApprovals \in [Ids -> AddressOrZero]
  BY NotasAssumption DEF OwnInv, GuardInv, TypeInv, TypeOK, NotasTypeOK, ERC721TypeOK
<1>2. /\ owners' = [owners EXCEPT ![id] = Zero] /\ Exists(id)
      /\ tokenApprovals' = [tokenApprovals EXCEPT ![id] = Zero]
  BY DEF BurnNFT
<1>3. Counted(owners', nftBalance')
  BY <1>1, BurnCounted DEF OwnInv
<1>4. Recorded(owners', notas', tokenApprovals')
  BY <1>1, <1>2 DEF Recorded, OwnInv, Exists
<1>5. Later(owners, notas, nextId, owners', notas', nextId')
  BY <1>1, <1>2 DEF Later, Exists
<1> QED BY <1>3, <1>4, <1>5 DEF Progress

LEMMA ProgressOfMint ==
    ASSUME OwnInv, nextId' = nextId + 1, stack # <<>>, Top.fn \in Guarded, nextId \in Ids,
           NEW to \in Payees, Mint(to, nextId), NEW n, notas' = [notas EXCEPT ![nextId] = n],
           n.currency \in Tokens, n.hooks \in Contracts
    PROVE  Progress
<1>1. /\ nextId \in Int /\ ERC721TypeOK /\ notas \in [Ids -> NotaType] /\ to \in AddressOrZero
      /\ owners \in [Ids -> AddressOrZero] /\ tokenApprovals \in [Ids -> AddressOrZero]
      /\ Ids \subseteq Int
  BY NotasAssumption, InputAssumption
     DEF OwnInv, GuardInv, TypeInv, TypeOK, NotasTypeOK, ERC721TypeOK, AddressOrZero, Ids
<1>2. /\ owners' = [owners EXCEPT ![nextId] = to] /\ ~Exists(nextId) /\ to # Zero
      /\ tokenApprovals' = tokenApprovals
  BY DEF Mint
<1>3. Counted(owners', nftBalance')
  BY <1>1, MintCounted DEF OwnInv
<1>4. Recorded(owners', notas', tokenApprovals')
  BY <1>1, <1>2 DEF Recorded, OwnInv, Exists
<1>5. Later(owners, notas, nextId, owners', notas', nextId')
  BY <1>1, <1>2 DEF Later, Exists
<1> QED BY <1>3, <1>4, <1>5 DEF Progress
-----------------------------------------------------------------------------
(* The calls that open                                                     *)

\* Frame f has just opened: it has read the storage and asked nobody yet.
Opened(f) ==
    /\ f \in FrameType /\ WellOpened(f) /\ f.saved = Storage
    /\ f.fn \in Guarded /\ f.at = "hook"

LEMMA CallsOpen ==
    ASSUME TypeInv, Recorded(owners, notas, tokenApprovals), Calls
    PROVE  \E f : Opened(f) /\ Enter(f)
<1>1. /\ TypeOK
      /\ Amounts \subseteq Uint
      /\ Payees \subseteq AddressOrZero
      /\ Approvees \subseteq AddressOrZero
      /\ \A id \in Ids : id \in 0 .. MaxNotas /\ owners[id] \in AddressOrZero /\ notas[id] \in NotaType
  BY InputAssumption, NotasAssumption
     DEF TypeInv, TypeOK, ERC721TypeOK, NotasTypeOK, AddressOrZero, Ids
<1>2. PICK c \in Callers :
        \/ \E t \in Tokens, escrowed, instant \in Amounts, owner \in Payees, h \in Contracts :
             Write(c, t, escrowed, instant, owner, h)
        \/ \E id \in Ids :
             \/ \E amount, instant \in Amounts : Fund(c, id, amount, instant)
             \/ \E amount \in Amounts, to \in Payees : Cash(c, id, amount, to)
             \/ \E to \in Approvees : Approve(c, to, id)
             \/ \E fn \in Transfers, from, to \in Payees : Transfer(fn, c, from, to, id)
             \/ Burn(c, id)
             \/ Update(c, id)
  BY DEF Calls
<1>3. ASSUME NEW id \in Ids, Exists(id), NEW fn \in Guarded
      PROVE  LET f == CallOf(fn, c, id, notas[id]) IN
             /\ f \in FrameType /\ f.at = "hook" /\ f.fn = fn /\ f.id = id /\ f.caller = c
             /\ f.nota.currency \in Tokens /\ f.nota.hooks \in Contracts /\ f.saved = Storage
             /\ f.to = Zero
  <2>1. notas[id].currency \in Tokens /\ notas[id].hooks \in Contracts
    BY <1>3 DEF Recorded, Exists
  <2> QED BY <1>1, <1>3, <2>1, CallOfTyped DEF CallOf
<1>4. ASSUME NEW t \in Tokens, NEW escrowed \in Amounts, NEW instant \in Amounts,
             NEW owner \in Payees, NEW h \in Contracts, Write(c, t, escrowed, instant, owner, h)
      PROVE  \E f : Opened(f) /\ Enter(f)
  <2> DEFINE n == [escrowed |-> escrowed, currency |-> t, hooks |-> h]
             f == CallOf("write", c, nextId, n)
             g == [f EXCEPT !.to = owner, !.amount = escrowed, !.instant = instant]
  <2>1. n \in NotaType /\ nextId \in 0 .. MaxNotas
    BY <1>1, <1>4, NotasAssumption DEF NotaType, Write, Ids
  <2>2. f \in FrameType /\ f.fn = "write" /\ f.nota = n /\ f.saved = Storage /\ f.at = "hook"
    BY <1>1, <2>1, CallOfTyped DEF Guarded, CallOf
  <2>3. Enter(g)
    BY <1>4 DEF Write
  <2> HIDE DEF f
  <2>4. /\ g \in FrameType /\ g.fn = "write" /\ g.nota = n /\ g.saved = Storage
        /\ g.at = "hook" /\ g.to = owner /\ g.amount = escrowed
    BY <1>1, <2>2 DEF FrameType
  <2> HIDE DEF g
  <2>5. Opened(g)
    BY <2>4 DEF Opened, WellOpened, Guarded, Transfers
  <2> QED BY <2>3, <2>5
<1>5. ASSUME NEW id \in Ids, NEW amount \in Amounts, NEW instant \in Amounts,
             Fund(c, id, amount, instant)
      PROVE  \E f : Opened(f) /\ Enter(f)
  <2> DEFINE f == CallOf("fund", c, id, notas[id])
             g == [f EXCEPT !.to = owners[id], !.amount = amount, !.instant = instant]
  <2>1. Enter(g) /\ Exists(id) /\ "fund" \in Guarded
    BY <1>5 DEF Fund, Guarded
  <2>2. /\ f \in FrameType /\ f.at = "hook" /\ f.fn = "fund" /\ f.nota.currency \in Tokens
        /\ f.nota.hooks \in Contracts /\ f.saved = Storage
    BY <2>1, <1>3
  <2> HIDE DEF f
  <2>3. /\ g \in FrameType /\ g.fn = "fund" /\ g.nota = f.nota /\ g.saved = Storage
        /\ g.at = "hook" /\ g.to = owners[id]
    BY <1>1, <2>2 DEF FrameType
  <2> HIDE DEF g
  <2>4. owners[id] \in Payees
    BY <2>1 DEF Recorded, Exists
  <2>5. Opened(g)
    BY <2>2, <2>3, <2>4 DEF Opened, WellOpened, Guarded, Transfers
  <2> QED BY <2>1, <2>5
<1>6. ASSUME NEW id \in Ids, NEW amount \in Amounts, NEW to \in Payees, Cash(c, id, amount, to)
      PROVE  \E f : Opened(f) /\ Enter(f)
  <2> DEFINE f == CallOf("cash", c, id, notas[id])
             g == [f EXCEPT !.to = to, !.amount = amount]
  <2>1. Enter(g) /\ Exists(id) /\ "cash" \in Guarded
    BY <1>6 DEF Cash, Guarded
  <2>2. /\ f \in FrameType /\ f.at = "hook" /\ f.fn = "cash" /\ f.nota.currency \in Tokens
        /\ f.nota.hooks \in Contracts /\ f.saved = Storage
    BY <2>1, <1>3
  <2> HIDE DEF f
  <2>3. /\ g \in FrameType /\ g.fn = "cash" /\ g.nota = f.nota /\ g.saved = Storage
        /\ g.at = "hook" /\ g.to = to
    BY <1>1, <2>2 DEF FrameType
  <2> HIDE DEF g
  <2>4. Opened(g)
    BY <2>2, <2>3 DEF Opened, WellOpened, Guarded, Transfers
  <2> QED BY <2>1, <2>4
<1>7. ASSUME NEW id \in Ids, NEW to \in Approvees, Approve(c, to, id)
      PROVE  \E f : Opened(f) /\ Enter(f)
  <2> DEFINE f == CallOf("approve", c, id, notas[id])
             g == [f EXCEPT !.to = to]
  <2>1. Enter(g) /\ Exists(id) /\ "approve" \in Guarded
    BY <1>7 DEF Approve, Guarded
  <2>2. /\ f \in FrameType /\ f.at = "hook" /\ f.fn = "approve" /\ f.nota.currency \in Tokens
        /\ f.nota.hooks \in Contracts /\ f.saved = Storage
    BY <2>1, <1>3
  <2> HIDE DEF f
  <2>3. /\ g \in FrameType /\ g.fn = "approve" /\ g.nota = f.nota /\ g.saved = Storage
        /\ g.at = "hook"
    BY <1>1, <2>2 DEF FrameType
  <2> HIDE DEF g
  <2>4. Opened(g)
    BY <2>2, <2>3 DEF Opened, WellOpened, Guarded, Transfers
  <2> QED BY <2>1, <2>4
<1>8. ASSUME NEW id \in Ids, NEW fn \in Transfers, NEW from \in Payees, NEW to \in Payees,
             Transfer(fn, c, from, to, id)
      PROVE  \E f : Opened(f) /\ Enter(f)
  <2> DEFINE f == CallOf(fn, c, id, notas[id])
             g == [f EXCEPT !.from = from, !.to = to]
  <2>1. Enter(g) /\ Exists(id) /\ IsApprovedOrOwner(c, id) /\ fn \in Guarded
    BY <1>8 DEF Transfer, Guarded, Transfers
  <2>2. /\ f \in FrameType /\ f.at = "hook" /\ f.fn = fn /\ f.id = id /\ f.caller = c
        /\ f.nota.currency \in Tokens /\ f.nota.hooks \in Contracts /\ f.saved = Storage
    BY <2>1, <1>3
  <2> HIDE DEF f
  <2>3. /\ g \in FrameType /\ g.fn = fn /\ g.nota = f.nota /\ g.saved = Storage
        /\ g.at = "hook" /\ g.to = to /\ g.id = id /\ g.caller = c
    BY <1>1, <2>2 DEF FrameType
  <2> HIDE DEF g
  <2>4. WasAuthorised(g)
    BY <2>1, <2>3 DEF WasAuthorised, IsApprovedOrOwner, Storage
  <2>5. Opened(g)
    BY <2>1, <2>2, <2>3, <2>4 DEF Opened, WellOpened, Transfers
  <2> QED BY <2>1, <2>5
<1>9. ASSUME NEW id \in Ids, Burn(c, id) \/ Update(c, id)
      PROVE  \E f : Opened(f) /\ Enter(f)
  <2>1. PICK fn \in {"burn", "update"} :
           /\ Enter(CallOf(fn, c, id, notas[id]))
           /\ fn = "burn" => IsApprovedOrOwner(c, id)
    BY <1>9 DEF Burn, Update
  <2> DEFINE f == CallOf(fn, c, id, notas[id])
  <2>2. Exists(id) /\ fn \in Guarded /\ Enter(f)
    BY <1>9, <2>1 DEF Burn, Update, Guarded
  <2>3. /\ f \in FrameType /\ f.at = "hook" /\ f.fn = fn /\ f.id = id /\ f.caller = c
        /\ f.nota.currency \in Tokens /\ f.nota.hooks \in Contracts /\ f.saved = Storage
    BY <2>2, <1>3
  <2> HIDE DEF f
  <2>4. f.fn = "burn" => WasAuthorised(f)
    BY <2>1, <2>3 DEF WasAuthorised, IsApprovedOrOwner, Storage
  <2>5. Opened(f)
    BY <2>2, <2>3, <2>4 DEF Opened, WellOpened, Transfers
  <2> QED BY <2>2, <2>5
<1> QED
  BY <1>2, <1>4, <1>5, <1>6, <1>7, <1>8, <1>9

\* The frame that a withdrawal opens: its books are written, its payment is next.
OpenedWithdrawal(f, fn, t, amount, to, fee) ==
    /\ f \in FrameType /\ WellOpened(f) /\ f.saved = Storage
    /\ f.fn = fn /\ f.at = "pay" /\ f.nota.currency = t
    /\ f.amount = amount /\ f.to = to /\ f.fee = fee

LEMMA HookWithdrawOpens ==
    ASSUME TypeInv, NEW h \in Contracts, NEW t \in Tokens, NEW amount \in Withdrawals,
           NEW to \in Payees, HookWithdraw(h, t, amount, to)
    PROVE  \E f : OpenedWithdrawal(f, "hookWithdraw", t, amount, to, ProtocolCut(amount)) /\ Open(f)
<1> DEFINE n == [escrowed |-> 0, currency |-> t, hooks |-> h]
           f == CallOf("hookWithdraw", h, 0, n)
           fee == ProtocolCut(amount)
           g == [f EXCEPT !.at = "pay", !.to = to, !.amount = amount, !.fee = fee]
<1>1. /\ TypeOK /\ GovTypeOK /\ n \in NotaType /\ h \in Callers /\ 0 \in 0 .. MaxNotas
      /\ to \in AddressOrZero /\ amount \in Uint /\ "pay" \in Points
  BY InputAssumption, UintAssumption, NotasAssumption
     DEF TypeInv, TypeOK, NotaType, Callers, AddressOrZero, Uint, Points, External
<1>2. fee \in Uint
  <2>1. fee \in 0 .. amount
    BY <1>1, DebitHookTyped DEF HookWithdraw
  <2> HIDE DEF fee
  <2> QED BY <1>1, <2>1, UintAssumption DEF Uint
<1>3. f \in FrameType /\ f.fn = "hookWithdraw" /\ f.nota = n /\ f.saved = Storage
  BY <1>1, CallOfTyped DEF Withdraws, CallOf
<1>4. Open(g)
  BY DEF HookWithdraw
<1> HIDE DEF f, fee
<1>5. /\ g \in FrameType /\ g.fn = "hookWithdraw" /\ g.nota = n /\ g.saved = Storage
      /\ g.at = "pay" /\ g.to = to /\ g.amount = amount /\ g.fee = fee
  BY <1>1, <1>2, <1>3 DEF FrameType
<1> HIDE DEF g
<1>6. OpenedWithdrawal(g, "hookWithdraw", t, amount, to, fee)
  BY <1>5 DEF OpenedWithdrawal, WellOpened, Guarded, Transfers
<1> QED BY <1>4, <1>6 DEF fee

LEMMA ProtocolWithdrawOpens ==
    ASSUME TypeInv, NEW c \in Callers, NEW t \in Tokens, NEW amount \in Withdrawals,
           NEW to \in Payees, ProtocolWithdraw(c, t, amount, to)
    PROVE  \E f : OpenedWithdrawal(f, "protocolWithdraw", t, amount, to, 0) /\ Open(f)
<1> DEFINE n == [escrowed |-> 0, currency |-> t, hooks |-> Zero]
           f == CallOf("protocolWithdraw", c, 0, n)
           g == [f EXCEPT !.at = "pay", !.to = to, !.amount = amount]
<1>1. /\ TypeOK /\ n \in NotaType /\ 0 \in 0 .. MaxNotas
      /\ to \in AddressOrZero /\ amount \in Uint /\ "pay" \in Points
  BY InputAssumption, UintAssumption, NotasAssumption
     DEF TypeInv, TypeOK, NotaType, AddressOrZero, Uint, Points, External
<1>2. f \in FrameType /\ f.fn = "protocolWithdraw" /\ f.nota = n /\ f.saved = Storage /\ f.fee = 0
  BY <1>1, CallOfTyped DEF Withdraws, CallOf
<1>3. Open(g)
  BY DEF ProtocolWithdraw
<1> HIDE DEF f
<1>4. /\ g \in FrameType /\ g.fn = "protocolWithdraw" /\ g.nota = n /\ g.saved = Storage
      /\ g.at = "pay" /\ g.to = to /\ g.amount = amount /\ g.fee = 0
  BY <1>1, <1>2 DEF FrameType
<1> HIDE DEF g
<1>5. OpenedWithdrawal(g, "protocolWithdraw", t, amount, to, 0)
  BY <1>4 DEF OpenedWithdrawal, WellOpened, Guarded, Transfers
<1> QED BY <1>3, <1>5
-----------------------------------------------------------------------------
(* The actions                                                             *)

\* The innermost call, and the nota that it is about.
LEMMA TopOwned ==
    ASSUME OwnInv, stack # <<>>
    PROVE  /\ Top \in FrameType /\ WellOpened(Top)
           /\ KeptSince(Top, owners, notas, nextId)
           /\ Top.fn \in Guarded => Fresh(Top, owners, notas, nextId)
           /\ Top.fn \in Guarded \ {"write"} /\ Top.at # "received" =>
                 /\ Top.id \in Ids /\ Exists(Top.id)
                 /\ notas[Top.id].currency = Top.nota.currency
                 /\ notas[Top.id].hooks = Top.nota.hooks
                 /\ notas[Top.id].escrowed = EscrowNow(Top)
<1>1. Depth \in 1 .. Depth
  BY TopInStack DEF OwnInv, GuardInv, TypeInv, TypeOK
<1>2. Top \in FrameType /\ (Top.fn \in Guarded => Fresh(Top, owners, notas, nextId))
  BY TopFresh DEF OwnInv
<1>3. Top.nota \in NotaType
  BY <1>2 DEF FrameType
<1>4. WellOpened(Top) /\ KeptSince(Top, owners, notas, nextId)
  BY <1>1 DEF OwnInv, FrameGood, AllKept, Top
<1> QED BY <1>2, <1>3, <1>4 DEF Fresh, NotaType, Exists

LEMMA CallsOwned == OwnInv /\ Calls => OwnInv'
<1> SUFFICES ASSUME OwnInv, Calls PROVE OwnInv'
  OBVIOUS
<1>1. PICK f : Opened(f) /\ Enter(f)
  BY CallsOpen DEF OwnInv, GuardInv
<1>2. Open(f) /\ UNCHANGED <<owners, nftBalance, tokenApprovals, notas, nextId>>
  BY <1>1 DEF Enter, erc721Vars
<1>3. GuardInv'
  BY CallsGuarded DEF OwnInv
<1> QED BY <1>1, <1>2, <1>3, OpenOwned DEF Opened

LEMMA DeductsEscrow ==
    ASSUME OwnInv, stack # <<>>, Top.fn \in Guarded \ {"write"}, Top.at # "received",
           NEW fee, DeductFee(fee)
    PROVE  EscrowsOnly
<1>1. /\ Top.id \in Ids /\ Exists(Top.id)
      /\ notas' = [notas EXCEPT ![Top.id].escrowed = notas[Top.id].escrowed - fee]
  BY TopOwned DEF DeductFee
<1>2. NotasTypeOK
  BY DEF OwnInv, GuardInv, TypeInv, TypeOK
<1> QED BY <1>1, <1>2, OneEscrow

LEMMA NoEscrow == ASSUME UNCHANGED notas PROVE EscrowsOnly
  BY DEF EscrowsOnly

LEMMA AnswersOwned == OwnInv /\ Answers => OwnInv'
<1> SUFFICES ASSUME OwnInv, Answers PROVE OwnInv'
  OBVIOUS
<1>1. GuardInv' /\ TypeInv' /\ NotasTypeOK
  BY AnswersGuarded DEF OwnInv, GuardInv, TypeInv, TypeOK
<1>2. stack # <<>> /\ Top.fn \in Guarded
  BY DEF Answers, At, DepositHooked, CashHooked, ApproveHooked, TransferHooked, Deposits,
         Transfers, Guarded, SafeTransferHooked, UpdateHooked, BurnHooked, Received
<1>3. /\ Top \in FrameType /\ WellOpened(Top)
      /\ Top.fn # "write" /\ Top.at # "received" => Top.id \in Ids /\ Exists(Top.id)
  BY <1>2, TopOwned
<1>4. Fees \subseteq Uint /\ External \subseteq Points /\ "finish" \in Points
  BY InputAssumption DEF Points
<1>5. ASSUME NEW fee \in Fees, NEW p \in Points, Continue([Top EXCEPT !.fee = fee, !.at = p]),
             Progress, p = "received" \/ (Top.at # "received" /\ owners' = owners)
      PROVE  OwnInv'
  <2> DEFINE f == [Top EXCEPT !.fee = fee, !.at = p]
  <2>1. f \in FrameType
    BY <1>3, <1>4, FrameMoves
  <2>2. SameCall(f, Top) /\ f.at = p
    BY <1>3 DEF FrameType, SameCall
  <2> HIDE DEF f
  <2> QED BY <1>1, <1>2, <1>5, <2>1, <2>2, ContinueOwned DEF f
<1>6. ASSUME Leave, Progress PROVE OwnInv'
  BY <1>1, <1>2, <1>6, CloseOwned DEF Leave
<1>7. ASSUME NEW fee \in Fees, DepositHooked(fee) PROVE OwnInv'
  <2> DEFINE p == IF ToEscrow(Top.amount, fee) > 0 THEN "pull" ELSE AfterPull
  <2>1. p \in Points
    BY DEF Points, External, AfterPull
  <2>2. /\ Continue([Top EXCEPT !.fee = fee, !.at = p]) /\ Top.at # "received"
        /\ UNCHANGED <<owners, nftBalance, tokenApprovals, notas, nextId>>
    BY <1>7 DEF DepositHooked, storageVars, erc721Vars, At
  <2> HIDE DEF p
  <2>3. Progress
    BY <2>2, NoEscrow, ProgressOfBooks
  <2> QED BY <1>5, <2>1, <2>2, <2>3
<1>8. ASSUME NEW fee \in Fees, CashHooked(fee) PROVE OwnInv'
  <2> DEFINE p == IF Top.amount > fee THEN "pay" ELSE "finish"
  <2>1. p \in Points
    BY DEF Points, External
  <2>2. /\ Continue([Top EXCEPT !.fee = fee, !.at = p]) /\ Top.at = "hook" /\ Top.fn = "cash"
        /\ UNCHANGED <<owners, nftBalance, tokenApprovals, nextId>>
        /\ notas' = [notas EXCEPT ![Top.id].escrowed = notas[Top.id].escrowed - Top.amount]
    BY <1>8 DEF CashHooked, erc721Vars, At
  <2> HIDE DEF p
  <2>3. EscrowsOnly
    BY <1>1, <1>3, <2>2, OneEscrow
  <2>4. Progress
    BY <2>2, <2>3, ProgressOfBooks
  <2> QED BY <1>5, <2>1, <2>2, <2>4
<1>9. ASSUME NEW fee \in Fees, ApproveHooked(fee) \/ UpdateHooked(fee) PROVE OwnInv'
  <2>1. /\ Leave /\ UNCHANGED nextId /\ DeductFee(fee)
        /\ Top.fn \in Guarded \ {"write"} /\ Top.at # "received"
        /\ \/ UNCHANGED <<owners, nftBalance, tokenApprovals>>
           \/ ApproveNFT(Top.caller, Top.to, Top.id)
    BY <1>9 DEF ApproveHooked, UpdateHooked, At, Guarded, erc721Vars
  <2>2. EscrowsOnly
    BY <1>2, <2>1, DeductsEscrow
  <2>3. Progress
    BY <1>3, <2>1, <2>2, ProgressOfBooks
  <2> QED BY <1>6, <2>1, <2>3
<1>10. ASSUME NEW fee \in Fees, TransferHooked(fee) \/ SafeTransferHooked(fee) PROVE OwnInv'
  <2>1. /\ UNCHANGED nextId /\ DeductFee(fee) /\ TransferNFT(Top.from, Top.to, Top.id)
        /\ Top.fn \in Transfers /\ Top.at = "hook"
        /\ Leave \/ Continue([Top EXCEPT !.fee = fee, !.at = "received"])
    BY <1>10 DEF TransferHooked, SafeTransferHooked, At, Transfers
  <2>2. Top.fn \in Guarded \ {"write"} /\ Top.to \in Payees /\ "received" \in Points
    BY <1>3, <2>1 DEF WellOpened, Guarded, Transfers, Points, External
  <2>3. EscrowsOnly
    BY <1>2, <2>1, <2>2, DeductsEscrow
  <2>4. Progress
    BY <1>2, <1>3, <2>1, <2>2, <2>3, ProgressOfTransfer
  <2> QED BY <1>5, <1>6, <2>1, <2>2, <2>4
<1>11. CASE BurnHooked
  <2>1. /\ Leave /\ UNCHANGED nextId /\ BurnNFT(Top.id) /\ Top.fn = "burn" /\ Top.at = "hook"
        /\ notas' = [notas EXCEPT ![Top.id] = Blank]
    BY <1>11 DEF BurnHooked, At
  <2>2. Progress
    BY <1>2, <1>3, <2>1, ProgressOfBurn
  <2> QED BY <1>6, <2>1, <2>2
<1>12. CASE Received
  <2>1. Leave /\ UNCHANGED <<owners, nftBalance, tokenApprovals, notas, nextId>>
    BY <1>12 DEF Received, erc721Vars
  <2>2. Progress
    BY <2>1, NoEscrow, ProgressOfBooks
  <2> QED BY <1>6, <2>1, <2>2
<1> QED BY <1>7, <1>8, <1>9, <1>10, <1>11, <1>12 DEF Answers

LEMMA TokenStepsOwned == OwnInv /\ TokenSteps => OwnInv'
<1> SUFFICES ASSUME OwnInv, TokenSteps PROVE OwnInv'
  OBVIOUS
<1>1. GuardInv' /\ TypeInv'
  BY TokenStepsGuarded DEF OwnInv, GuardInv
<1>2. \E p \in Points \ {"received"}, q \in Points :
         \/ \E from, to, amount : TokenMoves(p, q, from, to, amount)
         \/ TokenReturns(p, q)
  <2>1. /\ {"pull", "pulled", "forward", "forwarded", "pay", "paid"} \subseteq Points \ {"received"}
        /\ "finish" \in Points /\ AfterPull \in Points
    BY DEF Points, External, AfterPull
  <2> HIDE DEF Points
  <2>2. CASE Pulls
    BY <2>1, <2>2 DEF Pulls
  <2>3. CASE PullReturns
    BY <2>1, <2>3 DEF PullReturns
  <2>4. CASE Forwards
    BY <2>1, <2>4 DEF Forwards
  <2>5. CASE ForwardReturns
    BY <2>1, <2>5 DEF ForwardReturns
  <2>6. CASE Pays
    BY <2>1, <2>6 DEF Pays
  <2>7. CASE PayReturns
    BY <2>1, <2>7 DEF PayReturns
  <2> QED BY <2>2, <2>3, <2>4, <2>5, <2>6, <2>7 DEF TokenSteps
<1>3. PICK p \in Points \ {"received"}, q \in Points :
         \/ \E from, to, amount : TokenMoves(p, q, from, to, amount)
         \/ TokenReturns(p, q)
  BY <1>2
<1> DEFINE f == [Top EXCEPT !.at = q]
<1>4. /\ stack # <<>> /\ Top.at = p /\ Continue(f)
      /\ UNCHANGED <<owners, nftBalance, tokenApprovals, notas, nextId>>
  BY <1>3 DEF TokenMoves, TokenReturns, At, storageVars, erc721Vars
<1>5. Top \in FrameType /\ Top.fee \in Uint
  BY <1>4, TopOwned DEF FrameType
<1>6. f \in FrameType
  BY <1>5, FrameMoves
<1>7. SameCall(f, Top)
  BY <1>5 DEF FrameType, SameCall
<1> HIDE DEF f
<1>8. Progress
  BY <1>4, NoEscrow, ProgressOfBooks
<1> QED BY <1>1, <1>3, <1>4, <1>6, <1>7, <1>8, ContinueOwned

LEMMA FinishesOwned == OwnInv /\ Finishes => OwnInv'
<1> SUFFICES ASSUME OwnInv, Finishes PROVE OwnInv'
  OBVIOUS
<1>1. GuardInv' /\ TypeInv' /\ NotasTypeOK
  BY FinishesGuarded DEF OwnInv, GuardInv, TypeInv, TypeOK
<1>2. stack # <<>> /\ Close
  BY DEF Finishes, At, WriteFinishes, FundFinishes, CashFinishes, WithdrawFinishes, Leave
<1>3. CASE WriteFinishes
  <2>1. /\ Top.fn = "write" /\ Top.fn \in Guarded /\ nextId \in Ids /\ nextId' = nextId + 1
        /\ Mint(Top.to, nextId) /\ notas' = [notas EXCEPT ![nextId] = Top.nota]
    BY <1>3 DEF WriteFinishes, At, Guarded
  <2>2. Top.to \in Payees /\ Top.nota.currency \in Tokens /\ Top.nota.hooks \in Contracts
    BY <1>2, <2>1, TopOwned DEF WellOpened
  <2>3. Progress
    BY <1>2, <2>1, <2>2, ProgressOfMint
  <2> QED BY <1>1, <1>2, <2>3, CloseOwned
<1>4. CASE FundFinishes
  <2>1. /\ Top.fn \in Guarded \ {"write"} /\ Top.at # "received"
        /\ notas' = [notas EXCEPT ![Top.id].escrowed = notas[Top.id].escrowed + Top.amount]
        /\ UNCHANGED <<owners, nftBalance, tokenApprovals, nextId>>
    BY <1>4 DEF FundFinishes, At, Guarded, erc721Vars
  <2>2. Top.id \in Ids /\ Exists(Top.id)
    BY <1>2, <2>1, TopOwned
  <2>3. EscrowsOnly
    BY <1>1, <2>1, <2>2, OneEscrow
  <2>4. Progress
    BY <2>1, <2>3, ProgressOfBooks
  <2> QED BY <1>1, <1>2, <2>4, CloseOwned
<1>5. CASE CashFinishes \/ WithdrawFinishes
  <2>1. UNCHANGED <<owners, nftBalance, tokenApprovals, notas, nextId>>
    BY <1>5 DEF CashFinishes, WithdrawFinishes, storageVars, erc721Vars
  <2>2. Progress
    BY <2>1, NoEscrow, ProgressOfBooks
  <2> QED BY <1>1, <1>2, <2>2, CloseOwned
<1> QED BY <1>3, <1>4, <1>5 DEF Finishes

LEMMA UnguardedOwned == OwnInv /\ Unguarded => OwnInv'
<1> SUFFICES ASSUME OwnInv, Unguarded PROVE OwnInv'
  OBVIOUS
<1>1. GuardInv' /\ TypeInv
  BY UnguardedGuarded DEF OwnInv, GuardInv
<1>2. UNCHANGED <<owners, nftBalance, tokenApprovals, notas, nextId>>
  BY UnguardedKeeps
<1>3. CASE UNCHANGED stack
  BY <1>1, <1>2, <1>3 DEF OwnInv, Depth
<1>4. ASSUME NEW c \in Callers, NEW t \in Tokens, NEW amount \in Withdrawals, NEW to \in Payees,
             \/ c \in Contracts /\ HookWithdraw(c, t, amount, to)
             \/ ProtocolWithdraw(c, t, amount, to)
      PROVE  OwnInv'
  <2>1. PICK f, fn, fee : OpenedWithdrawal(f, fn, t, amount, to, fee) /\ Open(f)
    BY <1>1, <1>4, HookWithdrawOpens, ProtocolWithdrawOpens
  <2> QED BY <1>1, <1>2, <2>1, OpenOwned DEF OpenedWithdrawal
<1> QED BY <1>3, <1>4 DEF Unguarded, SendTokens, SetProtocolFee, TransferOwnership,
                          RenounceOwnership, SetApprovalForAll

LEMMA InitOwned == Init => OwnInv
<1> SUFFICES ASSUME Init PROVE OwnInv
  OBVIOUS
<1>1. GuardInv /\ Depth = 0
  BY InitGuarded DEF Init, Depth
<1>2. Counted(owners, nftBalance)
  <2>1. ASSUME NEW a \in Address PROVE {id \in Ids : owners[id] = a} = {}
    BY AddressAssumption DEF Init, ERC721Init
  <2> QED BY <2>1, FS_EmptySet DEF Counted, Init, ERC721Init
<1>3. Recorded(owners, notas, tokenApprovals)
  BY DEF Recorded, Init, ERC721Init
<1> QED BY <1>1, <1>2, <1>3 DEF OwnInv, AllKept

LEMMA StepOwned == OwnInv /\ [Next]_vars => OwnInv'
<1> SUFFICES ASSUME OwnInv, [Next]_vars PROVE OwnInv'
  OBVIOUS
<1>1. GuardInv'
  BY StepGuarded DEF OwnInv
<1>2. CASE UNCHANGED vars
  BY <1>1, <1>2 DEF vars, OwnInv, Depth, erc721Vars
<1>3. CASE Revert
  BY <1>1, <1>3, RevertOwned
<1> QED
  BY <1>2, <1>3, CallsOwned, AnswersOwned, TokenStepsOwned, FinishesOwned, UnguardedOwned
     DEF Next

LEMMA AlwaysOwned == Spec => []OwnInv
  BY InitOwned, StepOwned, PTL DEF Spec
-----------------------------------------------------------------------------
(* What a step, other than a failure, does to notas, owners and approvals. *)

\* The innermost call is about a nota that exists.
AboutNota == stack # <<>> /\ Top.fn \in Guarded \ {"write"} /\ Top.at # "received"

Untouched == UNCHANGED <<owners, tokenApprovals, notas, nextId>>

\* The escrow of the call's nota changes, and perhaps its approval or owner.
TouchesNota ==
    /\ AboutNota /\ EscrowsOnly /\ UNCHANGED nextId
    /\ \A id \in Ids \ {Top.id} : notas'[id] = notas[id]
    /\ \/ UNCHANGED <<owners, tokenApprovals>>
       \/ Top.fn = "approve" /\ ApproveNFT(Top.caller, Top.to, Top.id)
       \/ Top.fn \in Transfers /\ TransferNFT(Top.from, Top.to, Top.id)

EndsNota ==
    /\ AboutNota /\ Top.fn = "burn" /\ BurnNFT(Top.id) /\ UNCHANGED nextId
    /\ notas' = [notas EXCEPT ![Top.id] = Blank]

MakesNota ==
    /\ stack # <<>> /\ Top.fn = "write" /\ Top.id = nextId /\ nextId \in Ids
    /\ Mint(Top.to, nextId) /\ nextId' = nextId + 1
    /\ notas' = [notas EXCEPT ![nextId] = Top.nota]

LEMMA KindsOfSteps ==
    ASSUME OwnInv, Next
    PROVE  Revert \/ Untouched \/ TouchesNota \/ EndsNota \/ MakesNota
<1>1. notas \in [Ids -> NotaType]
  BY DEF OwnInv, GuardInv, TypeInv, TypeOK, NotasTypeOK
<1>2. CASE Calls
  <2>1. PICK f : Enter(f)
    BY <1>2, CallsOpen DEF OwnInv, GuardInv
  <2> QED BY <2>1 DEF Enter, Untouched, erc721Vars
<1>3. CASE TokenSteps
  BY <1>3 DEF TokenSteps, Pulls, PullReturns, Forwards, ForwardReturns, Pays, PayReturns,
              TokenMoves, TokenReturns, Untouched, storageVars, erc721Vars
<1>4. ASSUME Unguarded PROVE Untouched
  BY <1>4, UnguardedKeeps DEF Untouched
<1>5. ASSUME NEW fee \in Fees, DepositHooked(fee) PROVE Untouched
  BY <1>5 DEF DepositHooked, Untouched, storageVars, erc721Vars
<1>6. CASE Received \/ CashFinishes \/ WithdrawFinishes
  BY <1>6 DEF Received, CashFinishes, WithdrawFinishes, Untouched, storageVars, erc721Vars
<1>7. ASSUME AboutNota, NEW e, notas' = [notas EXCEPT ![Top.id].escrowed = e]
      PROVE  EscrowsOnly /\ \A id \in Ids \ {Top.id} : notas'[id] = notas[id]
  <2>1. Top.id \in Ids /\ Exists(Top.id)
    BY <1>7, TopOwned DEF AboutNota
  <2> QED BY <1>1, <1>7, <2>1, OneEscrow DEF NotasTypeOK, OwnInv, GuardInv, TypeInv, TypeOK
<1>8. ASSUME NEW fee \in Fees, CashHooked(fee) PROVE TouchesNota
  <2>1. /\ AboutNota /\ UNCHANGED <<owners, tokenApprovals, nextId>>
        /\ notas' = [notas EXCEPT ![Top.id].escrowed = notas[Top.id].escrowed - Top.amount]
    BY <1>8 DEF CashHooked, At, AboutNota, Guarded, erc721Vars
  <2> QED BY <1>7, <2>1 DEF TouchesNota
<1>9. ASSUME FundFinishes PROVE TouchesNota
  <2>1. /\ AboutNota /\ UNCHANGED <<owners, tokenApprovals, nextId>>
        /\ notas' = [notas EXCEPT ![Top.id].escrowed = notas[Top.id].escrowed + Top.amount]
    BY <1>9 DEF FundFinishes, At, AboutNota, Guarded, erc721Vars
  <2> QED BY <1>7, <2>1 DEF TouchesNota
<1>10. ASSUME NEW fee \in Fees,
              \/ ApproveHooked(fee) \/ UpdateHooked(fee)
              \/ TransferHooked(fee) \/ SafeTransferHooked(fee)
       PROVE  TouchesNota
  <2>1. /\ AboutNota /\ UNCHANGED nextId
        /\ notas' = [notas EXCEPT ![Top.id].escrowed = notas[Top.id].escrowed - fee]
        /\ \/ UNCHANGED <<owners, tokenApprovals>>
           \/ Top.fn = "approve" /\ ApproveNFT(Top.caller, Top.to, Top.id)
           \/ Top.fn \in Transfers /\ TransferNFT(Top.from, Top.to, Top.id)
    BY <1>10 DEF ApproveHooked, UpdateHooked, TransferHooked, SafeTransferHooked, DeductFee,
                 At, AboutNota, Guarded, Transfers, erc721Vars
  <2> QED BY <1>7, <2>1 DEF TouchesNota
<1>11. CASE BurnHooked
  BY <1>11 DEF BurnHooked, EndsNota, AboutNota, At, Guarded
<1>12. CASE WriteFinishes
  <2>1. stack # <<>> /\ Top.fn = "write" /\ "write" \in Guarded
    BY <1>12 DEF WriteFinishes, At, Guarded
  <2>2. Top.id = nextId
    BY <2>1, TopOwned DEF Fresh
  <2> QED BY <1>12, <2>1, <2>2 DEF WriteFinishes, MakesNota
<1> QED BY <1>2, <1>3, <1>4, <1>5, <1>6, <1>8, <1>9, <1>10, <1>11, <1>12
        DEF Next, Answers, Finishes

-----------------------------------------------------------------------------
(* The theorems                                                            *)

\* ERC-721's balances count the notas, and an id that is no nota (not yet, or
\* burnt) has no escrow, hook or approved address left: in every state, also in
\* the middle of calls and after any of them failed (ERC721.sol:252-365,
\* NotaRegistrar.sol:138-151).
THEOREM OwnershipSound == Spec => []OwnershipConsistent
<1>1. ASSUME OwnInv PROVE OwnershipConsistent
  <2>1. NoneAhead(owners, nextId)
    BY <1>1 DEF OwnInv, GuardInv, StorageFits, Fits
  <2>2. nextId \in Int /\ Ids \subseteq Int
    BY <1>1, NotasAssumption DEF OwnInv, GuardInv, TypeInv, TypeOK, NotasTypeOK, Ids
  <2>3. \A id \in Ids : Exists(id) => id < nextId
    BY <2>1, <2>2 DEF NoneAhead, Exists
  <2> QED BY <1>1, <2>3 DEF OwnInv, Counted, Recorded, OwnershipConsistent, Exists
<1> QED BY <1>1, AlwaysOwned, PTL

\* A nota changes only in a step of the guarded call that was made about it:
\* whatever other contracts call from inside that call leaves every nota alone
\* (NotaRegistrar.sol:36-167, RegistrarGov.sol:39-54).
THEOREM NotasKept == Spec => NotaChangedByItsCall
<1> DEFINE A == Revert \/ \A id \in Ids : notas'[id] # notas[id] =>
                   Depth > 0 /\ Top.fn \in Guarded /\ Top.id = id
<1>1. ASSUME OwnInv, [Next]_vars PROVE [A]_vars
  <2> SUFFICES ASSUME Next PROVE A
    BY <1>1
  <2>1. stack # <<>> => Depth > 0
    BY <1>1, TopInStack DEF OwnInv, GuardInv, TypeInv, TypeOK
  <2>2. CASE Revert \/ Untouched
    BY <2>2 DEF Untouched
  <2>3. CASE TouchesNota
    BY <2>1, <2>3 DEF TouchesNota, AboutNota
  <2>4. notas \in [Ids -> NotaType]
    BY <1>1 DEF OwnInv, GuardInv, TypeInv, TypeOK, NotasTypeOK
  <2>5. CASE EndsNota
    BY <2>1, <2>4, <2>5 DEF EndsNota, AboutNota
  <2>6. CASE MakesNota
    BY <2>1, <2>4, <2>6 DEF MakesNota, Guarded
  <2> QED BY <1>1, <2>2, <2>3, <2>5, <2>6, KindsOfSteps
<1>2. Spec => [][A]_vars
  BY <1>1, AlwaysOwned, PTL DEF Spec
<1> QED BY <1>2 DEF NotaChangedByItsCall

\* An id is given once: nextId never goes down, a burnt nota never comes back,
\* and while a nota lives no step, not even a failure that restores an older
\* storage, changes its currency or its hook (NotaRegistrar.sol:48-57, 138-151).
THEOREM NotasLiveOnce == Spec => OneLife
<1> DEFINE A == /\ Revert \/ /\ nextId' >= nextId
                              /\ \A id \in Ids : id < nextId /\ ~Exists(id) => ~Exists(id)'
                /\ \A id \in Ids : Exists(id) /\ Exists(id)' =>
                      notas'[id].currency = notas[id].currency /\ notas'[id].hooks = notas[id].hooks
<1>1. ASSUME OwnInv, [Next]_vars PROVE [A]_vars
  <2> SUFFICES ASSUME Next PROVE A
    BY <1>1
  <2>1. CASE Revert
    <3>1. stack # <<>> /\ Depth \in 1 .. Depth
      BY <1>1, <2>1, TopInStack DEF Revert, OwnInv, GuardInv, TypeInv, TypeOK
    <3>2. KeptSince(Top, owners, notas, nextId)
      BY <1>1, <3>1, TopOwned
    <3>3. Later(owners', notas', nextId', owners, notas, nextId)
      BY <2>1, <3>2 DEF KeptSince, Revert
    <3> QED BY <2>1, <3>3 DEF Later, Exists
  <2>2. CASE ~Revert
    <3>1. nextId \in Int /\ nextId' \in Int /\ owners \in [Ids -> AddressOrZero]
          /\ notas \in [Ids -> NotaType] /\ Ids \subseteq Int
      <4>1. TypeInv /\ TypeInv'
        BY <1>1, StepTyped DEF OwnInv, GuardInv
      <4> QED BY <4>1, NotasAssumption DEF TypeInv, TypeOK, NotasTypeOK, ERC721TypeOK, Ids
    <3>2. CASE Untouched
      BY <3>1, <3>2 DEF Untouched, Exists
    <3>3. CASE TouchesNota
      <4>1. EscrowsOnly /\ nextId' = nextId
        BY <3>3 DEF TouchesNota
      <4>2. \A id \in Ids : notas'[id].currency = notas[id].currency
                            /\ notas'[id].hooks = notas[id].hooks
        BY <4>1 DEF EscrowsOnly
      <4>3. \A id \in Ids : ~Exists(id) => ~Exists(id)'
        BY <3>1, <3>3 DEF TouchesNota, Exists, ApproveNFT, TransferNFT
      <4> QED BY <3>1, <4>1, <4>2, <4>3
    <3>4. CASE EndsNota
      BY <3>1, <3>4 DEF EndsNota, BurnNFT, Exists
    <3>5. CASE MakesNota
      BY <3>1, <3>5 DEF MakesNota, Mint, Exists
    <3> QED BY <1>1, <2>2, <3>2, <3>3, <3>4, <3>5, KindsOfSteps
  <2> QED BY <2>1, <2>2
<1> QED BY <1>1, AlwaysOwned, PTL DEF Spec, OneLife

\* A nota changes hands, or ends, only in a call whose caller was its owner,
\* approved or an operator when the call began, and from the account that owned
\* it then, although the hook runs between that check and the transfer
\* (NotaRegistrar.sol:60-79, 138-151, 201-214).
THEOREM MovesAuthorised == Spec => OnlyAuthorisedMoves
<1> DEFINE A == Revert \/ \A id \in Ids : Exists(id) /\ owners'[id] # owners[id] =>
                   /\ Depth > 0 /\ Top.id = id
                   /\ WasAuthorised(Top)
                   /\ owners[id] = Top.saved.owners[id]
<1>1. ASSUME OwnInv, [Next]_vars PROVE [A]_vars
  <2> SUFFICES ASSUME Next PROVE A
    BY <1>1
  <2>1. stack # <<>> => Depth > 0
    BY <1>1, TopInStack DEF OwnInv, GuardInv, TypeInv, TypeOK
  <2>2. owners \in [Ids -> AddressOrZero]
    BY <1>1 DEF OwnInv, GuardInv, TypeInv, TypeOK, ERC721TypeOK
  <2>3. AboutNota => WellOpened(Top) /\ owners[Top.id] = Top.saved.owners[Top.id]
    BY <1>1, TopOwned DEF AboutNota, KeptSince, OwnerKept
  <2>4. CASE Revert \/ Untouched
    BY <2>4 DEF Untouched
  <2>5. CASE TouchesNota
    BY <2>1, <2>2, <2>3, <2>5
       DEF TouchesNota, AboutNota, WellOpened, ApproveNFT, TransferNFT
  <2>6. CASE EndsNota
    BY <2>1, <2>2, <2>3, <2>6 DEF EndsNota, AboutNota, WellOpened, BurnNFT
  <2>7. CASE MakesNota
    BY <2>2, <2>7 DEF MakesNota, Mint, Exists
  <2> QED BY <1>1, <2>4, <2>5, <2>6, <2>7, KindsOfSteps
<1>2. Spec => [][A]_vars
  BY <1>1, AlwaysOwned, PTL DEF Spec
<1> QED BY <1>2 DEF OnlyAuthorisedMoves

\* An address becomes approved only by an approve call of the nota's owner at
\* that moment, or of the owner's operator, and no approval outlives the owner
\* that gave it (ERC721.sol:111-121, 293-349, NotaRegistrar.sol:123-135).
THEOREM OwnersApprove == Spec => OnlyOwnersApprove
<1> DEFINE A == Revert \/ \A id \in Ids :
                   /\ tokenApprovals'[id] \notin {tokenApprovals[id], Zero} =>
                         /\ Depth > 0 /\ Top.fn = "approve" /\ Top.id = id
                         /\ Top.caller = owners[id] \/ <<owners[id], Top.caller>> \in operatorApprovals
                   /\ owners'[id] # owners[id] => tokenApprovals'[id] = Zero
<1>1. ASSUME OwnInv, [Next]_vars PROVE [A]_vars
  <2> SUFFICES ASSUME Next PROVE A
    BY <1>1
  <2>1. stack # <<>> => Depth > 0
    BY <1>1, TopInStack DEF OwnInv, GuardInv, TypeInv, TypeOK
  <2>2. owners \in [Ids -> AddressOrZero] /\ tokenApprovals \in [Ids -> AddressOrZero]
    BY <1>1 DEF OwnInv, GuardInv, TypeInv, TypeOK, ERC721TypeOK
  <2>3. CASE Revert \/ Untouched
    BY <2>3 DEF Untouched
  <2>4. CASE TouchesNota
    BY <2>1, <2>2, <2>4 DEF TouchesNota, AboutNota, ApproveNFT, TransferNFT
  <2>5. CASE EndsNota
    BY <2>2, <2>5 DEF EndsNota, BurnNFT
  <2>6. CASE MakesNota
    BY <1>1, <2>2, <2>6 DEF MakesNota, Mint, Exists, OwnInv, Recorded
  <2> QED BY <1>1, <2>3, <2>4, <2>5, <2>6, KindsOfSteps
<1>2. Spec => [][A]_vars
  BY <1>1, AlwaysOwned, PTL DEF Spec
<1> QED BY <1>2 DEF OnlyOwnersApprove
=============================================================================
