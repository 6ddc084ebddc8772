------------------------------ MODULE TxPool ------------------------------
(***************************************************************************)
(* CTxMemPool of txmempool.cpp as a value: the operations that add and     *)
(* remove entries and keep the links, the package statistics and the asset *)
(* maps.  Every transaction has size 1, so a count stands for a size (and  *)
(* for sigops, updated in the same places).  An asset flag stands for a    *)
(* qualifier of an address ("tag"), a frozen asset ("asset") or a frozen   *)
(* address ("address"); a command sets or clears it.                       *)
(***************************************************************************)
EXTENDS Integers, SequencesExt

CONSTANTS
    None,
    Kind    \* the kind of every flag

VARIABLE
    txs     \* the transactions there are: id -> [vin, fee, ...]

Inputs(t) == ToSet(txs[t].vin)
Restricted(f, S) == Restrict(f, DOMAIN f \ S)

(* A pool without transactions; clear() keeps mapDeltas and, as they are   *)
(* globals, mapReissuedAssets and mapReissuedTx.                           *)
Cleared(P) ==
    [P EXCEPT !.mapTx = {}, !.mapNextTx = <<>>, !.feeDelta = <<>>,
              !.parents = <<>>, !.children = <<>>,
              !.withAncestors = <<>>, !.withDescendants = <<>>,
              !.rate = 0, !.blockSince = FALSE,
              !.mapAssetToHash = <<>>, !.mapHashToAsset = <<>>,
              !.claims = <<>>, !.hashClaims = <<>>, !.marks = {}]

NewPool ==
    [mapTx |-> {}, mapNextTx |-> <<>>, feeDelta |-> <<>>, parents |-> <<>>, children |-> <<>>,
     withAncestors |-> <<>>, withDescendants |-> <<>>,
     mapDeltas |-> [t \in DOMAIN txs |-> 0],
     rate |-> 0, blockSince |-> FALSE,
     mapAssetToHash |-> <<>>, mapHashToAsset |-> <<>>,
     mapReissuedAssets |-> <<>>, mapReissuedTx |-> <<>>,
     claims |-> <<>>, hashClaims |-> <<>>, marks |-> {},
     asserts |-> TRUE]

ModifiedFee(P, t) == txs[t].fee + P.feeDelta[t]

-----------------------------------------------------------------------------
(* Everything reachable from S along mapLinks. *)
Reached(links, S) ==
    LET RECURSIVE Grow(_)
        Grow(X) == LET Y == X \cup UNION {links[x] : x \in X}
                   IN  IF Y = X THEN X ELSE Grow(Y)
    IN  Grow(S)

CalculateDescendants(P, S) == Reached(P.children, S)

(* fSearchForParents = false: the entry is in the pool. *)
AncestorsOf(P, t) == Reached(P.parents, P.parents[t])

(* fSearchForParents = true: the parents are looked up in mapTx. *)
ParentsIn(P, t) == {p \in P.mapTx : \E o \in Inputs(t) : o[1] = p}
CalculateMemPoolAncestors(P, t) == Reached(P.parents, ParentsIn(P, t))

TotalFee(P, S) == MapThenSumSet(LAMBDA t : ModifiedFee(P, t), S)
Package(P, S) == [n |-> Cardinality(S), fee |-> TotalFee(P, S)]
Plus(a, b) == [n |-> a.n + b.n, fee |-> a.fee + b.fee]
Minus(a, b) == [n |-> a.n - b.n, fee |-> a.fee - b.fee]

UpdateAncestorsOf(P, t, anc) ==
    [a \in P.mapTx |->
        IF a \in anc THEN Plus(P.withDescendants[a], [n |-> 1, fee |-> txs[t].fee + P.mapDeltas[t]])
                     ELSE P.withDescendants[a]]

(* addUnchecked: the new entry is assumed to have no children. *)
AddUnchecked(P, t, anc) ==
    LET d == P.mapDeltas[t]
        self == [n |-> 1, fee |-> txs[t].fee + d]
        par == ParentsIn(P, t)
    IN  [P EXCEPT
           !.mapTx = @ \cup {t},
           !.feeDelta = @ @@ (t :> d),
           !.mapNextTx = @ @@ [o \in Inputs(t) |-> t],
           !.parents = @ @@ (t :> par),
           !.children = [u \in P.mapTx |-> IF u \in par THEN @[u] \cup {t} ELSE @[u]] @@ (t :> {}),
           !.withDescendants = UpdateAncestorsOf(P, t, anc) @@ (t :> self),
           !.withAncestors = @ @@ (t :> Plus(self, Package(P, anc)))]

-----------------------------------------------------------------------------
(* removeUnchecked's asset part: the maps forget the transactions of S.    *)
(* The hash side of the tag maps is not erased.                            *)
ForgetLocks(P, S) ==
    LET freed == {t \in S \cap DOMAIN P.mapReissuedTx :
                    P.mapReissuedTx[t] \in DOMAIN P.mapReissuedAssets}
    IN  [P EXCEPT !.mapReissuedAssets = Restricted(@, {P.mapReissuedTx[t] : t \in freed}),
                  !.mapReissuedTx = Restricted(@, freed)]

ForgetNames(P, S) ==
    LET named == S \cap DOMAIN P.mapHashToAsset
    IN  [P EXCEPT !.mapAssetToHash = Restricted(@, {P.mapHashToAsset[t] : t \in named}),
                  !.mapHashToAsset = Restricted(@, named)]

ForgetClaims(P, S) ==
    LET left == [k \in DOMAIN P.claims |->
                   P.claims[k] \ {t \in S \cap DOMAIN P.hashClaims : P.hashClaims[t] = k}]
    IN  [P EXCEPT !.claims = Restricted(left, {k \in DOMAIN left : left[k] = {}}),
                  !.hashClaims = Restricted(@, {t \in S \cap DOMAIN @ : Kind[@[t][1]] = "asset"}),
                  !.marks = {m \in @ : m[2] \notin S}]

RemoveUnchecked(P, S) ==
    LET Q == ForgetClaims(ForgetNames(ForgetLocks(P, S), S), S)
    IN  [Q EXCEPT
           !.mapTx = @ \ S,
           !.mapNextTx = Restricted(@, UNION {Inputs(t) : t \in S}),
           !.feeDelta = Restricted(@, S),
           !.parents = Restricted(@, S), !.children = Restricted(@, S),
           !.withAncestors = Restricted(@, S), !.withDescendants = Restricted(@, S)]

(* UpdateForRemoveFromMempool: the statistics of the relatives, then the   *)
(* links.  The asserts of UpdateAncestorState and UpdateDescendantState.   *)
UpdateForRemoveFromMempool(P, S, updateDescendants) ==
    LET Q == [P EXCEPT
                !.withAncestors =
                    [d \in P.mapTx |->
                       IF updateDescendants
                       THEN Minus(@[d], Package(P, {r \in S \ {d} : d \in CalculateDescendants(P, {r})}))
                       ELSE @[d]],
                !.withDescendants =
                    [a \in P.mapTx |-> Minus(@[a], Package(P, {r \in S : a \in AncestorsOf(P, r)}))],
                !.children = [p \in P.mapTx |-> @[p] \ {r \in S : p \in P.parents[r]}],
                !.parents = [c \in P.mapTx |-> @[c] \ {r \in S : c \in P.children[r]}]]
    IN  [Q EXCEPT !.asserts = @ /\ \A t \in P.mapTx : /\ Q.withAncestors[t].n > 0
                                                      /\ Q.withDescendants[t].n > 0]

RemoveStaged(P, S, updateDescendants) ==
    RemoveUnchecked(UpdateForRemoveFromMempool(P, S, updateDescendants), S)

(* Mutant: only transactions that are in the pool are followed. *)
RemoveRecursiveKnown(P, t) ==
    RemoveStaged(P, CalculateDescendants(P, {t} \cap P.mapTx), FALSE)

(* removeRecursive: a transaction that is not in the pool may have         *)
(* children there.                                                         *)
RemoveRecursive(P, t) ==
    LET first == IF t \in P.mapTx THEN {t}
                 ELSE {P.mapNextTx[o] : o \in {o \in DOMAIN P.mapNextTx : o[1] = t}}
    IN  RemoveStaged(P, CalculateDescendants(P, first), FALSE)

ClearPrioritisation(P, t) == [P EXCEPT !.mapDeltas[t] = 0]

(* removeConflicts: whatever else spends an input of t. *)
RemoveConflicts(P, t) ==
    FoldLeft(LAMBDA Q, o : IF o \in DOMAIN Q.mapNextTx /\ Q.mapNextTx[o] # t
                           THEN RemoveRecursive(ClearPrioritisation(Q, Q.mapNextTx[o]), Q.mapNextTx[o])
                           ELSE Q,
             P, txs[t].vin)

(* The body of both loops of removeForBlock. *)
RemoveOne(P, t) ==
    LET Q == IF t \in P.mapTx THEN RemoveStaged(P, {t}, TRUE) ELSE P
    IN  ClearPrioritisation(RemoveConflicts(Q, t), t)

-----------------------------------------------------------------------------
(* UpdateForDescendants' traversal: below an entry that was done before    *)
(* its cached descendants are taken.                                       *)
AllDescendants(P, t, cache) ==
    LET RECURSIVE Walk(_, _)
        Walk(stage, all) ==
            IF stage = {} THEN all
            ELSE LET c == CHOOSE c \in stage : TRUE
                     cached == P.children[c] \cap DOMAIN cache
                     seen == all \cup {c} \cup UNION {cache[k] : k \in cached}
                 IN  Walk((stage \ {c}) \cup ((P.children[c] \ cached) \ seen), seen)
    IN  Walk(P.children[t], {})

(* One entry of UpdateTransactionsFromBlock: link the children, then add   *)
(* the descendants outside `included` to the sums and the entry to theirs. *)
UpdateFromBlock(acc, t, included) ==
    LET P == acc.pool
        kids == {P.mapNextTx[o] : o \in {o \in DOMAIN P.mapNextTx : o[1] = t}} \ included
        Q == [P EXCEPT !.children[t] = @ \cup kids,
                       !.parents = [c \in P.mapTx |-> IF c \in kids THEN @[c] \cup {t} ELSE @[c]]]
        more == AllDescendants(Q, t, acc.cache) \ included
    IN  [pool |-> [Q EXCEPT
                     !.withAncestors = [d \in P.mapTx |-> IF d \in more THEN Plus(@[d], Package(P, {t}))
                                                                        ELSE @[d]],
                     !.withDescendants[t] = Plus(@, Package(P, more))],
         cache |-> IF more = {} THEN acc.cache ELSE (t :> more) @@ acc.cache]

(* Mutant: the oldest transaction is processed first. *)
UpdateTransactionsForward(P, vHashesToUpdate) ==
    FoldLeft(LAMBDA acc, t : IF t \in acc.pool.mapTx
                             THEN UpdateFromBlock(acc, t, ToSet(vHashesToUpdate)) ELSE acc,
             [pool |-> P, cache |-> <<>>], vHashesToUpdate).pool

(* UpdateTransactionsFromBlock goes backwards, children before parents. *)
UpdateTransactionsFromBlock(P, vHashesToUpdate) ==
    FoldLeft(LAMBDA acc, t : IF t \in acc.pool.mapTx
                             THEN UpdateFromBlock(acc, t, ToSet(vHashesToUpdate)) ELSE acc,
             [pool |-> P, cache |-> <<>>], Reverse(vHashesToUpdate)).pool

-----------------------------------------------------------------------------
(* PrioritiseTransaction. *)
Prioritised(P, t, delta) ==
    LET change == [n |-> 0, fee |-> delta]
        Q == [P EXCEPT !.mapDeltas[t] = @ + delta]
    IN  IF t \notin P.mapTx THEN Q
        ELSE [Q EXCEPT
                !.feeDelta[t] = Q.mapDeltas[t],
                !.withDescendants = [a \in P.mapTx |-> IF a \in AncestorsOf(P, t) \cup {t}
                                                       THEN Plus(@[a], change) ELSE @[a]],
                !.withAncestors = [d \in P.mapTx |-> IF d \in CalculateDescendants(P, {t})
                                                     THEN Plus(@[d], change) ELSE @[d]]]

(* Fee rates, scaled so that packages of up to four divide evenly. *)
FeeRate(p) == (12 * p.fee) \div p.n

(* CompareTxMemPoolEntryByDescendantScore. *)
Score(P, t) ==
    Max({FeeRate([n |-> 1, fee |-> ModifiedFee(P, t)]), FeeRate(P.withDescendants[t])})

(* Expire, for the entries of `old`. *)
Expire(P, old) == RemoveStaged(P, CalculateDescendants(P, old), FALSE)
=============================================================================
