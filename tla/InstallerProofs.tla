--------------------------- MODULE InstallerProofs ---------------------------
(***************************************************************************)
(* What Installer promises for any number of calls, any PATH and any disk: *)
(* its types, that PATH loses no directory but in a race, and that what a  *)
(* call returns is what a bare name resolves to.                           *)
(***************************************************************************)
EXTENDS Installer, SequenceTheorems, WellFoundedInduction, TLAPS

Places == DOMAIN bins
Names == {BinOf[i] : i \in Installs}
Standings ==
  {"idle", "look", "dir", "prepend", "download", "copy", "script", "returned"}

--------------------------------------------------------------------------------
(* The inductive invariants.                                               *)

\* The types, and the script's lifetime as a call passes through its steps.
Typed ==
  /\ NoDir \notin Places
  /\ bins \in [Places -> [Names -> State]]
  /\ \A i \in Installs : Dir(i) \in Places \cup {NoDir}
  /\ path \in Seq(Places)
  /\ seen \in [Installs -> Seq(Places)]
  /\ step \in [Installs -> Standings]
  /\ found \in [Installs -> Places \cup {NoDir}]
  /\ fresh \in [Installs -> BOOLEAN]
  /\ script \in [Installs -> BOOLEAN]
  /\ prepended \in [Installs -> BOOLEAN]
  /\ overlap \in BOOLEAN
  /\ latest \in SUBSET Installs

ScriptLives ==
  \A i \in Installs :
    /\ script[i] => step[i] \in {"copy", "script"} \/ (fresh[i] /\ step[i] \in {"dir", "prepend", "look"})
    /\ step[i] = "prepend" => Dir(i) # NoDir
    /\ prepended[i] \/ found[i] # NoDir => step[i] = "returned"

\* A call about to set PATH has it all in what it read, but what another has put
\* there since.
Listed(d) ==
  d \in Range(path) \/ \E i \in Installs : step[i] = "prepend" /\ d \in Range(seen[i])
Everywhere(d) ==
  d \in Range(path) /\ \A i \in Installs : step[i] = "prepend" => d \in Range(seen[i])
PutThere(d) == \E j \in Installs : prepended[j] /\ d = Dir(j)

NoneForgotten == \A d \in Places : Listed(d) => Everywhere(d) \/ PutThere(d)

\* While calls do not overlap: one runs at most, and nothing changes PATH between
\* its two halves of prependPath; what a call found is on PATH, behind nothing
\* but what a later call has put in front, or will.
OneRuns == \A i, j \in Installs : Running(i) /\ Running(j) => i = j

PathAsRead == \A i \in Installs : step[i] = "prepend" => seen[i] = path

Hit(n, bin) == bins[path[n]][bin] = "executable"
Ahead(n, d) == \A m \in 1..n : path[m] # d

Overtaken(i, n) ==
  \E j \in Installs \ {i} :
    /\ path[n] = Dir(j)
    /\ prepended[j] \/ (step[j] \in {"dir", "prepend"} /\ BinOf[j] = BinOf[i])

InFrontOnlyLater ==
  \A i \in Installs : found[i] # NoDir =>
    /\ found[i] \in Range(path)
    /\ \A n \in DOMAIN path :
         Ahead(n, found[i]) /\ Hit(n, BinOf[i]) =>
           /\ Overtaken(i, n)
           /\ i \notin latest \/ \E j \in Installs : Running(j)

AloneInv == ~overlap => OneRuns /\ PathAsRead /\ InFrontOnlyLater

InstallInv == Typed /\ ScriptLives /\ NoneForgotten /\ AloneInv

--------------------------------------------------------------------------------
(* What the loop of prependPath keeps, by way of the first entry at which  *)
(* it could go wrong.                                                      *)

LEMMA LeastOf ==
  ASSUME NEW I \in SUBSET Nat, I # {}
  PROVE  \E m \in I : \A j \in I : m <= j
<1>1. PICK m \in I : \A j \in I : ~ (<<j, m>> \in OpToRel(<, Nat))
  BY NatLessThanWellFounded, WFMin, Zenon
<1>2. ASSUME NEW j \in I PROVE ~ (j < m)
  <2>1. <<j, m>> \in Nat \X Nat /\ <<j, m>>[1] = j /\ <<j, m>>[2] = m
    OBVIOUS
  <2> QED
    BY <1>1, <2>1, Zenon DEF OpToRel
<1>3. \A j \in I : m <= j
  BY <1>2
<1> QED
  BY <1>3

LEMMA MinIsLeast ==
  ASSUME NEW I \in SUBSET Nat, I # {}
  PROVE  Min(I) \in I /\ \A j \in I : Min(I) <= j
BY LeastOf DEF Min

\* The entries up to n, without dir, when before holds those up to n - 1.
NextKept(dir, entries, n, before) ==
  IF n = 0 THEN <<>> ELSE IF entries[n] = dir THEN before ELSE Append(before, entries[n])

IsKept(kept, dir, entries, n) ==
  kept = [m \in 0..n |-> NextKept(dir, entries, m, kept[m - 1])]

LEMMA KeptExists ==
  ASSUME NEW dir, NEW entries, NEW L \in Nat
  PROVE  \E kept : IsKept(kept, dir, entries, L)
<1> DEFINE Missing == {n \in Nat : ~ \E kept : IsKept(kept, dir, entries, n)}
<1> SUFFICES ASSUME Missing # {} PROVE FALSE
  OBVIOUS
<1>1. PICK n \in Missing : \A m \in Missing : n <= m
  <2> HIDE DEF Missing
  <2>1. Missing \in SUBSET Nat
    BY DEF Missing
  <2> QED
    BY <2>1, LeastOf
<1>2. n \in Nat /\ ~ \E kept : IsKept(kept, dir, entries, n)
  OBVIOUS
<1>3. CASE n = 0
  <2> DEFINE k == [m \in 0..0 |-> <<>>]
  <2>1. \A m \in 0..0 : k[m] = NextKept(dir, entries, m, k[m - 1])
    BY DEF NextKept
  <2>2. k = [m \in 0..0 |-> NextKept(dir, entries, m, k[m - 1])]
    BY <2>1
  <2> HIDE DEF k
  <2> QED
    BY <1>2, <1>3, <2>2 DEF IsKept
<1>4. CASE n # 0
  <2>1. n - 1 \in Nat /\ ~(n <= n - 1)
    BY <1>2, <1>4
  <2>2. PICK k : IsKept(k, dir, entries, n - 1)
    BY <1>1, <2>1
  <2> DEFINE h == [m \in 0..n |-> IF m < n THEN k[m] ELSE NextKept(dir, entries, n, k[n - 1])]
  <2>3. ASSUME NEW m \in 0..n PROVE h[m] = NextKept(dir, entries, m, h[m - 1])
    <3>1. CASE m = 0
      <4>1. h[m] = k[0]
        BY <1>4, <3>1
      <4>2. k[0] = NextKept(dir, entries, 0, k[0 - 1])
        BY <2>1, <2>2 DEF IsKept
      <4> QED
        BY <3>1, <4>1, <4>2 DEF NextKept
    <3>2. CASE m # 0 /\ m < n
      <4>1. m \in 0..(n - 1) /\ m - 1 \in 0..n /\ m - 1 < n
        BY <1>2, <3>2
      <4>2. h[m] = k[m] /\ h[m - 1] = k[m - 1]
        BY <3>2, <4>1
      <4> QED
        BY <2>2, <4>1, <4>2 DEF IsKept
    <3>3. CASE m = n
      <4>1. n - 1 \in 0..n /\ n - 1 < n /\ ~(m < n)
        BY <1>2, <2>1, <3>3
      <4> QED
        BY <3>3, <4>1
    <3> QED
      BY <1>2, <3>1, <3>2, <3>3
  <2>4. h = [m \in 0..n |-> NextKept(dir, entries, m, h[m - 1])]
    <3>1. h = [m \in 0..n |-> h[m]]
      OBVIOUS
    <3> HIDE DEF h
    <3> QED
      BY <2>3, <3>1
  <2> HIDE DEF h
  <2> QED
    BY <1>2, <2>4 DEF IsKept
<1> QED
  BY <1>3, <1>4

LEMMA WithoutIsKept ==
  ASSUME NEW S, NEW entries \in Seq(S), NEW dir
  PROVE  \E kept : IsKept(kept, dir, entries, Len(entries)) /\ Without(dir, entries) = kept[Len(entries)]
<1> DEFINE K == CHOOSE kept : IsKept(kept, dir, entries, Len(entries))
<1>1. IsKept(K, dir, entries, Len(entries))
  BY KeptExists
<1>2. Without(dir, entries) = K[Len(entries)]
  BY DEF Without, IsKept, NextKept
<1> HIDE DEF K
<1> QED
  BY <1>1, <1>2

\* The entries kept are those other than dir, each behind no more than it was.
KeepsInOrder(kept, dir, entries, n) ==
  /\ \A p \in 1..Len(kept) : \E q \in 1..n :
       /\ entries[q] = kept[p] /\ kept[p] # dir
       /\ \A d : d # dir /\ (\A r \in 1..p : kept[r] # d) => \A r \in 1..q : entries[r] # d
  /\ \A q \in 1..n : entries[q] # dir => \E p \in 1..Len(kept) : kept[p] = entries[q]

LEMMA OneMoreKept ==
  ASSUME NEW S, NEW entries \in Seq(S), NEW dir, NEW n \in 1..Len(entries),
         NEW before \in Seq(S), KeepsInOrder(before, dir, entries, n - 1),
         NEW after, after = NextKept(dir, entries, n, before)
  PROVE  after \in Seq(S) /\ KeepsInOrder(after, dir, entries, n)
<1>0. n \in Nat /\ n - 1 \in Nat /\ n # 0 /\ entries[n] \in S /\ Len(entries) \in Nat
  OBVIOUS
<1>1. CASE entries[n] = dir
  <2>1. after = before
    BY <1>0, <1>1 DEF NextKept
  <2>2. ASSUME NEW p \in 1..Len(before)
        PROVE  \E q \in 1..n :
                 /\ entries[q] = before[p] /\ before[p] # dir
                 /\ \A d : d # dir /\ (\A r \in 1..p : before[r] # d) => \A r \in 1..q : entries[r] # d
    <3>1. \A q \in 1..(n - 1) : q \in 1..n
      BY <1>0
    <3> QED
      BY <3>1 DEF KeepsInOrder
  <2>3. \A q \in 1..n : entries[q] # dir => q \in 1..(n - 1)
    BY <1>0, <1>1
  <2>4. \A q \in 1..n : entries[q] # dir => \E p \in 1..Len(before) : before[p] = entries[q]
    BY <2>3 DEF KeepsInOrder
  <2> QED
    BY <2>1, <2>2, <2>4 DEF KeepsInOrder
<1>2. CASE entries[n] # dir
  <2> DEFINE l == Len(before)
  <2>1. /\ after = Append(before, entries[n]) /\ after \in Seq(S)
        /\ l \in Nat /\ Len(after) = l + 1 /\ after[l + 1] = entries[n]
        /\ \A p \in 1..l : after[p] = before[p]
    BY <1>0, <1>2 DEF NextKept
  <2>2. ASSUME NEW p \in 1..Len(after)
        PROVE  \E q \in 1..n :
                 /\ entries[q] = after[p] /\ after[p] # dir
                 /\ \A d : d # dir /\ (\A r \in 1..p : after[r] # d) => \A r \in 1..q : entries[r] # d
    <3>1. CASE p \in 1..l
      <4>1. PICK q \in 1..(n - 1) :
              /\ entries[q] = before[p] /\ before[p] # dir
              /\ \A d : d # dir /\ (\A r \in 1..p : before[r] # d) => \A r \in 1..q : entries[r] # d
        BY <3>1 DEF KeepsInOrder
      <4>2. \A r \in 1..p : after[r] = before[r]
        BY <2>1, <3>1
      <4>3. q \in 1..n
        BY <1>0
      <4> HIDE DEF l
      <4> QED
        BY <2>1, <3>1, <4>1, <4>2, <4>3
    <3>2. CASE p = l + 1
      <4>1. ASSUME NEW d, d # dir, \A r \in 1..p : after[r] # d, NEW r \in 1..n, entries[r] = d
            PROVE  FALSE
        <5>1. CASE r = n
          BY <2>1, <3>2, <4>1, <5>1
        <5>2. CASE r \in 1..(n - 1)
          <6>1. PICK o \in 1..l : before[o] = d
            BY <4>1, <5>2 DEF KeepsInOrder
          <6>2. o \in 1..p /\ after[o] = d
            BY <2>1, <3>2, <6>1
          <6> QED
            BY <4>1, <6>2
        <5> QED
          BY <1>0, <5>1, <5>2
      <4>2. n \in 1..n /\ entries[n] = after[p] /\ after[p] # dir
        BY <1>0, <1>2, <2>1, <3>2
      <4> QED
        BY <4>1, <4>2
    <3>3. p \in 1..l \/ p = l + 1
      <4> HIDE DEF l
      <4> QED
        BY <2>1
    <3> QED
      BY <3>1, <3>2, <3>3
  <2>3. ASSUME NEW q \in 1..n, entries[q] # dir
        PROVE  \E p \in 1..Len(after) : after[p] = entries[q]
    <3>1. CASE q = n
      BY <2>1, <3>1
    <3>2. CASE q \in 1..(n - 1)
      <4>1. PICK p \in 1..l : before[p] = entries[q]
        BY <2>3, <3>2 DEF KeepsInOrder
      <4> QED
        BY <2>1, <4>1
    <3> QED
      BY <1>0, <3>1, <3>2
  <2> QED
    BY <2>1, <2>2, <2>3 DEF KeepsInOrder
<1> QED
  BY <1>1, <1>2

LEMMA WithoutKeeps ==
  ASSUME NEW S, NEW entries \in Seq(S), NEW dir
  PROVE  /\ Without(dir, entries) \in Seq(S)
         /\ KeepsInOrder(Without(dir, entries), dir, entries, Len(entries))
<1> DEFINE L == Len(entries)
<1>0. L \in Nat
  OBVIOUS
<1>1. PICK kept : IsKept(kept, dir, entries, L) /\ Without(dir, entries) = kept[L]
  BY WithoutIsKept
<1> DEFINE Good(n) == kept[n] \in Seq(S) /\ KeepsInOrder(kept[n], dir, entries, n)
           Bad == {n \in 0..L : ~Good(n)}
<1>2. SUFFICES ASSUME Bad # {} PROVE FALSE
  <2>1. Bad = {} => Good(L)
    BY <1>0
  <2> QED
    BY <1>1, <2>1
<1> HIDE DEF L
<1>3. PICK n \in Bad : \A m \in Bad : n <= m
  <2>1. Bad \in SUBSET Nat
    BY <1>0
  <2> HIDE DEF Bad
  <2> QED
    BY <1>2, <2>1, LeastOf
<1>4. n \in 0..L /\ ~Good(n)
  OBVIOUS
<1>5. kept[n] = NextKept(dir, entries, n, kept[n - 1])
  BY <1>1, <1>4 DEF IsKept
<1>6. CASE n = 0
  <2>1. kept[n] = <<>>
    BY <1>5, <1>6 DEF NextKept
  <2>2. kept[n] \in Seq(S) /\ Len(kept[n]) = 0
    BY <2>1
  <2>3. KeepsInOrder(kept[n], dir, entries, n)
    BY <1>6, <2>2 DEF KeepsInOrder
  <2> QED
    BY <1>4, <2>2, <2>3
<1>7. CASE n # 0
  <2>1. n - 1 \in 0..L /\ n \in 1..L /\ ~(n <= n - 1)
    BY <1>0, <1>4, <1>7
  <2>2. Good(n - 1)
    BY <1>3, <2>1
  <2>3. Good(n)
    <3>1. n \in 1..Len(entries)
      BY <2>1 DEF L
    <3> QED
      BY <1>5, <2>2, <3>1, OneMoreKept
  <2> QED
    BY <1>4, <2>3
<1> QED
  BY <1>6, <1>7

--------------------------------------------------------------------------------
(* Types.                                                                  *)

LEMMA NameOf == ASSUME NEW i \in Installs PROVE BinOf[i] \in Names
BY DEF Names

LEMMA LookPathIs ==
  ASSUME Typed, NEW bin \in Names
  PROVE  /\ LookPath(bin) = NoDir => \A n \in DOMAIN path : ~Hit(n, bin)
         /\ LookPath(bin) # NoDir =>
              \E n \in DOMAIN path :
                path[n] = LookPath(bin) /\ Hit(n, bin) /\ \A m \in DOMAIN path : Hit(m, bin) => n <= m
         /\ LookPath(bin) \in Places \cup {NoDir}
<1> DEFINE hits == {n \in DOMAIN path : Hit(n, bin)}
<1>1. /\ LookPath(bin) = IF hits = {} THEN NoDir ELSE path[Min(hits)]
      /\ hits \in SUBSET Nat
      /\ \A n \in DOMAIN path : path[n] \in Places
      /\ NoDir \notin Places
  BY DEF LookPath, Hit, Typed
<1>2. CASE hits = {}
  BY <1>1, <1>2
<1>3. CASE hits # {}
  <2>1. Min(hits) \in hits /\ \A n \in hits : Min(hits) <= n
    <3> HIDE DEF hits
    <3> QED
      BY <1>1, <1>3, MinIsLeast
  <2> QED
    BY <1>1, <1>3, <2>1
<1> QED
  BY <1>2, <1>3

LEMMA TypedInit == InstallInit => Typed
<1> SUFFICES ASSUME InstallInit PROVE Typed
  OBVIOUS
<1>1. /\ NoDir \notin Places
      /\ bins \in [Places -> [Names -> State]]
      /\ path \in Seq(Places)
      /\ \A i \in Installs : Dir(i) \in Places \cup {NoDir}
  BY InstallAssumption DEF InstallInit, Places, Names, Dir
<1>2. <<>> \in Seq(Places)
  OBVIOUS
<1> QED
  BY <1>1, <1>2 DEF Typed, InstallInit, Standings

\* What the steps of a call leave alone.
LEMMA DiskStays == ASSUME Typed, UNCHANGED bins PROVE Places' = Places
BY DEF Places

LEMMA DiskChanges ==
  ASSUME Typed, NEW i \in Installs, NEW f \in State, Dir(i) # NoDir,
         bins' = [bins EXCEPT ![Dir(i)][BinOf[i]] = f]
  PROVE  /\ Dir(i) \in Places /\ Places' = Places
         /\ bins' \in [Places -> [Names -> State]]
         /\ bins'[Dir(i)][BinOf[i]] = f
         /\ \A d \in Places, b \in Names : d # Dir(i) \/ b # BinOf[i] => bins'[d][b] = bins[d][b]
<1>1. Dir(i) \in Places /\ BinOf[i] \in Names
  BY DEF Typed, Names
<1> DEFINE D == Dir(i)  B == BinOf[i]
<1>2. bins' = [bins EXCEPT ![D] = [bins[D] EXCEPT ![B] = f]] /\ bins \in [Places -> [Names -> State]]
  BY DEF Typed
<1> HIDE DEF D, B
<1>3. D \in Places /\ B \in Names
  BY <1>1 DEF D, B
<1>4. bins[D] \in [Names -> State]
  BY <1>2, <1>3
<1>5. DEFINE g == [bins[D] EXCEPT ![B] = f]
<1>6. g \in [Names -> State] /\ g[B] = f /\ \A b \in Names : b # B => g[b] = bins[D][b]
  BY <1>3, <1>4
<1>7. bins' = [bins EXCEPT ![D] = g]
  BY <1>2
<1> HIDE DEF g
<1>8. /\ bins' \in [Places -> [Names -> State]] /\ bins'[D] = g
      /\ \A d \in Places : d # D => bins'[d] = bins[d]
  BY <1>2, <1>3, <1>6, <1>7
<1>9. Places' = Places
  BY <1>8 DEF Places
<1> QED
  BY <1>1, <1>6, <1>8, <1>9 DEF D, B

LEMMA Moved ==
  ASSUME Typed, NEW i \in Installs, NEW from, NEW to \in Standings, Goes(i, from, to)
  PROVE  /\ step' \in [Installs -> Standings]
         /\ step[i] = from /\ step'[i] = to
         /\ \A j \in Installs : j # i => step'[j] = step[j]
BY DEF Typed, Goes

LEMMA Returned ==
  ASSUME Typed, NEW i \in Installs, NEW from, NEW dir \in Places \cup {NoDir}, Returns(i, from, dir)
  PROVE  /\ step' \in [Installs -> Standings]
         /\ step[i] = from /\ step'[i] = "returned"
         /\ \A j \in Installs : j # i => step'[j] = step[j]
         /\ found' \in [Installs -> Places \cup {NoDir}]
         /\ found'[i] = dir /\ \A j \in Installs : j # i => found'[j] = found[j]
         /\ script' \in [Installs -> BOOLEAN]
         /\ ~script'[i] /\ \A j \in Installs : j # i => script'[j] = script[j]
         /\ latest' = {i} /\ latest' \in SUBSET Installs
<1>1. "returned" \in Standings
  BY DEF Standings
<1>2. Goes(i, from, "returned")
  BY DEF Returns, Leaves
<1> QED
  BY <1>1, <1>2, Moved DEF Returns, Leaves, Typed

\* The two ways DownloadScript goes on, and its two ways out.
Downloads(i) == CreateTemp(i) \/ Copied(i)
GivesUp(i) == DownloadFails(i) \/ CopyFails(i)

\* No file is left behind either way: there was none, or it is removed.
LEMMA GivesUpReturns ==
  ASSUME Typed, ScriptLives, NEW i \in Installs, GivesUp(i)
  PROVE  \E from \in {"download", "copy"} : Returns(i, from, NoDir)
<1>1. CASE DownloadFails(i)
  <2>1. ~script[i] /\ script' = script
    BY <1>1 DEF DownloadFails, Leaves, Goes, ScriptLives
  <2>2. script' = [script EXCEPT ![i] = FALSE]
    BY <2>1 DEF Typed
  <2> QED
    BY <1>1, <2>2 DEF DownloadFails, Returns
<1>2. CASE CopyFails(i)
  BY <1>2 DEF CopyFails, Returns
<1> QED
  BY <1>1, <1>2 DEF GivesUp

LEMMA Fronted ==
  ASSUME Typed, NEW i \in Installs, Dir(i) # NoDir
  PROVE  /\ Dir(i) \in Places
         /\ MovedToFront(i) \in Seq(Places)
         /\ Len(MovedToFront(i)) = Len(Without(Dir(i), seen[i])) + 1
         /\ MovedToFront(i)[1] = Dir(i)
         /\ \A p \in 1..Len(Without(Dir(i), seen[i])) :
              MovedToFront(i)[p + 1] = Without(Dir(i), seen[i])[p]
<1> DEFINE W == Without(Dir(i), seen[i])
<1>1. Dir(i) \in Places /\ seen[i] \in Seq(Places)
  BY DEF Typed
<1>2. W \in Seq(Places)
  BY <1>1, WithoutKeeps
<1>3. MovedToFront(i) = <<Dir(i)>> \o W
  BY DEF MovedToFront
<1> HIDE DEF W
<1>4. /\ <<Dir(i)>> \o W \in Seq(Places) /\ Len(<<Dir(i)>> \o W) = Len(W) + 1
      /\ (<<Dir(i)>> \o W)[1] = Dir(i)
      /\ \A p \in 1..Len(W) : (<<Dir(i)>> \o W)[p + 1] = W[p]
  BY <1>1, <1>2
<1> QED
  BY <1>1, <1>3, <1>4 DEF W

LEMMA TypedNext == Typed /\ ScriptLives /\ [InstallNext]_installVars => Typed'
<1> SUFFICES ASSUME Typed, ScriptLives, [InstallNext]_installVars PROVE Typed'
  OBVIOUS
<1>1. CASE UNCHANGED installVars
  BY <1>1 DEF installVars, Typed, Places, Dir
<1>2. SUFFICES ASSUME NEW i \in Installs,
                      \/ Start(i) \/ Look(i) \/ FindInDir(i) \/ NotInDir(i) \/ PrependPath(i)
                      \/ Downloads(i) \/ GivesUp(i) \/ RunScript(i) \/ ScriptFails(i)
               PROVE  Typed'
  BY <1>1 DEF InstallNext, Downloads, GivesUp
<1>3. ASSUME UNCHANGED dirs, Places' = Places,
             bins' \in [Places -> [Names -> State]], path' \in Seq(Places),
             seen' \in [Installs -> Seq(Places)], step' \in [Installs -> Standings],
             found' \in [Installs -> Places \cup {NoDir}],
             fresh' \in [Installs -> BOOLEAN], script' \in [Installs -> BOOLEAN],
             prepended' \in [Installs -> BOOLEAN], overlap' \in BOOLEAN, latest' \in SUBSET Installs
      PROVE  Typed'
  BY <1>3 DEF Typed, Dir
<1>4. CASE Start(i)
  <2>1. PICK to \in Standings : Goes(i, "idle", to)
    BY <1>4 DEF Start, Standings
  <2>2. step' \in [Installs -> Standings]
    BY <2>1, Moved
  <2> QED
    BY <1>3, <1>4, <2>2, DiskStays DEF Start, Typed
<1>5. CASE Look(i)
  <2> DEFINE dir == LookPath(BinOf[i])
  <2>1. dir \in Places \cup {NoDir}
    BY LookPathIs, NameOf
  <2>2. CASE Returns(i, "look", dir)
    <3> HIDE DEF dir
    <3>1. /\ step' \in [Installs -> Standings] /\ found' \in [Installs -> Places \cup {NoDir}]
          /\ script' \in [Installs -> BOOLEAN] /\ latest' \in SUBSET Installs
      BY <2>1, <2>2, Returned
    <3> QED
      BY <1>3, <1>5, <3>1, DiskStays DEF Look, Typed
  <2>3. CASE Goes(i, "look", "dir") /\ UNCHANGED <<script, found, latest>>
    <3>1. step' \in [Installs -> Standings]
      BY <2>3, Moved DEF Standings
    <3> QED
      BY <1>3, <1>5, <2>3, <3>1, DiskStays DEF Look, Typed
  <2> QED
    BY <1>5, <2>2, <2>3 DEF Look
<1>6. CASE FindInDir(i)
  <2>1. step' \in [Installs -> Standings]
    BY <1>6, Moved DEF FindInDir, Standings
  <2>2. seen' \in [Installs -> Seq(Places)]
    BY <1>6 DEF FindInDir, Typed
  <2> QED
    BY <1>3, <1>6, <2>1, <2>2, DiskStays DEF FindInDir, Typed
<1>7. CASE NotInDir(i)
  <2>1. PICK to \in Standings : Goes(i, "dir", to)
    BY <1>7 DEF NotInDir, Standings
  <2>2. step' \in [Installs -> Standings]
    BY <2>1, Moved
  <2> QED
    BY <1>3, <1>7, <2>2, DiskStays DEF NotInDir, Typed
<1>8. CASE PrependPath(i)
  <2>1. Dir(i) # NoDir
    BY <1>8 DEF PrependPath, Returns, Leaves, Goes, ScriptLives
  <2>2. path' \in Seq(Places) /\ Dir(i) \in Places
    BY <1>8, <2>1, Fronted DEF PrependPath
  <2>3. /\ step' \in [Installs -> Standings] /\ found' \in [Installs -> Places \cup {NoDir}]
        /\ script' \in [Installs -> BOOLEAN] /\ latest' \in SUBSET Installs
    BY <1>8, <2>2, Returned DEF PrependPath
  <2>4. prepended' \in [Installs -> BOOLEAN]
    BY <1>8 DEF PrependPath, Typed
  <2> QED
    BY <1>3, <1>8, <2>2, <2>3, <2>4, DiskStays DEF PrependPath, Typed
<1>9. CASE Downloads(i)
  <2>1. step' \in [Installs -> Standings]
    BY <1>9, Moved DEF Downloads, CreateTemp, Copied, Standings
  <2>2. script' \in [Installs -> BOOLEAN]
    BY <1>9 DEF Downloads, CreateTemp, Copied, Typed
  <2> QED
    BY <1>3, <1>9, <2>1, <2>2, DiskStays DEF Downloads, CreateTemp, Copied, Typed
<1>10. CASE GivesUp(i)
  <2>1. \E from \in {"download", "copy"} : Returns(i, from, NoDir)
    BY <1>10, GivesUpReturns
  <2>2. /\ step' \in [Installs -> Standings] /\ found' \in [Installs -> Places \cup {NoDir}]
        /\ script' \in [Installs -> BOOLEAN] /\ latest' \in SUBSET Installs
    BY <2>1, Returned
  <2> QED
    BY <1>3, <1>10, <2>2, DiskStays DEF GivesUp, DownloadFails, CopyFails, Typed
<1>11. CASE RunScript(i)
  <2>1. step' \in [Installs -> Standings]
    BY <1>11, Moved DEF RunScript, Standings
  <2>2. fresh' \in [Installs -> BOOLEAN]
    BY <1>11 DEF RunScript, Typed
  <2>3. Places' = Places /\ bins' \in [Places -> [Names -> State]]
    <3>1. CASE UNCHANGED bins
      BY <3>1, DiskStays DEF Typed
    <3>2. CASE Dir(i) # NoDir /\ bins' = [bins EXCEPT ![Dir(i)][BinOf[i]] = "executable"]
      BY <3>2, DiskChanges DEF State
    <3> QED
      BY <1>11, <3>1, <3>2 DEF RunScript
  <2> QED
    BY <1>3, <1>11, <2>1, <2>2, <2>3 DEF RunScript, Typed
<1>12. CASE ScriptFails(i)
  <2>1. /\ step' \in [Installs -> Standings] /\ found' \in [Installs -> Places \cup {NoDir}]
        /\ script' \in [Installs -> BOOLEAN] /\ latest' \in SUBSET Installs
    BY <1>12, Returned DEF ScriptFails
  <2>2. Places' = Places /\ bins' \in [Places -> [Names -> State]]
    <3>1. CASE UNCHANGED bins
      BY <3>1, DiskStays DEF Typed
    <3>2. CASE Dir(i) # NoDir /\ bins' = [bins EXCEPT ![Dir(i)][BinOf[i]] = "plain"]
      BY <3>2, DiskChanges DEF State
    <3> QED
      BY <1>12, <3>1, <3>2 DEF ScriptFails
  <2> QED
    BY <1>3, <1>12, <2>1, <2>2 DEF ScriptFails, Typed
<1> QED
  BY <1>2, <1>4, <1>5, <1>6, <1>7, <1>8, <1>9, <1>10, <1>11, <1>12

--------------------------------------------------------------------------------
(* The script's life, and PATH.                                            *)

LEMMA ScriptNext == Typed /\ ScriptLives /\ [InstallNext]_installVars => ScriptLives'
<1> SUFFICES ASSUME Typed, ScriptLives, [InstallNext]_installVars PROVE ScriptLives'
  OBVIOUS
<1>1. CASE UNCHANGED installVars
  BY <1>1 DEF installVars, ScriptLives, Dir
<1>2. SUFFICES ASSUME NEW i \in Installs,
                      \/ Start(i) \/ Look(i) \/ FindInDir(i) \/ NotInDir(i) \/ PrependPath(i)
                      \/ Downloads(i) \/ GivesUp(i) \/ RunScript(i) \/ ScriptFails(i),
                      NEW j \in Installs
               PROVE  /\ script'[j] => \/ step'[j] \in {"copy", "script"}
                                       \/ fresh'[j] /\ step'[j] \in {"dir", "prepend", "look"}
                      /\ step'[j] = "prepend" => Dir(j)' # NoDir
                      /\ prepended'[j] \/ found'[j] # NoDir => step'[j] = "returned"
  BY <1>1 DEF InstallNext, ScriptLives, Downloads, GivesUp
<1>3. /\ script[j] => step[j] \in {"copy", "script"} \/ (fresh[j] /\ step[j] \in {"dir", "prepend", "look"})
      /\ step[j] = "prepend" => Dir(j) # NoDir
      /\ prepended[j] \/ found[j] # NoDir => step[j] = "returned"
      /\ script[i] => step[i] \in {"copy", "script"} \/ (fresh[i] /\ step[i] \in {"dir", "prepend", "look"})
      /\ prepended[i] \/ found[i] # NoDir => step[i] = "returned"
  BY DEF ScriptLives
<1>4. Dir(j)' = Dir(j)
  BY <1>2 DEF Dir, Start, Look, FindInDir, NotInDir, PrependPath, Downloads, CreateTemp, Copied,
              GivesUp, DownloadFails, CopyFails, RunScript, ScriptFails, Leaves
<1>5. ASSUME NEW from, NEW dir \in Places \cup {NoDir}, Returns(i, from, dir), from # "returned",
             UNCHANGED fresh, \A k \in Installs : k # i => prepended'[k] = prepended[k]
      PROVE  /\ script'[j] => \/ step'[j] \in {"copy", "script"}
                              \/ fresh'[j] /\ step'[j] \in {"dir", "prepend", "look"}
             /\ step'[j] = "prepend" => Dir(j)' # NoDir
             /\ prepended'[j] \/ found'[j] # NoDir => step'[j] = "returned"
  <2>1. /\ step'[i] = "returned" /\ ~script'[i]
        /\ \A k \in Installs : k # i => step'[k] = step[k] /\ found'[k] = found[k] /\ script'[k] = script[k]
    BY <1>5, Returned
  <2> QED
    BY <1>3, <1>4, <1>5, <2>1
<1>6. ASSUME NEW from, NEW to \in Standings, Goes(i, from, to), from # "returned", from # to,
             UNCHANGED <<found, prepended>>,
             \A k \in Installs : k # i => script'[k] = script[k] /\ fresh'[k] = fresh[k],
             script'[i] => to \in {"copy", "script"} \/ (fresh'[i] /\ to \in {"dir", "prepend", "look"}),
             to = "prepend" => Dir(i) # NoDir
      PROVE  /\ script'[j] => \/ step'[j] \in {"copy", "script"}
                              \/ fresh'[j] /\ step'[j] \in {"dir", "prepend", "look"}
             /\ step'[j] = "prepend" => Dir(j)' # NoDir
             /\ prepended'[j] \/ found'[j] # NoDir => step'[j] = "returned"
  <2>1. step[i] = from /\ step'[i] = to /\ \A k \in Installs : k # i => step'[k] = step[k]
    BY <1>6, Moved
  <2>2. CASE j = i
    BY <1>3, <1>4, <1>6, <2>1, <2>2
  <2>3. CASE j # i
    BY <1>3, <1>4, <1>6, <2>1, <2>3
  <2> QED
    BY <2>2, <2>3
<1>7. CASE Start(i)
  <2>1. PICK to \in {"look", "download", "returned"} : Goes(i, "idle", to)
    BY <1>7 DEF Start
  <2>2. to \in Standings /\ step[i] = "idle"
    BY <2>1 DEF Standings, Goes
  <2> QED
    BY <1>3, <1>6, <1>7, <2>1, <2>2 DEF Start
<1>8. CASE Look(i)
  <2> DEFINE dir == LookPath(BinOf[i])
  <2>1. dir \in Places \cup {NoDir}
    BY LookPathIs, NameOf
  <2> HIDE DEF dir
  <2>2. CASE Returns(i, "look", dir)
    BY <1>5, <1>8, <2>1, <2>2 DEF Look
  <2>3. CASE Goes(i, "look", "dir") /\ UNCHANGED <<script, found, latest>>
    <3>1. "dir" \in Standings /\ step[i] = "look"
      BY <2>3 DEF Standings, Goes
    <3> QED
      BY <1>3, <1>6, <1>8, <2>3, <3>1 DEF Look
  <2> QED
    BY <1>8, <2>2, <2>3 DEF Look, dir
<1>9. CASE FindInDir(i)
  <2>1. "prepend" \in Standings /\ Goes(i, "dir", "prepend") /\ step[i] = "dir" /\ Dir(i) # NoDir
    BY <1>9 DEF Standings, FindInDir, Goes, InDir
  <2> QED
    BY <1>3, <1>6, <1>9, <2>1 DEF FindInDir
<1>10. CASE NotInDir(i)
  <2>1. PICK to : to = (IF fresh[i] THEN "look" ELSE "download") /\ Goes(i, "dir", to)
    BY <1>10 DEF NotInDir
  <2>2. to \in Standings /\ step[i] = "dir" /\ to # "dir" /\ to # "prepend"
    BY <2>1 DEF Standings, Goes
  <2>3. script[i] => fresh[i] /\ to = "look"
    BY <1>3, <2>1, <2>2
  <2> QED
    BY <1>6, <1>10, <2>1, <2>2, <2>3 DEF NotInDir
<1>11. CASE PrependPath(i)
  <2>1. Dir(i) \in Places \cup {NoDir}
    BY DEF Typed
  <2>2. \A k \in Installs : k # i => prepended'[k] = prepended[k]
    BY <1>11 DEF PrependPath, Typed
  <2> QED
    BY <1>5, <1>11, <2>1, <2>2 DEF PrependPath
<1>12. CASE Downloads(i)
  <2>1. "copy" \in Standings /\ "script" \in Standings
    BY DEF Standings
  <2>2. CASE CreateTemp(i)
    <3>1. \A k \in Installs : k # i => script'[k] = script[k]
      BY <2>2 DEF CreateTemp, Typed
    <3> QED
      BY <1>6, <2>1, <2>2, <3>1 DEF CreateTemp
  <2>3. CASE Copied(i)
    BY <1>6, <2>1, <2>3 DEF Copied
  <2> QED
    BY <1>12, <2>2, <2>3 DEF Downloads
<1>13. CASE GivesUp(i)
  <2>1. PICK from \in {"download", "copy"} : Returns(i, from, NoDir)
    BY <1>13, GivesUpReturns
  <2> QED
    BY <1>5, <1>13, <2>1 DEF GivesUp, DownloadFails, CopyFails
<1>14. CASE RunScript(i)
  <2>1. /\ "dir" \in Standings /\ Goes(i, "script", "dir")
        /\ fresh'[i] /\ \A k \in Installs : k # i => fresh'[k] = fresh[k]
    BY <1>14 DEF Standings, RunScript, Typed
  <2> QED
    BY <1>6, <1>14, <2>1 DEF RunScript
<1>15. CASE ScriptFails(i)
  BY <1>5, <1>15 DEF ScriptFails
<1> QED
  BY <1>2, <1>7, <1>8, <1>9, <1>10, <1>11, <1>12, <1>13, <1>14, <1>15

LEMMA FrontedRange ==
  ASSUME Typed, NEW i \in Installs, Dir(i) # NoDir
  PROVE  Range(MovedToFront(i)) = {Dir(i)} \cup Range(seen[i])
<1> DEFINE W == Without(Dir(i), seen[i])
           M == MovedToFront(i)
<1>1. seen[i] \in Seq(Places)
  BY DEF Typed
<1>2. W \in Seq(Places) /\ KeepsInOrder(W, Dir(i), seen[i], Len(seen[i]))
  BY <1>1, WithoutKeeps
<1>3. /\ M \in Seq(Places) /\ Len(M) = Len(W) + 1 /\ M[1] = Dir(i)
      /\ \A p \in 1..Len(W) : M[p + 1] = W[p]
  BY Fronted
<1> HIDE DEF W, M
<1>4. ASSUME NEW p \in DOMAIN M PROVE M[p] \in {Dir(i)} \cup Range(seen[i])
  <2>1. CASE p = 1
    BY <1>3, <2>1
  <2>2. CASE p # 1
    <3> DEFINE q == p - 1
    <3>1. q \in 1..Len(W) /\ p = q + 1
      BY <1>2, <1>3, <2>2
    <3>2. PICK r \in 1..Len(seen[i]) : seen[i][r] = W[q]
      BY <1>2, <3>1 DEF KeepsInOrder
    <3>3. M[p] = seen[i][r] /\ r \in DOMAIN seen[i]
      BY <1>1, <1>3, <3>1, <3>2
    <3> QED
      BY <3>3 DEF Range
  <2> QED
    BY <2>1, <2>2
<1>5. Dir(i) \in Range(M)
  <2>1. 1 \in DOMAIN M
    BY <1>2, <1>3
  <2> QED
    BY <1>3, <2>1 DEF Range
<1>6. ASSUME NEW r \in DOMAIN seen[i], seen[i][r] # Dir(i) PROVE seen[i][r] \in Range(M)
  <2>1. PICK p \in 1..Len(W) : W[p] = seen[i][r]
    BY <1>1, <1>2, <1>6 DEF KeepsInOrder
  <2>2. p + 1 \in DOMAIN M /\ M[p + 1] = seen[i][r]
    BY <1>2, <1>3, <2>1
  <2> QED
    BY <2>2 DEF Range
<1>7. Range(M) = {Dir(i)} \cup Range(seen[i])
  BY <1>4, <1>5, <1>6 DEF Range
<1> QED
  BY <1>7 DEF M

\* Who is between the halves of prependPath, and what has been put on PATH.
LEMMA PrependSteps ==
  ASSUME Typed, ScriptLives, NEW i \in Installs,
         \/ Start(i) \/ Look(i) \/ FindInDir(i) \/ NotInDir(i) \/ PrependPath(i)
         \/ Downloads(i) \/ GivesUp(i) \/ RunScript(i) \/ ScriptFails(i)
  PROVE  /\ UNCHANGED dirs /\ Places' = Places
         /\ \A j \in Installs : j # i => step'[j] = step[j]
         /\ FindInDir(i) \/ PrependPath(i) \/
              /\ UNCHANGED <<path, seen, prepended>>
              /\ step[i] # "prepend" /\ step'[i] # "prepend"
<1>1. UNCHANGED dirs
  BY DEF Start, Look, FindInDir, NotInDir, PrependPath, Downloads, CreateTemp, Copied, GivesUp,
         DownloadFails, CopyFails, RunScript, ScriptFails, Leaves
<1>2. CASE Start(i)
  <2>1. PICK to \in {"look", "download", "returned"} : Goes(i, "idle", to)
    BY <1>2 DEF Start
  <2>2. to \in Standings /\ to # "prepend"
    BY DEF Standings
  <2> QED
    BY <1>1, <1>2, <2>1, <2>2, Moved, DiskStays DEF Start
<1>3. CASE Look(i)
  <2>1. PICK to \in {"dir", "returned"} : Goes(i, "look", to)
    BY <1>3 DEF Look, Returns, Leaves
  <2>2. to \in Standings /\ to # "prepend"
    BY DEF Standings
  <2> QED
    BY <1>1, <1>3, <2>1, <2>2, Moved, DiskStays DEF Look
<1>4. CASE FindInDir(i)
  <2>1. "prepend" \in Standings /\ Goes(i, "dir", "prepend")
    BY <1>4 DEF Standings, FindInDir
  <2> QED
    BY <1>1, <1>4, <2>1, Moved, DiskStays DEF FindInDir
<1>5. CASE NotInDir(i)
  <2>1. PICK to \in {"look", "download"} : Goes(i, "dir", to)
    BY <1>5 DEF NotInDir
  <2>2. to \in Standings /\ to # "prepend"
    BY DEF Standings
  <2> QED
    BY <1>1, <1>5, <2>1, <2>2, Moved, DiskStays DEF NotInDir
<1>6. CASE PrependPath(i)
  <2>1. "returned" \in Standings /\ Goes(i, "prepend", "returned")
    BY <1>6 DEF Standings, PrependPath, Returns, Leaves
  <2> QED
    BY <1>1, <1>6, <2>1, Moved, DiskStays DEF PrependPath
<1>7. CASE Downloads(i)
  <2>1. PICK from \in {"download", "copy"}, to \in {"copy", "script"} : Goes(i, from, to)
    BY <1>7 DEF Downloads, CreateTemp, Copied
  <2>2. to \in Standings
    BY DEF Standings
  <2> QED
    BY <1>1, <1>7, <2>1, <2>2, Moved, DiskStays DEF Downloads, CreateTemp, Copied
<1>8. CASE GivesUp(i)
  <2>1. PICK from \in {"download", "copy"} : Goes(i, from, "returned")
    BY <1>8 DEF GivesUp, DownloadFails, CopyFails, Leaves
  <2>2. "returned" \in Standings
    BY DEF Standings
  <2> QED
    BY <1>1, <1>8, <2>1, <2>2, Moved, DiskStays DEF GivesUp, DownloadFails, CopyFails
<1>9. CASE RunScript(i)
  <2>1. "dir" \in Standings /\ Goes(i, "script", "dir")
    BY <1>9 DEF Standings, RunScript
  <2>2. Places' = Places
    BY <1>9, DiskStays, DiskChanges DEF RunScript, State
  <2> QED
    BY <1>1, <1>9, <2>1, <2>2, Moved DEF RunScript
<1>10. CASE ScriptFails(i)
  <2>1. "returned" \in Standings /\ Goes(i, "script", "returned")
    BY <1>10 DEF Standings, ScriptFails, Returns, Leaves
  <2>2. Places' = Places
    BY <1>10, DiskStays, DiskChanges DEF ScriptFails, State
  <2> QED
    BY <1>1, <1>10, <2>1, <2>2, Moved DEF ScriptFails
<1> QED
  BY <1>2, <1>3, <1>4, <1>5, <1>6, <1>7, <1>8, <1>9, <1>10

LEMMA PrependIs ==
  ASSUME Typed, ScriptLives, NEW i \in Installs, PrependPath(i)
  PROVE  /\ step[i] = "prepend" /\ step'[i] = "returned"
         /\ \A j \in Installs : j # i => step'[j] = step[j]
         /\ Dir(i) # NoDir /\ path' = MovedToFront(i)
         /\ Range(path') = {Dir(i)} \cup Range(seen[i])
         /\ UNCHANGED <<dirs, bins, seen>> /\ Places' = Places
         /\ prepended'[i] /\ \A j \in Installs : j # i => prepended'[j] = prepended[j]
<1>1. step[i] = "prepend" /\ path' = MovedToFront(i) /\ UNCHANGED <<dirs, bins, seen>>
  BY DEF PrependPath, Returns, Leaves, Goes
<1>2. Dir(i) # NoDir
  BY <1>1 DEF ScriptLives
<1>3. step'[i] = "returned" /\ \A j \in Installs : j # i => step'[j] = step[j]
  BY DEF PrependPath, Returns, Leaves, Goes, Typed
<1>4. prepended'[i] /\ \A j \in Installs : j # i => prepended'[j] = prepended[j]
  BY DEF PrependPath, Typed
<1>5. Range(path') = {Dir(i)} \cup Range(seen[i])
  BY <1>1, <1>2, FrontedRange
<1> QED
  BY <1>1, <1>2, <1>3, <1>4, <1>5, DiskStays

LEMMA ForgottenNext ==
  Typed /\ ScriptLives /\ NoneForgotten /\ [InstallNext]_installVars => NoneForgotten'
<1> SUFFICES ASSUME Typed, ScriptLives, NoneForgotten, [InstallNext]_installVars
             PROVE  NoneForgotten'
  OBVIOUS
<1>1. CASE UNCHANGED installVars
  BY <1>1 DEF installVars, NoneForgotten, Listed, Everywhere, PutThere, Places, Dir
<1>2. SUFFICES ASSUME NEW i \in Installs,
                      \/ Start(i) \/ Look(i) \/ FindInDir(i) \/ NotInDir(i) \/ PrependPath(i)
                      \/ Downloads(i) \/ GivesUp(i) \/ RunScript(i) \/ ScriptFails(i)
               PROVE  NoneForgotten'
  BY <1>1 DEF InstallNext, Downloads, GivesUp
<1>3. /\ \A j \in Installs : Dir(j)' = Dir(j)
      /\ Places' = Places
      /\ \A j \in Installs : j # i => step'[j] = step[j]
  BY <1>2, PrependSteps DEF Dir
<1>4. SUFFICES ASSUME NEW d \in Places,
                      d \in Range(path') \/ \E j \in Installs : step'[j] = "prepend" /\ d \in Range(seen'[j])
               PROVE  \/ d \in Range(path') /\ \A j \in Installs : step'[j] = "prepend" => d \in Range(seen'[j])
                      \/ \E j \in Installs : prepended'[j] /\ d = Dir(j)
  BY <1>3 DEF NoneForgotten, Listed, Everywhere, PutThere
<1>5. Listed(d) => Everywhere(d) \/ PutThere(d)
  BY DEF NoneForgotten
<1>6. CASE UNCHANGED <<path, seen, prepended>> /\ step[i] # "prepend" /\ step'[i] # "prepend"
  <2>1. \A j \in Installs : step'[j] = "prepend" <=> step[j] = "prepend"
    BY <1>3, <1>6
  <2> QED
    BY <1>4, <1>5, <1>6, <2>1 DEF Listed, Everywhere, PutThere
<1>7. CASE FindInDir(i)
  <2>1. /\ UNCHANGED <<path, prepended>> /\ seen'[i] = path
        /\ \A j \in Installs : j # i => seen'[j] = seen[j]
    BY <1>7 DEF FindInDir, Typed
  <2>2. Listed(d)
    BY <1>3, <1>4, <2>1 DEF Listed
  <2> QED
    BY <1>3, <1>5, <2>1, <2>2 DEF Everywhere, PutThere
<1>8. CASE PrependPath(i)
  <2>1. /\ step[i] = "prepend" /\ step'[i] = "returned"
        /\ Range(path') = {Dir(i)} \cup Range(seen[i]) /\ UNCHANGED seen
        /\ prepended'[i] /\ \A j \in Installs : j # i => prepended'[j] = prepended[j]
    BY <1>8, PrependIs
  <2>2. CASE d = Dir(i)
    BY <2>1, <2>2
  <2>3. CASE d # Dir(i)
    <3>1. Listed(d)
      BY <1>3, <1>4, <2>1, <2>3 DEF Listed
    <3>2. CASE PutThere(d)
      BY <2>1, <3>2 DEF PutThere
    <3>3. CASE Everywhere(d)
      <4>1. d \in Range(path')
        BY <2>1, <3>3 DEF Everywhere
      <4>2. ASSUME NEW j \in Installs, step'[j] = "prepend" PROVE d \in Range(seen'[j])
        <5>1. j # i
          BY <2>1, <4>2
        <5> QED
          BY <1>3, <2>1, <3>3, <4>2, <5>1 DEF Everywhere
      <4> QED
        BY <4>1, <4>2
    <3> QED
      BY <1>5, <3>1, <3>2, <3>3
  <2> QED
    BY <2>2, <2>3
<1> QED
  BY <1>2, <1>6, <1>7, <1>8, PrependSteps

LEMMA ForgottenInit == InstallInit => NoneForgotten
BY DEF InstallInit, NoneForgotten, Listed, Everywhere, PutThere

LEMMA ScriptInit == InstallInit => ScriptLives
BY DEF InstallInit, ScriptLives

LEMMA DirsKept ==
  ASSUME Typed, ScriptLives, NoneForgotten, [InstallNext]_installVars,
         NEW d \in Range(path) \ Range(path')
  PROVE  \E i, j \in Installs :
           /\ step[i] = "prepend" /\ step'[i] = "returned" /\ d \notin Range(seen[i])
           /\ i # j /\ prepended[j] /\ d = Dir(j)
<1>1. path' # path
  OBVIOUS
<1>2. PICK i \in Installs : PrependPath(i)
  BY <1>1 DEF InstallNext, installVars, Start, Look, FindInDir, NotInDir, Downloads, CreateTemp, Copied,
              GivesUp, DownloadFails, CopyFails, RunScript, ScriptFails
<1>3. step[i] = "prepend" /\ step'[i] = "returned" /\ d \notin Range(seen[i])
  BY <1>2, PrependIs
<1>4. d \in Places
  BY DEF Typed, Range
<1>5. PICK j \in Installs : prepended[j] /\ d = Dir(j)
  BY <1>3, <1>4 DEF NoneForgotten, Listed, Everywhere, PutThere
<1>6. step[j] = "returned"
  BY <1>5 DEF ScriptLives
<1>7. i # j
  BY <1>3, <1>6
<1> QED
  BY <1>3, <1>5, <1>7

--------------------------------------------------------------------------------
(* Calls that do not overlap.                                              *)

LEMMA AloneInit == Typed /\ InstallInit => AloneInv
BY DEF InstallInit, AloneInv, OneRuns, PathAsRead, InFrontOnlyLater, Running

\* A call that starts alone is the only one; every other step is its own.
LEMMA StillOne ==
  ASSUME Typed, ScriptLives, ~overlap', ~overlap => OneRuns, NEW i \in Installs,
         \/ Start(i) \/ Look(i) \/ FindInDir(i) \/ NotInDir(i) \/ PrependPath(i)
         \/ Downloads(i) \/ GivesUp(i) \/ RunScript(i) \/ ScriptFails(i)
  PROVE  /\ ~overlap /\ OneRuns /\ OneRuns'
         /\ \A j \in Installs : j # i => ~Running(j) /\ ~Running(j)' /\ step'[j] = step[j]
<1>1. ~overlap
  BY DEF Start, Look, FindInDir, NotInDir, PrependPath, Downloads, CreateTemp, Copied, GivesUp,
         DownloadFails, CopyFails, RunScript, ScriptFails, Leaves
<1>2. \A j \in Installs : j # i => ~Running(j)
  <2>1. CASE Start(i)
    BY <2>1 DEF Start
  <2>2. CASE ~Start(i)
    <3>1. step[i] \notin {"idle", "returned"}
      BY <2>2 DEF Look, FindInDir, NotInDir, PrependPath, Downloads, CreateTemp, Copied, GivesUp,
                  DownloadFails, CopyFails, RunScript, ScriptFails, Goes, Returns, Leaves
    <3> QED
      BY <1>1, <3>1 DEF OneRuns, Running
  <2> QED
    BY <2>1, <2>2
<1>3. \A j \in Installs : j # i => step'[j] = step[j]
  BY PrependSteps
<1> QED
  BY <1>1, <1>2, <1>3 DEF OneRuns, Running

LEMMA AsReadNext ==
  ASSUME Typed, ScriptLives, PathAsRead, NEW i \in Installs,
         \A j \in Installs : j # i => ~Running(j) /\ step'[j] = step[j],
         \/ Start(i) \/ Look(i) \/ FindInDir(i) \/ NotInDir(i) \/ PrependPath(i)
         \/ Downloads(i) \/ GivesUp(i) \/ RunScript(i) \/ ScriptFails(i)
  PROVE  PathAsRead'
<1>1. SUFFICES ASSUME NEW j \in Installs, step'[j] = "prepend" PROVE seen'[j] = path'
  BY DEF PathAsRead
<1>2. j = i
  BY <1>1 DEF Running
<1>3. CASE FindInDir(i)
  BY <1>2, <1>3 DEF FindInDir, Typed
<1>4. CASE PrependPath(i)
  BY <1>1, <1>2, <1>4, PrependIs
<1> QED
  BY <1>1, <1>2, <1>3, <1>4, PrependSteps

\* What is on PATH behind a directory put in front of it was there, behind no more.
LEMMA BehindTheFront ==
  ASSUME Typed, NEW i \in Installs, Dir(i) # NoDir, seen[i] = path, path' = MovedToFront(i),
         NEW n \in DOMAIN path', NEW d, d # Dir(i), \A m \in 1..n : path'[m] # d, n # 1
  PROVE  \E m \in DOMAIN path : path[m] = path'[n] /\ Ahead(m, d)
<1> DEFINE W == Without(Dir(i), path)
<1>1. W \in Seq(Places) /\ KeepsInOrder(W, Dir(i), path, Len(path)) /\ path \in Seq(Places)
  BY WithoutKeeps DEF Typed
<1>2. path' \in Seq(Places) /\ Len(path') = Len(W) + 1 /\ \A p \in 1..Len(W) : path'[p + 1] = W[p]
  BY Fronted
<1> HIDE DEF W
<1> DEFINE p == n - 1
<1>3. p \in 1..Len(W) /\ n = p + 1
  BY <1>1, <1>2
<1>4. path'[n] = W[p] /\ \A r \in 1..p : W[r] = path'[r + 1] /\ r + 1 \in 1..n
  BY <1>1, <1>2, <1>3
<1>5. \A r \in 1..p : W[r] # d
  BY <1>4 DEF Ahead
<1>6. PICK q \in 1..Len(path) : path[q] = W[p] /\ \A r \in 1..q : path[r] # d
  <2> HIDE DEF p
  <2> QED
    BY <1>1, <1>3, <1>5 DEF KeepsInOrder
<1>7. q \in DOMAIN path
  BY <1>1
<1> QED
  BY <1>4, <1>6, <1>7 DEF Ahead

\* What Install's script makes executable is where the call will look first.
LEMMA ScriptMakes ==
  ASSUME Typed, NEW i \in Installs, RunScript(i) \/ ScriptFails(i),
         NEW n \in DOMAIN path, NEW k \in Installs, Hit(n, BinOf[k])'
  PROVE  \/ Hit(n, BinOf[k])
         \/ RunScript(i) /\ path[n] = Dir(i) /\ BinOf[k] = BinOf[i]
<1>1. UNCHANGED path /\ path[n] \in Places /\ BinOf[k] \in Names
  BY NameOf DEF RunScript, ScriptFails, Typed
<1>2. CASE UNCHANGED bins
  BY <1>1, <1>2 DEF Hit
<1>3. CASE RunScript(i) /\ Dir(i) # NoDir /\ bins' = [bins EXCEPT ![Dir(i)][BinOf[i]] = "executable"]
  <2>1. \A d \in Places, b \in Names : d # Dir(i) \/ b # BinOf[i] => bins'[d][b] = bins[d][b]
    BY <1>3, DiskChanges DEF State
  <2> QED
    BY <1>1, <1>3, <2>1 DEF Hit
<1>4. CASE Dir(i) # NoDir /\ bins' = [bins EXCEPT ![Dir(i)][BinOf[i]] = "plain"]
  <2>1. /\ \A d \in Places, b \in Names : d # Dir(i) \/ b # BinOf[i] => bins'[d][b] = bins[d][b]
        /\ bins'[Dir(i)][BinOf[i]] = "plain"
    BY <1>4, DiskChanges DEF State
  <2> QED
    BY <1>1, <2>1 DEF Hit
<1> QED
  BY <1>2, <1>3, <1>4 DEF RunScript, ScriptFails

\* The copy in front of what a call returned, after a step of another call.
LEMMA FrontAtReturn ==
  ASSUME Typed, ScriptLives, PathAsRead, InFrontOnlyLater, NEW i \in Installs,
         \A j \in Installs : j # i => ~Running(j),
         \/ Look(i) /\ Returns(i, "look", LookPath(BinOf[i]))
         \/ PrependPath(i) \/ GivesUp(i) \/ ScriptFails(i)
  PROVE  InFrontOnlyLater'
<1>0. \A j \in Installs : Dir(j)' = Dir(j)
  BY PrependSteps DEF Dir
<1>1. latest' = {i}
  BY DEF PrependPath, GivesUp, DownloadFails, CopyFails, ScriptFails, Returns, Leaves
<1>2. ASSUME NEW k \in Installs, k # i, NEW n \in DOMAIN path, Overtaken(k, n)
      PROVE  \E j \in Installs \ {k} : path[n] = Dir(j) /\ (prepended[j] \/ (j = i /\ step[i] \in {"dir", "prepend"}))
  <2>1. \A j \in Installs : step[j] \in {"dir", "prepend"} => j = i
    BY DEF Running
  <2> QED
    BY <1>2, <2>1 DEF Overtaken
<1>3. SUFFICES ASSUME NEW k \in Installs, found'[k] # NoDir
               PROVE  /\ found'[k] \in Range(path')
                      /\ \A n \in DOMAIN path' :
                           (\A m \in 1..n : path'[m] # found'[k]) /\ Hit(n, BinOf[k])' =>
                             Overtaken(k, n)' /\ k # i
  BY <1>1 DEF InFrontOnlyLater, Ahead
<1>4. k # i => /\ found[k] # NoDir /\ found'[k] = found[k] /\ found[k] \in Range(path)
               /\ \A n \in DOMAIN path : Ahead(n, found[k]) /\ Hit(n, BinOf[k]) => Overtaken(k, n)
  <2>1. k # i => found'[k] = found[k]
    BY DEF PrependPath, GivesUp, DownloadFails, CopyFails, ScriptFails, Returns, Leaves, Typed
  <2> QED
    BY <1>3, <2>1 DEF InFrontOnlyLater
<1>5. CASE Look(i) /\ Returns(i, "look", LookPath(BinOf[i]))
  <2>1. UNCHANGED <<dirs, path, bins, prepended>> /\ found'[i] = LookPath(BinOf[i]) /\ step[i] = "look"
    BY <1>5 DEF Look, Returns, Leaves, Goes, Typed
  <2>2. CASE k = i
    <3>1. PICK o \in DOMAIN path :
            path[o] = found'[i] /\ \A n \in DOMAIN path : Hit(n, BinOf[i]) => o <= n
      BY <1>3, <2>1, <2>2, LookPathIs, NameOf
    <3>2. ASSUME NEW n \in DOMAIN path', (\A m \in 1..n : path'[m] # found'[k]), Hit(n, BinOf[k])' PROVE FALSE
      <4>1. n \in DOMAIN path /\ Hit(n, BinOf[i]) /\ Ahead(n, found'[i])
        BY <2>1, <2>2, <3>2 DEF Hit, Ahead
      <4>2. o \in 1..n
        BY <3>1, <4>1 DEF Typed
      <4> QED
        BY <3>1, <4>1, <4>2 DEF Ahead
    <3>3. found'[k] \in Range(path')
      BY <2>1, <2>2, <3>1 DEF Range
    <3> QED
      BY <3>2, <3>3
  <2>3. CASE k # i
    <3>1. ASSUME NEW n \in DOMAIN path', (\A m \in 1..n : path'[m] # found'[k]), Hit(n, BinOf[k])' PROVE Overtaken(k, n)'
      <4>1. n \in DOMAIN path /\ Hit(n, BinOf[k]) /\ Ahead(n, found[k])
        BY <1>4, <2>1, <2>3, <3>1 DEF Hit, Ahead
      <4> QED
        BY <1>0, <1>2, <1>4, <2>1, <2>3, <4>1 DEF Overtaken
    <3> QED
      BY <1>4, <2>1, <2>3, <3>1
  <2> QED
    BY <2>2, <2>3
<1>6. CASE GivesUp(i) \/ ScriptFails(i)
  <2>1. /\ UNCHANGED <<path, prepended>> /\ found'[i] = NoDir
        /\ step[i] \in {"download", "copy", "script"}
    BY <1>6 DEF GivesUp, DownloadFails, CopyFails, ScriptFails, Returns, Leaves, Goes, Typed
  <2>2. k # i
    BY <1>3, <2>1
  <2>3. ASSUME NEW n \in DOMAIN path', (\A m \in 1..n : path'[m] # found'[k]), Hit(n, BinOf[k])' PROVE Overtaken(k, n)'
    <3>1. n \in DOMAIN path /\ Ahead(n, found[k])
      BY <1>4, <2>1, <2>2, <2>3 DEF Ahead
    <3>2. Hit(n, BinOf[k])
      <4>1. CASE GivesUp(i)
        BY <2>3, <4>1 DEF GivesUp, DownloadFails, CopyFails, Hit
      <4>2. CASE ScriptFails(i)
        <5>1. ~RunScript(i)
          BY <4>2, Moved DEF ScriptFails, RunScript, Returns, Leaves, Goes, Typed
        <5> QED
          BY <2>3, <3>1, <4>2, <5>1, ScriptMakes
      <4> QED
        BY <1>6, <4>1, <4>2
    <3> QED
      BY <1>0, <1>2, <1>4, <2>1, <2>2, <3>1, <3>2 DEF Overtaken
  <2> QED
    BY <1>4, <2>1, <2>2, <2>3
<1>7. CASE PrependPath(i)
  <2>1. /\ step[i] = "prepend" /\ Dir(i) # NoDir /\ path' = MovedToFront(i) /\ UNCHANGED bins
        /\ Range(path') = {Dir(i)} \cup Range(seen[i])
        /\ prepended'[i] /\ \A j \in Installs : j # i => prepended'[j] = prepended[j]
    BY <1>7, PrependIs
  <2>2. seen[i] = path
    BY <2>1 DEF PathAsRead
  <2>3. path'[1] = Dir(i) /\ \A n \in DOMAIN path' : 1 \in 1..n
    BY <2>1, Fronted
  <2>4. CASE k = i
    <3>1. found'[k] = Dir(i)
      BY <1>7, <2>4 DEF PrependPath, Returns, Leaves, Typed
    <3> QED
      BY <2>1, <2>3, <3>1 DEF Ahead
  <2>5. CASE k # i
    <3>1. found'[k] \in Range(path')
      BY <1>4, <2>1, <2>2, <2>5
    <3>2. ASSUME NEW n \in DOMAIN path', (\A m \in 1..n : path'[m] # found'[k]), Hit(n, BinOf[k])' PROVE Overtaken(k, n)'
      <4>1. found[k] # Dir(i) /\ \A m \in 1..n : path'[m] # found[k]
        BY <1>4, <2>3, <2>5, <3>2 DEF Ahead
      <4>2. CASE n = 1
        BY <1>0, <2>1, <2>3, <2>5, <4>2 DEF Overtaken
      <4>3. CASE n # 1
        <5> DEFINE d == found[k]
        <5>1. d # Dir(i) /\ \A m \in 1..n : path'[m] # d
          BY <4>1, <1>4, <2>5, <3>2 DEF Ahead
        <5> HIDE DEF d
        <5>2. PICK m \in DOMAIN path : path[m] = path'[n] /\ Ahead(m, d)
          BY <2>1, <2>2, <4>3, <5>1, BehindTheFront
        <5>3. Ahead(m, found[k]) /\ Hit(m, BinOf[k])
          BY <2>1, <3>2, <5>2 DEF d, Hit
        <5>4. PICK j \in Installs \ {k} : path[m] = Dir(j) /\ (prepended[j] \/ j = i)
          BY <1>2, <1>4, <2>5, <5>3
        <5>5. prepended'[j]
          BY <2>1, <5>4
        <5> QED
          BY <1>0, <5>2, <5>4, <5>5 DEF Overtaken
      <4> QED
        BY <4>2, <4>3
    <3> QED
      BY <2>5, <3>1, <3>2
  <2> QED
    BY <2>4, <2>5
<1> QED
  BY <1>5, <1>6, <1>7

\* And while the call goes on.
LEMMA FrontOnTheWay ==
  ASSUME Typed, ScriptLives, InFrontOnlyLater, NEW i \in Installs,
         \A j \in Installs : j # i => ~Running(j),
         \/ Start(i)
         \/ Look(i) /\ Goes(i, "look", "dir") /\ UNCHANGED <<script, found, latest>>
         \/ FindInDir(i) \/ NotInDir(i) \/ Downloads(i) \/ RunScript(i)
  PROVE  InFrontOnlyLater'
<1>0. /\ \A j \in Installs : Dir(j)' = Dir(j)
      /\ \A j \in Installs : j # i => step'[j] = step[j]
  BY PrependSteps DEF Dir
<1>1. UNCHANGED <<path, found, latest, prepended>>
  BY DEF Start, Look, FindInDir, NotInDir, Downloads, CreateTemp, Copied, RunScript
<1>2. SUFFICES ASSUME NEW k \in Installs, found[k] # NoDir, NEW n \in DOMAIN path,
                      Ahead(n, found[k]), Hit(n, BinOf[k])'
               PROVE  Overtaken(k, n)' /\ (k \notin latest \/ \E j \in Installs : Running(j)')
  BY <1>1 DEF InFrontOnlyLater, Ahead
<1>3. k # i
  <2>1. step[i] # "returned"
    BY DEF Start, Look, FindInDir, NotInDir, Downloads, CreateTemp, Copied, RunScript, Goes
  <2> QED
    BY <1>2, <2>1 DEF ScriptLives
<1>4. Hit(n, BinOf[k]) => Overtaken(k, n) /\ (k \notin latest \/ Running(i))
  BY <1>2 DEF InFrontOnlyLater
<1>5. Overtaken(k, n) =>
        \E j \in Installs \ {k} :
          /\ path[n] = Dir(j)
          /\ prepended[j] \/ (j = i /\ step[i] \in {"dir", "prepend"} /\ BinOf[i] = BinOf[k])
  BY DEF Overtaken, Running
<1>6. (\E j \in Installs \ {k} : path[n] = Dir(j) /\ prepended[j]) => Overtaken(k, n)'
  BY <1>0, <1>1 DEF Overtaken
<1>7. CASE Start(i)
  <2>1. step[i] = "idle" /\ UNCHANGED bins
    BY <1>7 DEF Start, Goes
  <2>2. Hit(n, BinOf[k])
    BY <1>1, <1>2, <2>1 DEF Hit
  <2> QED
    BY <1>4, <1>5, <1>6, <2>1, <2>2 DEF Running
<1>8. CASE (Look(i) /\ Goes(i, "look", "dir")) \/ Downloads(i)
  <2>1. step[i] \notin {"idle", "returned", "dir", "prepend"} /\ step'[i] \notin {"idle", "returned"} /\ UNCHANGED bins
    BY <1>8, Moved DEF Look, Downloads, CreateTemp, Copied, Goes, Typed
  <2>2. Hit(n, BinOf[k])
    BY <1>1, <1>2, <2>1 DEF Hit
  <2> QED
    BY <1>4, <1>5, <1>6, <2>1, <2>2 DEF Running
<1>9. CASE FindInDir(i)
  <2>1. step'[i] = "prepend" /\ UNCHANGED bins
    BY <1>9 DEF FindInDir, Goes, Typed
  <2>2. Hit(n, BinOf[k])
    BY <1>1, <1>2, <2>1 DEF Hit
  <2>3. PICK j \in Installs \ {k} :
          path[n] = Dir(j) /\ (prepended[j] \/ (j = i /\ BinOf[i] = BinOf[k]))
    BY <1>4, <1>5, <2>2
  <2>4. Overtaken(k, n)'
    BY <1>0, <1>1, <2>1, <2>3 DEF Overtaken
  <2> QED
    BY <2>1, <2>4 DEF Running
<1>10. CASE NotInDir(i)
  <2>1. step'[i] \in {"look", "download"} /\ UNCHANGED bins /\ ~InDir(i)
    BY <1>10 DEF NotInDir, Goes, Typed
  <2>2. Hit(n, BinOf[k]) /\ path[n] \in Places
    BY <1>1, <1>2, <2>1 DEF Hit, Typed
  <2>3. ~(path[n] = Dir(i) /\ BinOf[i] = BinOf[k])
    BY <2>1, <2>2 DEF Hit, InDir, Typed
  <2>4. Overtaken(k, n)'
    BY <1>4, <1>5, <1>6, <2>2, <2>3
  <2> QED
    BY <2>1, <2>4 DEF Running
<1>11. CASE RunScript(i)
  <2>1. step[i] = "script" /\ step'[i] = "dir"
    BY <1>11 DEF RunScript, Goes, Typed
  <2>2. CASE Hit(n, BinOf[k])
    BY <1>4, <1>5, <1>6, <2>1, <2>2 DEF Running
  <2>3. CASE path[n] = Dir(i) /\ BinOf[k] = BinOf[i]
    <3>1. Overtaken(k, n)'
      BY <1>0, <1>1, <1>3, <2>1, <2>3 DEF Overtaken
    <3> QED
      BY <2>1, <3>1 DEF Running
  <2> QED
    BY <1>2, <1>11, <2>2, <2>3, ScriptMakes
<1> QED
  BY <1>7, <1>8, <1>9, <1>10, <1>11

LEMMA AloneNext ==
  Typed /\ ScriptLives /\ AloneInv /\ [InstallNext]_installVars => AloneInv'
<1> SUFFICES ASSUME Typed, ScriptLives, AloneInv, [InstallNext]_installVars, ~overlap'
             PROVE  OneRuns' /\ PathAsRead' /\ InFrontOnlyLater'
  BY DEF AloneInv
<1>1. CASE UNCHANGED installVars
  BY <1>1 DEF installVars, AloneInv, OneRuns, PathAsRead, InFrontOnlyLater, Running, Ahead, Hit,
              Overtaken, Dir
<1>2. SUFFICES ASSUME NEW i \in Installs,
                      \/ Start(i) \/ Look(i) \/ FindInDir(i) \/ NotInDir(i) \/ PrependPath(i)
                      \/ Downloads(i) \/ GivesUp(i) \/ RunScript(i) \/ ScriptFails(i)
               PROVE  OneRuns' /\ PathAsRead' /\ InFrontOnlyLater'
  BY <1>1 DEF InstallNext, Downloads, GivesUp
<1>3. /\ ~overlap /\ OneRuns'
      /\ \A j \in Installs : j # i => ~Running(j) /\ step'[j] = step[j]
  BY <1>2, StillOne DEF AloneInv
<1>4. PathAsRead /\ InFrontOnlyLater
  BY <1>3 DEF AloneInv
<1>5. PathAsRead'
  BY <1>2, <1>3, <1>4, AsReadNext
<1> DEFINE Ends == \/ Look(i) /\ Returns(i, "look", LookPath(BinOf[i]))
                   \/ PrependPath(i) \/ GivesUp(i) \/ ScriptFails(i)
           GoesOn == \/ Start(i)
                     \/ Look(i) /\ Goes(i, "look", "dir") /\ UNCHANGED <<script, found, latest>>
                     \/ FindInDir(i) \/ NotInDir(i) \/ Downloads(i) \/ RunScript(i)
<1>6. Ends \/ GoesOn
  <2>1. CASE Look(i)
    BY <2>1 DEF Look
  <2>2. CASE ~Look(i)
    BY <1>2, <2>2
  <2> QED
    BY <2>1, <2>2
<1>7. \A j \in Installs : j # i => ~Running(j)
  BY <1>3
<1>8. Ends => InFrontOnlyLater'
  BY <1>4, <1>7, FrontAtReturn
<1>9. GoesOn => InFrontOnlyLater'
  BY <1>4, <1>7, FrontOnTheWay
<1> HIDE DEF Ends, GoesOn
<1> QED
  BY <1>3, <1>5, <1>6, <1>8, <1>9

\* The invariants imply the properties the runs check.
LEMMA TypedGives == Typed /\ ScriptLives => InstallTypeOK
BY DEF Typed, ScriptLives, InstallTypeOK, Standings, Places, Running

LEMMA FrontGives == Typed /\ AloneInv => FoundResolves
<1> SUFFICES ASSUME Typed, AloneInv, ~overlap, NEW i \in Installs, found[i] # NoDir,
                    bins[found[i]][BinOf[i]] = "executable"
             PROVE  LET now == LookPath(BinOf[i]) IN
                      /\ now # NoDir
                      /\ i \in latest /\ (\A j \in Installs : ~Running(j)) => now = found[i]
                      /\ now # found[i] =>
                           \E j \in Installs \ {i} :
                             now = Dir(j) /\ (prepended[j] \/ step[j] \in {"dir", "prepend"})
  BY DEF FoundResolves
<1> DEFINE now == LookPath(BinOf[i])
<1>1. /\ found[i] \in Range(path)
      /\ \A n \in DOMAIN path :
           Ahead(n, found[i]) /\ Hit(n, BinOf[i]) =>
             Overtaken(i, n) /\ (i \notin latest \/ \E j \in Installs : Running(j))
  BY DEF AloneInv, InFrontOnlyLater
<1>2. PICK m \in DOMAIN path : path[m] = found[i]
  BY <1>1 DEF Range
<1>3. Hit(m, BinOf[i])
  BY <1>2 DEF Hit
<1>4. now # NoDir
  BY <1>3, LookPathIs, NameOf
<1>5. PICK n \in DOMAIN path :
        path[n] = now /\ Hit(n, BinOf[i]) /\ \A k \in DOMAIN path : Hit(k, BinOf[i]) => n <= k
  BY <1>4, LookPathIs, NameOf
<1> HIDE DEF now
<1>6. ASSUME now # found[i] PROVE Ahead(n, found[i])
  <2>1. SUFFICES ASSUME NEW k \in 1..n, path[k] = found[i] PROVE FALSE
    BY DEF Ahead
  <2>2. k \in DOMAIN path /\ Hit(k, BinOf[i])
    BY <2>1 DEF Hit, Typed
  <2>3. k = n
    BY <1>5, <2>2 DEF Typed
  <2> QED
    BY <1>5, <1>6, <2>1, <2>3
<1>7. now # found[i] => Overtaken(i, n) /\ (i \notin latest \/ \E j \in Installs : Running(j))
  BY <1>1, <1>5, <1>6
<1>8. now # found[i] =>
        \E j \in Installs \ {i} : now = Dir(j) /\ (prepended[j] \/ step[j] \in {"dir", "prepend"})
  BY <1>5, <1>7 DEF Overtaken
<1> QED
  BY <1>4, <1>7, <1>8 DEF now

--------------------------------------------------------------------------------
(* The theorems.                                                           *)

\* However many calls run at once: the types; and the temp file of a script, half
\* downloaded or whole, is there only while the call that made it is at work on it.
THEOREM InstallTypes == InstallSpec => []InstallTypeOK
<1>1. InstallInit => Typed /\ ScriptLives
  BY TypedInit, ScriptInit
<1>2. Typed /\ ScriptLives /\ [InstallNext]_installVars => (Typed /\ ScriptLives)'
  BY TypedNext, ScriptNext
<1> QED
  BY <1>1, <1>2, TypedGives, PTL DEF InstallSpec

\* However many calls run at once: prependPath takes a directory off PATH only if
\* another call has put it there after it had read PATH.
THEOREM PathLosesOnlyInARace == InstallSpec => PathKeepsDirs
<1>1. InstallInit => Typed /\ ScriptLives /\ NoneForgotten
  BY TypedInit, ScriptInit, ForgottenInit
<1>2. Typed /\ ScriptLives /\ NoneForgotten /\ [InstallNext]_installVars
        => (Typed /\ ScriptLives /\ NoneForgotten)'
  BY TypedNext, ScriptNext, ForgottenNext
<1>3. Typed /\ ScriptLives /\ NoneForgotten /\ [InstallNext]_installVars
        => [ \A d \in Range(path) \ Range(path') :
               \E i, j \in Installs :
                 /\ step[i] = "prepend" /\ step'[i] = "returned" /\ d \notin Range(seen[i])
                 /\ i # j /\ prepended[j] /\ d = Dir(j) ]_installVars
  BY DirsKept
<1> QED
  BY <1>1, <1>2, <1>3, PTL DEF InstallSpec, PathKeepsDirs

\* As long as no call begins while another runs: an executable that a call has
\* returned is what its bare name resolves to, but for copies that later calls put in
\* front; with no later call, it is that one.
THEOREM FoundIsWhatRuns == InstallSpec => []FoundResolves
<1>1. InstallInit => Typed /\ ScriptLives /\ AloneInv
  BY TypedInit, ScriptInit, AloneInit
<1>2. Typed /\ ScriptLives /\ AloneInv /\ [InstallNext]_installVars
        => (Typed /\ ScriptLives /\ AloneInv)'
  BY TypedNext, ScriptNext, AloneNext
<1> QED
  BY <1>1, <1>2, FrontGives, PTL DEF InstallSpec
================================================================================
