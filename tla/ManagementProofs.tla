--------------------------- MODULE ManagementProofs ---------------------------
(***************************************************************************)
(* The requests of Management and the saves of ConfigFile, for any         *)
(* configuration to begin with, any connections to create, and any number  *)
(* of requests, restarts, overlapping saves and failures.                  *)
(***************************************************************************)
EXTENDS Management, SequenceTheorems, WellFoundedInduction, TLAPS

-----------------------------------------------------------------------------
(* The runtime files. *)

(* How far a save is tells what its temporary file has. *)
SaveInv(w) ==
  /\ saves[w] = "written" => temps[w] = File(w, FALSE)
  /\ saves[w] = "synced" => temps[w] = File(w, TRUE)
  /\ saves[w] = "saved" => file.body # Initial

FilesInv ==
  /\ saves \in [Writers -> {"none", "open", "written", "synced", "saved",
                            "failed"}]
  /\ temps \in [Writers -> Files] /\ file \in Files
  /\ file.body # Cut /\ file.synced
  /\ file.body \in Writers => saves[file.body] = "saved"
  /\ \A w \in Writers : SaveInv(w)

(* A save moves on, and only its temporary file changes. *)
LEMMA OneSaveKeeps ==
  ASSUME FilesInv, NEW w \in Writers, NEW to \in {"open", "written", "synced",
                                                  "failed"},
         NEW f \in Files, saves[w] # "saved",
         saves' = [saves EXCEPT ![w] = to], temps' = [temps EXCEPT ![w] = f],
         file' = file,
         to = "written" => f = File(w, FALSE), to = "synced" => f = File(w, TRUE)
  PROVE  FilesInv'
<1>1. /\ saves' \in [Writers -> {"none", "open", "written", "synced", "saved",
                                 "failed"}]
      /\ temps' \in [Writers -> Files]
      /\ saves'[w] = to /\ temps'[w] = f
      /\ \A x \in Writers : x # w => saves'[x] = saves[x] /\ temps'[x] = temps[x]
  BY DEF FilesInv
<1>2. \A x \in Writers : SaveInv(x)'
  BY <1>1 DEF FilesInv, SaveInv
<1> QED BY <1>1, <1>2 DEF FilesInv

(* saveConfigFile, step by step *)
LEMMA SaveKeeps ==
  ASSUME FilesInv, NEW w \in Writers, SaveStep(w)
  PROVE  FilesInv'
<1>1. /\ Absent \in Files
      /\ \A b \in Writers \cup {Initial, Cut} : \A s \in BOOLEAN :
           File(b, s) \in Files
  BY DEF Absent, Files, File
<1>2. CASE OpenTemp(w)
  BY <1>1, <1>2, OneSaveKeeps DEF OpenTemp, At, TempBecomes, TempPath
<1>3. CASE WriteTemp(w)
  BY <1>1, <1>3, OneSaveKeeps DEF WriteTemp, At, TempBecomes, TempPath
<1>4. CASE SyncTemp(w)
  <2>1. saves[w] = "written" /\ temps[w] = File(w, FALSE)
    BY <1>4 DEF SyncTemp, At, FilesInv, SaveInv
  <2>2. [temps[w] EXCEPT !.synced = TRUE] = File(w, TRUE)
    <3>1. PICK f : f = temps[w]
      OBVIOUS
    <3>2. PICK g : g = [f EXCEPT !.synced = TRUE]
      OBVIOUS
    <3>3. PICK h : h = File(w, TRUE)
      OBVIOUS
    <3>4. f \in Files /\ f.body = w /\ f.there = TRUE
      <4>1. f = File(w, FALSE)
        BY <2>1, <3>1
      <4>2. f \in Files
        BY <1>1, <4>1
      <4> QED BY <4>1, <4>2 DEF File
    <3>5. g \in Files /\ g.body = w /\ g.synced = TRUE /\ g.there = TRUE
      BY <3>2, <3>4 DEF Files
    <3>6. h \in Files /\ h.body = w /\ h.synced = TRUE /\ h.there = TRUE
      BY <1>1, <3>3 DEF File
    <3>7. g = h
      BY <3>5, <3>6 DEF Files
    <3> QED BY <3>1, <3>2, <3>3, <3>7
  <2> QED BY <1>1, <1>4, <2>1, <2>2, OneSaveKeeps
          DEF SyncTemp, At, TempBecomes, TempPath
<1>5. CASE RenameTemp(w)
  <2>1. saves[w] = "synced" /\ temps[w] = File(w, TRUE)
    BY <1>5 DEF RenameTemp, FilesInv, SaveInv
  <2>2. /\ file' = File(w, TRUE)
        /\ temps' = [temps EXCEPT ![w] = Absent]
        /\ saves' = [saves EXCEPT ![w] = "saved"]
    BY <1>5, <2>1 DEF RenameTemp, File, TempBecomes, TempPath, At
  <2>3. /\ saves' \in [Writers -> {"none", "open", "written", "synced", "saved",
                                   "failed"}]
        /\ temps' \in [Writers -> Files] /\ file' \in Files
        /\ saves'[w] = "saved"
        /\ \A x \in Writers : x # w => saves'[x] = saves[x]
                                       /\ temps'[x] = temps[x]
    BY <1>1, <2>2 DEF FilesInv
  <2>4. file'.body = w /\ file'.synced = TRUE
    BY <2>2 DEF File
  <2>5. \A x \in Writers : SaveInv(x)'
    BY <2>3, <2>4, ConfigFileAssumption DEF FilesInv, SaveInv
  <2> QED BY <2>3, <2>4, <2>5, ConfigFileAssumption DEF FilesInv
<1>6. CASE SaveFails(w)
  BY <1>1, <1>6, OneSaveKeeps DEF SaveFails, TempBecomes, TempPath
<1> QED BY <1>2, <1>3, <1>4, <1>5, <1>6 DEF SaveStep

(* The machine goes down: the file is on the disk. *)
LEMMA CrashKeepsFiles ==
  ASSUME FilesInv, FilesAfterCrash
  PROVE  FilesInv'
<1>1. /\ saves' = [w \in Writers |-> IF saves[w] \in {"none", "saved", "failed"}
                                     THEN saves[w] ELSE "failed"]
      /\ temps' = [w \in Writers |-> AfterPowerLoss(temps[w])]
      /\ file' = AfterPowerLoss(file)
  BY DEF FilesAfterCrash
<1>2. \A f \in Files : AfterPowerLoss(f) \in Files
  BY DEF AfterPowerLoss, Files, File
<1>3. file' = file
  BY <1>1 DEF AfterPowerLoss, FilesInv
<1>4. /\ saves' \in [Writers -> {"none", "open", "written", "synced", "saved",
                                 "failed"}]
      /\ \A w \in Writers : /\ saves'[w] \notin {"written", "synced"}
                            /\ saves'[w] = "saved" <=> saves[w] = "saved"
  BY <1>1 DEF FilesInv
<1>5. temps' \in [Writers -> Files]
  BY <1>1, <1>2 DEF FilesInv
<1>6. \A w \in Writers : SaveInv(w)'
  BY <1>3, <1>4 DEF FilesInv, SaveInv
<1> QED BY <1>3, <1>4, <1>5, <1>6 DEF FilesInv

(* What leaves the files alone leaves their invariant alone. *)
LEMMA SameFilesKeep ==
  ASSUME FilesInv, UNCHANGED <<saves, temps, file>>
  PROVE  FilesInv'
BY DEF FilesInv, SaveInv

-----------------------------------------------------------------------------
(* What requests make of a configuration. *)

(* A configuration that can be started. *)
LegalConfigs ==
  {c \in Configurations : c.conns # << >> /\ UniqueServerPorts(c.conns)}

(* Descending on naturals is well founded. *)
Descending == {p \in Nat \X Nat : p[1] < p[2]}

LEMMA DescendingIsWellFounded == IsWellFoundedOn(Descending, Nat)
<1>1. Descending = OpToRel(<, Nat)
  BY Zenon DEF OpToRel, Descending
<1>2. IsWellFoundedOn(OpToRel(<, Nat), Nat)
  BY NatLessThanWellFounded
<1> QED BY Zenon, <1>1, <1>2

(* The least of some naturals is one of them. *)
LEMMA MinIsOne ==
  ASSUME NEW T, T \subseteq Nat, T # {}
  PROVE  Min(T) \in T
<1>1. PICK x \in T : \A y \in T : ~ (<<y, x>> \in Descending)
  BY DescendingIsWellFounded, WFMin
<1>2. ASSUME NEW y \in T PROVE x <= y
  <2>1. x \in Nat /\ y \in Nat
    OBVIOUS
  <2>2. <<y, x>> \in Nat \X Nat
    BY <2>1
  <2>3. ~ (y < x)
    BY Zenon, <1>1, <2>2 DEF Descending
  <2> QED BY <2>1, <2>3
<1> QED BY <1>2 DEF Min

(* findConnectionIndexByInstanceId finds a place in the list. *)
LEMMA FoundIsAPlace ==
  ASSUME NEW s \in Seq(Connections), NEW id, FindConnectionIndex(s, id) # 0
  PROVE  FindConnectionIndex(s, id) \in 1 .. Len(s)
<1> DEFINE found == {i \in DOMAIN s : DeriveConnectionIds(s)[i] = id}
<1>1. found \subseteq 1 .. Len(s) /\ found \subseteq Nat
  BY LenProperties
<1>2. FindConnectionIndex(s, id) = IF found = {} THEN 0 ELSE Min(found)
  BY DEF FindConnectionIndex
<1> HIDE DEF found
<1>3. found # {} /\ Min(found) \in found
  BY <1>1, <1>2, MinIsOne
<1> QED BY <1>1, <1>2, <1>3

(* A list without one of its connections. *)
LEMMA RemovedIsLegal ==
  ASSUME NEW s \in Seq(Connections), UniqueServerPorts(s),
         NEW i \in 1 .. Len(s), Len(s) # 1
  PROVE  /\ RemoveAt(s, i) \in Seq(Connections) /\ RemoveAt(s, i) # << >>
         /\ UniqueServerPorts(RemoveAt(s, i))
<1> DEFINE n == Len(s)
           a == SubSeq(s, 1, i - 1)
           b == SubSeq(s, i + 1, n)
           From(k) == IF k < i THEN k ELSE k + 1
<1>1. /\ n \in Nat /\ i \in 1 .. n /\ \A k \in 1 .. n : s[k] \in Connections
      /\ DOMAIN s = 1 .. n
  BY LenProperties
<1>2. /\ a \in Seq(Connections) /\ Len(a) = i - 1
      /\ \A k \in 1 .. i - 1 : a[k] = s[k]
  <2>1. /\ 1 \in Int /\ i - 1 \in Int
        /\ \A k \in 1 .. i - 1 : s[k] \in Connections
    BY <1>1
  <2>2. /\ a \in Seq(Connections)
        /\ Len(a) = IF 1 <= i - 1 THEN i - 1 - 1 + 1 ELSE 0
        /\ \A k \in 1 .. i - 1 - 1 + 1 : a[k] = s[1 + k - 1]
    BY <2>1, SubSeqProperties
  <2> QED BY <1>1, <2>2
<1>3. /\ b \in Seq(Connections) /\ Len(b) = n - i
      /\ \A k \in 1 .. n - i : b[k] = s[i + k]
  <2>1. /\ i + 1 \in Int /\ n \in Int
        /\ \A k \in i + 1 .. n : s[k] \in Connections
    BY <1>1
  <2>2. /\ b \in Seq(Connections)
        /\ Len(b) = IF i + 1 <= n THEN n - (i + 1) + 1 ELSE 0
        /\ \A k \in 1 .. n - (i + 1) + 1 : b[k] = s[i + 1 + k - 1]
    BY <2>1, SubSeqProperties
  <2> HIDE DEF b
  <2>3. Len(b) = n - i
    <3>1. n \in Nat /\ i \in 1 .. n
      BY <1>1
    <3>2. Len(b) = IF i + 1 <= n THEN n - (i + 1) + 1 ELSE 0
      BY <2>2
    <3> HIDE DEF n
    <3> QED BY <3>1, <3>2
  <2>4. ASSUME NEW k \in 1 .. n - i PROVE b[k] = s[i + k]
    <3>1. k \in 1 .. n - (i + 1) + 1 /\ i + 1 + k - 1 = i + k
      BY <1>1
    <3>2. b[k] = s[i + 1 + k - 1]
      BY <2>2, <3>1
    <3> QED BY <3>1, <3>2
  <2> QED BY <2>2, <2>3, <2>4
<1>4. PICK r : r = RemoveAt(s, i)
  OBVIOUS
<1>5. r = a \o b
  BY <1>4 DEF RemoveAt
<1> HIDE DEF a, b
<1>6. /\ r \in Seq(Connections) /\ Len(r) = n - 1
      /\ \A k \in 1 .. n - 1 : r[k] = s[From(k)]
  <2>1. /\ a \o b \in Seq(Connections)
        /\ Len(a \o b) = Len(a) + Len(b)
        /\ \A k \in 1 .. Len(a) + Len(b) :
             (a \o b)[k] = IF k <= Len(a) THEN a[k] ELSE b[k - Len(a)]
    BY <1>2, <1>3, ConcatProperties
  <2>2. \A k \in 1 .. n - 1 :
          r[k] = IF k <= i - 1 THEN a[k] ELSE b[k - (i - 1)]
    BY <1>1, <1>2, <1>3, <1>5, <2>1
  <2>3. ASSUME NEW k \in 1 .. n - 1 PROVE r[k] = s[From(k)]
    <3>1. CASE k < i
      BY <1>1, <1>2, <2>2, <2>3, <3>1
    <3>2. CASE ~ k < i
      <4>1. k - (i - 1) \in 1 .. n - i /\ i + (k - (i - 1)) = k + 1
        BY <1>1, <2>3, <3>2
      <4>2. b[k - (i - 1)] = s[i + (k - (i - 1))]
        BY <1>3, <4>1
      <4>3. r[k] = b[k - (i - 1)]
        BY <1>1, <2>2, <2>3, <3>2
      <4> QED BY <3>2, <4>1, <4>2, <4>3
    <3> QED BY <3>1, <3>2
  <2>4. Len(r) = n - 1
    BY <1>1, <1>2, <1>3, <1>5, <2>1
  <2> QED BY <1>5, <2>1, <2>3, <2>4
<1>7. DOMAIN r = 1 .. n - 1 /\ r # << >>
  <2>1. n - 1 # 0
    BY <1>1
  <2> QED BY <1>6, <2>1, LenProperties, EmptySeq
<1>8. ASSUME NEW j \in 1 .. n - 1, NEW k \in 1 .. n - 1, j # k,
             r[j].server, r[k].server
      PROVE  r[j].port # r[k].port
  <2>1. From(j) \in DOMAIN s /\ From(k) \in DOMAIN s /\ From(j) # From(k)
    BY <1>1, <1>8
  <2>2. r[j] = s[From(j)] /\ r[k] = s[From(k)]
    BY <1>6
  <2> HIDE DEF From
  <2> QED BY <1>8, <2>1, <2>2 DEF UniqueServerPorts
<1>9. UniqueServerPorts(r)
  BY <1>7, <1>8 DEF UniqueServerPorts
<1> QED BY <1>4, <1>6, <1>7, <1>9

(* Functions on 1 .. n are sequences. *)
LEMMA ListIsSeq ==
  ASSUME NEW S, NEW n \in Nat, NEW s \in [1 .. n -> S]
  PROVE  s \in Seq(S) /\ Len(s) = n /\ DOMAIN s = 1 .. n
<1>1. s \in Seq(S)
  BY SeqDef
<1>2. 1 .. Len(s) = 1 .. n /\ Len(s) \in Nat
  BY <1>1, LenProperties
<1>3. Len(s) = n
  BY <1>2
<1> QED BY <1>1, <1>3

(* Every given connection has a key, and no redacted one. *)
LEMMA KeysAreKeys ==
  \A c \in Connections : c.key \notin {Redacted, NoKey}
BY ManagementAssumption DEF Connections

(* CREATE: POST /instances *)
LEMMA CreatedIsLegal ==
  ASSUME NEW config \in LegalConfigs, NEW c \in NewConnections
  PROVE  CreatedIn(config, c) \subseteq LegalConfigs
<1>1. c \in Connections
  BY ManagementAssumption DEF Given
<1>2. PICK next : next = [config EXCEPT !.conns = Append(@, c)]
  OBVIOUS
<1>3. config \in Configurations /\ config.conns \in Seq(Connections)
  BY DEF LegalConfigs, Configurations
<1>4. /\ Append(config.conns, c) \in Seq(Connections)
      /\ Append(config.conns, c) # << >>
  BY <1>1, <1>3
<1>5. next \in Configurations /\ next.conns # << >>
  BY <1>2, <1>3, <1>4 DEF Configurations
<1>6. CreatedIn(config, c) = IF UniqueServerPorts(next.conns) THEN {next} ELSE {}
  BY <1>2 DEF CreatedIn
<1> QED BY <1>5, <1>6 DEF LegalConfigs

(* PUT /instances/:id *)
LEMMA UpdatedIsLegal ==
  ASSUME NEW config \in LegalConfigs, NEW id, NEW name \in NewNames
  PROVE  UpdatedIn(config, id, name) \subseteq LegalConfigs
<1>1. PICK i : i = FindConnectionIndex(config.conns, id)
  OBVIOUS
<1>2. PICK s : s = config.conns
  OBVIOUS
<1>3. s \in Seq(Connections) /\ config \in Configurations
  BY <1>2 DEF LegalConfigs, Configurations
<1>4. CASE i = 0
  BY <1>1, <1>4 DEF UpdatedIn
<1>5. CASE i # 0
  <2>1. i \in 1 .. Len(s)
    BY <1>1, <1>2, <1>3, <1>5, FoundIsAPlace
  <2>2. PICK c : c = [s[i] EXCEPT !.name = name]
    OBVIOUS
  <2>3. s[i] \in Connections
    BY <1>3, <2>1, ElementOfSeq
  <2>4. /\ c \in Connections
        /\ c.server = s[i].server /\ c.port = s[i].port
    BY <2>2, <2>3 DEF Connections
  <2>5. PICK t : t = [s EXCEPT ![i] = c]
    OBVIOUS
  <2>6. /\ t \in Seq(Connections) /\ Len(t) = Len(s)
        /\ \A j \in 1 .. Len(s) : t[j] = IF j = i THEN c ELSE s[j]
    BY <1>3, <2>1, <2>4, <2>5, ExceptSeq
  <2>7. DOMAIN t = 1 .. Len(s) /\ DOMAIN s = 1 .. Len(s)
    BY <1>3, <2>6, LenProperties
  <2>8. UniqueServerPorts(t)
    <3>1. \A j \in 1 .. Len(s) : t[j].server = s[j].server /\ t[j].port = s[j].port
      BY <2>4, <2>6
    <3>2. UniqueServerPorts(s)
      BY <1>2 DEF LegalConfigs
    <3> QED BY <2>7, <3>1, <3>2 DEF UniqueServerPorts
  <2>9. PICK next : next = [config EXCEPT !.conns = t]
    OBVIOUS
  <2>10. next \in Configurations /\ next.conns = t
    BY <1>3, <2>6, <2>9 DEF Configurations
  <2>11. t # << >>
    BY <2>1, <2>6, EmptySeq
  <2>12. UpdatedIn(config, id, name) = {next}
    BY <1>1, <1>2, <1>5, <2>2, <2>5, <2>9 DEF UpdatedIn
  <2> QED BY <2>8, <2>10, <2>11, <2>12 DEF LegalConfigs
<1> QED BY <1>4, <1>5

(* DELETE /instances/:id *)
LEMMA DeletedIsLegal ==
  ASSUME NEW config \in LegalConfigs, NEW id
  PROVE  DeletedFrom(config, id) \subseteq LegalConfigs
<1>1. PICK i : i = FindConnectionIndex(config.conns, id)
  OBVIOUS
<1>2. PICK s : s = config.conns
  OBVIOUS
<1>3. /\ s \in Seq(Connections) /\ config \in Configurations
      /\ UniqueServerPorts(s)
  BY <1>2 DEF LegalConfigs, Configurations
<1>4. CASE i = 0 \/ Len(s) = 1
  BY <1>1, <1>2, <1>4 DEF DeletedFrom
<1>5. CASE i # 0 /\ Len(s) # 1
  <2>1. i \in 1 .. Len(s)
    BY <1>1, <1>2, <1>3, <1>5, FoundIsAPlace
  <2>2. PICK t : t = RemoveAt(s, i)
    OBVIOUS
  <2>3. t \in Seq(Connections) /\ t # << >> /\ UniqueServerPorts(t)
    BY <1>3, <1>5, <2>1, <2>2, RemovedIsLegal
  <2>4. PICK next : next = [config EXCEPT !.conns = t]
    OBVIOUS
  <2>5. next \in Configurations /\ next.conns = t
    BY <1>3, <2>3, <2>4 DEF Configurations
  <2>6. DeletedFrom(config, id) = {next}
    BY <1>1, <1>2, <1>5, <2>2, <2>4 DEF DeletedFrom
  <2> QED BY <2>3, <2>5, <2>6 DEF LegalConfigs
<1> QED BY <1>4, <1>5

-----------------------------------------------------------------------------
(* POST /plugin-config *)

(* A connection as it is shown: without its key. *)
Shown == [id : {c.id : c \in Given}, name : {c.name : c \in Given} \cup NewNames,
          server : BOOLEAN, port : {c.port : c \in Given}, key : {Redacted}]

(* redactSecretKeys *)
LEMMA RedactedIsShown ==
  ASSUME NEW s \in Seq(Connections)
  PROVE  /\ RedactSecretKeys(s) \in Seq(Shown)
         /\ Len(RedactSecretKeys(s)) = Len(s)
<1>1. PICK r : r = RedactSecretKeys(s)
  OBVIOUS
<1>2. Len(s) \in Nat /\ DOMAIN s = 1 .. Len(s) /\ \A i \in DOMAIN s : s[i] \in Connections
  BY LenProperties
<1>3. ASSUME NEW c \in Connections
      PROVE  c.key # NoKey /\ [c EXCEPT !.key = Redacted] \in Shown
  BY KeysAreKeys DEF Connections, Shown
<1>4. r = [i \in 1 .. Len(s) |-> IF s[i].key = NoKey THEN s[i]
                                ELSE [s[i] EXCEPT !.key = Redacted]]
  BY <1>1, <1>2 DEF RedactSecretKeys
<1>5. r \in [1 .. Len(s) -> Shown]
  BY <1>2, <1>3, <1>4
<1> QED BY <1>1, <1>2, <1>5, ListIsSeq

(* What a client makes of the configuration it was shown. *)
LEMMA BodiesAreShown ==
  ASSUME persisted \in LegalConfigs, NEW body \in Bodies
  PROVE  /\ body.conns \in Seq(Shown) /\ body.conns # << >>
         /\ body.token # Keep => body.token \in Tokens \cup {NoToken}
         /\ body.required # Keep => body.required \in BOOLEAN
<1>1. PICK s : s = RedactSecretKeys(persisted.conns)
  OBVIOUS
<1>2. /\ s \in Seq(Shown) /\ s # << >>
      /\ Len(s) \in Nat /\ DOMAIN s = 1 .. Len(s)
  <2>1. persisted.conns \in Seq(Connections) /\ persisted.conns # << >>
    BY DEF LegalConfigs, Configurations
  <2>2. s \in Seq(Shown) /\ Len(s) = Len(persisted.conns)
    BY <1>1, <2>1, RedactedIsShown
  <2>3. Len(s) # 0
    BY <2>1, <2>2, EmptySeq
  <2> QED BY <2>2, <2>3, LenProperties, EmptySeq
<1>3. Reverse(s) \in Seq(Shown)
  <2>1. Reverse(s) = [i \in 1 .. Len(s) |-> s[(Len(s) - i) + 1]]
    BY DEF Reverse
  <2>2. \A i \in 1 .. Len(s) : s[(Len(s) - i) + 1] \in Shown
    BY <1>2, ElementOfSeq
  <2>3. Reverse(s) \in [1 .. Len(s) -> Shown]
    BY <2>1, <2>2
  <2> QED BY <1>2, <2>3, ListIsSeq
<1>4. Front(s) \in Seq(Shown)
  <2>1. /\ 1 \in Int /\ Len(s) - 1 \in Int
        /\ \A i \in 1 .. Len(s) - 1 : s[i] \in Shown
    BY <1>2, ElementOfSeq
  <2> QED BY <2>1, SubSeqProperties DEF Front
<1>5. \/ \E l \in {Reverse(s), Front(s)} \ {<< >>} :
           body = [conns |-> l, token |-> Keep, required |-> Keep]
      \/ \E t \in Tokens \cup {NoToken} :
           body = [conns |-> s, token |-> t, required |-> Keep]
      \/ \E r \in BOOLEAN :
           body = [conns |-> s, token |-> Keep, required |-> r]
  BY <1>1 DEF Bodies
<1> QED BY <1>2, <1>3, <1>4, <1>5

(* restoreRedactedSecretKeys puts real keys back, or refuses. *)
LEMMA RestoredKeyIsAKey ==
  ASSUME NEW stored \in Seq(Connections), NEW list \in Seq(Shown),
         NEW i \in DOMAIN list
  PROVE  RestoredKey(list, i, stored) \subseteq {c.key : c \in Given}
<1>1. PICK same : same = StoredAs(stored, IdentityKey(list[i]))
  OBVIOUS
<1>2. /\ same \subseteq DOMAIN stored
      /\ DOMAIN stored = 1 .. Len(stored) /\ DOMAIN list = 1 .. Len(list)
  BY <1>1, LenProperties DEF StoredAs
<1>3. ASSUME NEW j \in DOMAIN stored
      PROVE  stored[j].key \in {c.key : c \in Given}
  <2>1. stored[j] \in Connections
    BY <1>2, ElementOfSeq
  <2> QED BY <2>1 DEF Connections
<1>4. list[i].key = Redacted
  <2>1. list[i] \in Shown
    BY <1>2, ElementOfSeq
  <2> QED BY <2>1 DEF Shown
<1>5. IndexFallbackIsSafe(list, i, stored) => i \in DOMAIN stored
  BY <1>2 DEF IndexFallbackIsSafe
<1>6. RestoredKey(list, i, stored) \subseteq
        {stored[j].key : j \in same}
          \cup (IF IndexFallbackIsSafe(list, i, stored) THEN {stored[i].key} ELSE {})
  BY <1>1, <1>4 DEF RestoredKey
<1> QED BY <1>2, <1>3, <1>5, <1>6

(* The configurations a body stands for. *)
LEMMA ReplacedIsLegal ==
  ASSUME persisted \in LegalConfigs, NEW stored \in LegalConfigs,
         NEW body \in Bodies
  PROVE  ReplacedBy(stored, body) \subseteq LegalConfigs
<1>1. PICK list : list = body.conns
  OBVIOUS
<1>2. /\ list \in Seq(Shown) /\ list # << >>
      /\ body.token # Keep => body.token \in Tokens \cup {NoToken}
      /\ body.required # Keep => body.required \in BOOLEAN
  BY <1>1, BodiesAreShown
<1>3. stored \in Configurations /\ stored.conns \in Seq(Connections)
  BY DEF LegalConfigs, Configurations
<1>4. /\ Len(list) \in Nat /\ Len(list) # 0 /\ DOMAIN list = 1 .. Len(list)
      /\ \A i \in DOMAIN list : list[i] \in Shown
  BY <1>2, LenProperties, EmptySeq
<1>5. ASSUME NEW l \in RestoreRedactedSecretKeys(list, stored.conns)
      PROVE  l \in Seq(Connections) /\ l # << >>
  <2> DEFINE K(i) == RestoredKey(list, i, stored.conns)
             k(i) == CHOOSE x \in K(i) : TRUE
  <2>1. /\ \A i \in DOMAIN list : K(i) # {}
        /\ l = [i \in DOMAIN list |-> [list[i] EXCEPT !.key = k(i)]]
    BY <1>5 DEF RestoreRedactedSecretKeys
  <2>2. \A i \in DOMAIN list : K(i) \subseteq {c.key : c \in Given}
    BY <1>2, <1>3, RestoredKeyIsAKey
  <2>3. \A i \in DOMAIN list : k(i) \in K(i)
    BY <2>1
  <2> HIDE DEF K, k
  <2>4. ASSUME NEW c \in Shown, NEW key \in {d.key : d \in Given}
        PROVE  [c EXCEPT !.key = key] \in Connections
    BY <2>4 DEF Shown, Connections
  <2>5. \A i \in DOMAIN list : [list[i] EXCEPT !.key = k(i)] \in Connections
    BY <1>4, <2>2, <2>3, <2>4
  <2>6. l \in [1 .. Len(list) -> Connections]
    BY <1>4, <2>1, <2>5
  <2>7. l \in Seq(Connections) /\ Len(l) = Len(list)
    BY <1>4, <2>6, ListIsSeq
  <2> QED BY <1>4, <2>7, EmptySeq
<1>6. ASSUME NEW next \in ReplacedBy(stored, body)
      PROVE  next \in LegalConfigs
  <2>1. PICK l \in RestoreRedactedSecretKeys(list, stored.conns) :
          /\ UniqueServerPorts(l)
          /\ next = [conns    |-> l,
                     token    |-> IF body.token = Keep THEN stored.token
                                  ELSE body.token,
                     required |-> IF body.required = Keep THEN stored.required
                                  ELSE body.required]
    BY <1>1, <1>6 DEF ReplacedBy
  <2>2. l \in Seq(Connections) /\ l # << >>
    BY <1>5
  <2>3. stored.token \in Tokens \cup {NoToken} /\ stored.required \in BOOLEAN
    BY <1>3 DEF Configurations
  <2>4. next \in Configurations /\ next.conns = l
    BY <1>2, <2>1, <2>2, <2>3 DEF Configurations
  <2> QED BY <2>1, <2>2, <2>4 DEF LegalConfigs
<1> QED BY <1>6

-----------------------------------------------------------------------------
(* The inductive invariant. *)

(* Every configuration can be started. *)
ConfigsInv ==
  /\ {persisted, wanted} \subseteq LegalConfigs
  /\ live \in LegalConfigs \cup {Stopped}
  /\ restarts \in Seq(LegalConfigs) /\ Len(restarts) <= MaxRestarts
  /\ requests \in 0 .. MaxRequests
  /\ behind \in BOOLEAN /\ disturbed \in BOOLEAN

(* What the host's file will have when all restarts are done. *)
Planned == IF restarts = << >> THEN persisted ELSE Last(restarts)

(* That is what was accepted, unless something disturbed it; and a plugin  *)
(* that is not behind has it already, or is stopped with nothing to come.  *)
Course ==
  /\ behind => restarts # << >>
  /\ ~ disturbed =>
       /\ wanted = Planned
       /\ ~ behind => live = wanted \/ (live = Stopped /\ restarts = << >>)

ManagementIInv == ConfigsInv /\ Course /\ FilesInv

(* Restarts are taken from the front and added at the back. *)
LEMMA QueueFacts ==
  ASSUME NEW S, NEW q \in Seq(S)
  PROVE  /\ \A x \in S : /\ Append(q, x) \in Seq(S) /\ Append(q, x) # << >>
                          /\ Len(Append(q, x)) = Len(q) + 1
                          /\ Last(Append(q, x)) = x
         /\ q # << >> =>
              /\ Head(q) \in S /\ Tail(q) \in Seq(S) /\ Last(q) \in S
              /\ Len(Tail(q)) = Len(q) - 1
              /\ Last(q) = IF Tail(q) = << >> THEN Head(q) ELSE Last(Tail(q))
<1>1. Len(q) \in Nat /\ \A i \in 1 .. Len(q) : q[i] \in S
  BY LenProperties, ElementOfSeq
<1>2. ASSUME NEW x \in S
      PROVE  /\ Append(q, x) \in Seq(S) /\ Append(q, x) # << >>
             /\ Len(Append(q, x)) = Len(q) + 1
             /\ Last(Append(q, x)) = x
  <2>1. PICK r : r = Append(q, x)
    OBVIOUS
  <2>2. r \in Seq(S) /\ Len(r) = Len(q) + 1 /\ r[Len(q) + 1] = x
    BY <2>1, AppendProperties
  <2>3. Len(r) # 0
    BY <1>1, <2>2
  <2>4. r # << >>
    BY <2>2, <2>3, EmptySeq
  <2>5. Last(r) = x
    BY <2>2 DEF Last
  <2> QED BY <2>1, <2>2, <2>4, <2>5
<1>3. ASSUME q # << >>
      PROVE  /\ Head(q) \in S /\ Tail(q) \in Seq(S) /\ Last(q) \in S
             /\ Len(Tail(q)) = Len(q) - 1
             /\ Last(q) = IF Tail(q) = << >> THEN Head(q) ELSE Last(Tail(q))
  <2>1. /\ Head(q) \in S /\ Tail(q) \in Seq(S)
        /\ Len(Tail(q)) = Len(q) - 1
    BY <1>3, HeadTailProperties
  <2>2. Len(q) >= 1
    BY <1>1, <1>3, EmptySeq
  <2>3. Last(q) \in S
    BY <1>1, <2>2 DEF Last
  <2>4. Head(q) = q[1] /\ \A i \in 1 .. Len(q) - 1 : Tail(q)[i] = q[i + 1]
    BY <1>3
  <2>5. CASE Tail(q) = << >>
    <3>1. Len(Tail(q)) = 0
      BY <2>5, EmptySeq
    <3>2. Len(q) = 1
      <4>1. PICK n \in Nat : n = Len(q)
        BY <1>1
      <4>2. n - 1 = 0
        BY <2>1, <3>1, <4>1
      <4>3. n = 1
        BY <4>2
      <4> QED BY <4>1, <4>3
    <3>3. Last(q) = q[1]
      BY <3>2 DEF Last
    <3> QED BY <2>1, <2>3, <2>4, <2>5, <3>3
  <2>6. CASE Tail(q) # << >>
    <3>1. Len(q) - 1 \in 1 .. Len(q) - 1
      BY <1>1, <2>1, <2>2, <2>6, EmptySeq
    <3>2. Tail(q)[Len(q) - 1] = q[Len(q) - 1 + 1]
      BY <2>4, <3>1
    <3>3. Last(Tail(q)) = Last(q)
      <4>1. PICK n \in Nat : n = Len(q)
        BY <1>1
      <4>2. PICK t : t = Tail(q)
        OBVIOUS
      <4>3. Len(t) = n - 1 /\ t[n - 1] = q[n - 1 + 1]
        BY <2>1, <3>2, <4>1, <4>2
      <4>4. n - 1 + 1 = n
        BY <4>1
      <4>5. Last(t) = t[n - 1] /\ Last(q) = q[n]
        BY <4>1, <4>3 DEF Last
      <4> QED BY <4>2, <4>3, <4>4, <4>5
    <3> QED BY <2>1, <2>3, <2>6, <3>3
  <2> QED BY <2>5, <2>6
<1> QED BY <1>2, <1>3

(* The requests to /instances *)
LEMMA ChangeKeeps ==
  ASSUME ManagementIInv, NEW result, NEW wish, Change(result, wish),
         live # Stopped => result \subseteq LegalConfigs,
         wish \subseteq LegalConfigs, live = wanted => result = wish
  PROVE  ManagementIInv'
<1>1. PICK next : next = SomeOf(result)
  OBVIOUS
<1>2. /\ live # Stopped /\ Len(restarts) < MaxRestarts /\ result # {}
      /\ requests < MaxRequests /\ requests' = requests + 1
      /\ restarts' = Append(restarts, next) /\ live' = next
      /\ wanted' = IF wish = {} THEN wanted ELSE SomeOf(wish)
      /\ disturbed' = (disturbed \/ behind)
      /\ persisted' = persisted /\ behind' = behind
      /\ UNCHANGED <<saves, temps, file>>
  BY <1>1 DEF Change, MayRestart, Request, RestartWithConnections, Wants, files
<1>3. next \in LegalConfigs /\ wanted' \in LegalConfigs
  BY <1>1, <1>2 DEF SomeOf, ManagementIInv, ConfigsInv
<1>4. /\ restarts \in Seq(LegalConfigs)
      /\ restarts' \in Seq(LegalConfigs) /\ restarts' # << >>
      /\ Len(restarts') = Len(restarts) + 1 /\ Last(restarts') = next
  BY <1>2, <1>3, QueueFacts DEF ManagementIInv, ConfigsInv
<1>5. ConfigsInv'
  <2>1. Len(restarts') <= MaxRestarts
    BY <1>2, <1>4, LenProperties, ManagementAssumption
  <2>2. requests' \in 0 .. MaxRequests
    BY <1>2, ManagementAssumption DEF ManagementIInv, ConfigsInv
  <2> QED BY <1>2, <1>3, <1>4, <2>1, <2>2 DEF ManagementIInv, ConfigsInv
<1>6. Course'
  <2>1. ~ disturbed' => wanted' = next
    BY <1>1, <1>2 DEF ManagementIInv, Course
  <2> QED BY <1>2, <1>4, <2>1 DEF Course, Planned
<1>7. FilesInv'
  BY <1>2, SameFilesKeep DEF ManagementIInv
<1> QED BY <1>5, <1>6, <1>7 DEF ManagementIInv

(* POST /plugin-config *)
LEMMA ReplaceKeeps ==
  ASSUME ManagementIInv, NEW body \in Bodies, ReplaceConfig(body)
  PROVE  ManagementIInv'
<1> DEFINE result == ReplacedBy(persisted, body)
           wish == ReplacedBy(wanted, body)
<1>1. /\ {persisted, wanted} \subseteq LegalConfigs
      /\ restarts \in Seq(LegalConfigs)
  BY DEF ManagementIInv, ConfigsInv
<1>2. result \subseteq LegalConfigs /\ wish \subseteq LegalConfigs
  BY <1>1, ReplacedIsLegal
<1>3. PICK next : next = SomeOf(result)
  OBVIOUS
<1>4. /\ requests < MaxRequests /\ requests' = requests + 1 /\ live' = live
      /\ result # {}
  BY DEF ReplaceConfig, Request
<1>5. next \in LegalConfigs
  BY <1>2, <1>3, <1>4 DEF SomeOf
<1>6. requests' \in 0 .. MaxRequests
  BY <1>4, ManagementAssumption DEF ManagementIInv, ConfigsInv
<1>7. CASE /\ Len(restarts) < MaxRestarts
           /\ restarts' = Append(restarts, next) /\ Wants(wish)
           /\ disturbed' = (disturbed \/ restarts # << >>)
           /\ behind' = TRUE /\ persisted' = persisted
           /\ UNCHANGED <<saves, temps, file>>
  <2>1. wanted' = IF wish = {} THEN wanted ELSE SomeOf(wish)
    BY <1>7 DEF Wants
  <2>2. wanted' \in LegalConfigs
    BY <1>1, <1>2, <2>1 DEF SomeOf
  <2>3. /\ restarts' \in Seq(LegalConfigs) /\ restarts' # << >>
        /\ Len(restarts') = Len(restarts) + 1 /\ Last(restarts') = next
    BY <1>1, <1>5, <1>7, QueueFacts
  <2>4. Len(restarts') <= MaxRestarts
    BY <1>1, <1>7, <2>3, LenProperties, ManagementAssumption
  <2>5. ConfigsInv'
    BY <1>1, <1>4, <1>6, <1>7, <2>2, <2>3, <2>4 DEF ManagementIInv, ConfigsInv
  <2>6. ~ disturbed' => wanted = persisted
    BY <1>7 DEF ManagementIInv, Course, Planned
  <2>7. ~ disturbed' => wanted' = next
    BY <1>3, <1>4, <2>1, <2>6
  <2>8. Course'
    BY <1>7, <2>3, <2>7 DEF Course, Planned
  <2>9. FilesInv'
    BY <1>7, SameFilesKeep DEF ManagementIInv
  <2> QED BY <2>5, <2>8, <2>9 DEF ManagementIInv
<1>8. CASE /\ live = Stopped /\ restarts' = restarts /\ behind' = behind
           /\ persisted' = next /\ Wants(wish)
           /\ disturbed' = (disturbed \/ restarts # << >>)
           /\ UNCHANGED <<saves, temps, file>>
  <2>1. wanted' = IF wish = {} THEN wanted ELSE SomeOf(wish)
    BY <1>8 DEF Wants
  <2>2. wanted' \in LegalConfigs
    BY <1>1, <1>2, <2>1 DEF SomeOf
  <2>3. ConfigsInv'
    BY <1>4, <1>5, <1>6, <1>8, <2>2 DEF ManagementIInv, ConfigsInv
  <2>4. ~ disturbed' => wanted = persisted
    BY <1>8 DEF ManagementIInv, Course, Planned
  <2>5. ~ disturbed' => wanted' = next
    BY <1>3, <1>4, <2>1, <2>4
  <2>6. Course'
    BY <1>4, <1>8, <2>5 DEF ManagementIInv, Course, Planned
  <2>7. FilesInv'
    BY <1>8, SameFilesKeep DEF ManagementIInv
  <2> QED BY <2>3, <2>6, <2>7 DEF ManagementIInv
<1>9. CASE UNCHANGED <<persisted, wanted, disturbed, restarts, behind,
                       saves, temps, file>>
  <2>1. ConfigsInv' /\ Course'
    BY <1>4, <1>6, <1>9 DEF ManagementIInv, ConfigsInv, Course, Planned
  <2>2. FilesInv'
    BY <1>9, SameFilesKeep DEF ManagementIInv
  <2> QED BY <2>1, <2>2 DEF ManagementIInv
<1> QED BY <1>3, <1>7, <1>8, <1>9
        DEF ReplaceConfig, MayRestart, Trouble, files

(* The host's restart, whatever becomes of the connections. *)
LEMMA HostRestartsKeeps ==
  ASSUME ManagementIInv, HostRestarts
  PROVE  ManagementIInv'
<1>1. /\ restarts # << >> /\ persisted' = Head(restarts)
      /\ restarts' = Tail(restarts) /\ live' = Head(restarts)
      /\ behind' = (restarts' # << >>)
      /\ requests' = requests /\ wanted' = wanted /\ disturbed' = disturbed
      /\ UNCHANGED <<saves, temps, file>>
  BY DEF HostRestarts, PluginStart, Trouble, files
<1>2. restarts \in Seq(LegalConfigs) /\ Len(restarts) <= MaxRestarts
  BY DEF ManagementIInv, ConfigsInv
<1>3. /\ Head(restarts) \in LegalConfigs /\ restarts' \in Seq(LegalConfigs)
      /\ Len(restarts') = Len(restarts) - 1
      /\ Last(restarts) = IF restarts' = << >> THEN Head(restarts)
                                               ELSE Last(restarts')
  BY <1>1, <1>2, QueueFacts
<1>4. Len(restarts') <= MaxRestarts
  BY <1>2, <1>3, LenProperties, ManagementAssumption
<1>5. ConfigsInv'
  BY <1>1, <1>3, <1>4 DEF ManagementIInv, ConfigsInv
<1>6. Planned' = Planned
  BY <1>1, <1>3 DEF Planned
<1>7. ~ behind' => live' = Planned'
  BY <1>1 DEF Planned
<1>8. Course'
  BY <1>1, <1>6, <1>7 DEF ManagementIInv, Course
<1>9. FilesInv'
  BY <1>1, SameFilesKeep DEF ManagementIInv
<1> QED BY <1>5, <1>8, <1>9 DEF ManagementIInv

(* A restart that is given up. *)
LEMMA HostFailsKeeps ==
  ASSUME ManagementIInv, HostFailsToSave
  PROVE  ManagementIInv'
<1>1. /\ restarts # << >> /\ restarts' = Tail(restarts)
      /\ behind' = (behind /\ restarts' # << >>) /\ disturbed' = TRUE
      /\ persisted' = persisted /\ live' = live
      /\ requests' = requests /\ wanted' = wanted
      /\ UNCHANGED <<saves, temps, file>>
  BY DEF HostFailsToSave, Trouble
<1>2. restarts \in Seq(LegalConfigs) /\ Len(restarts) <= MaxRestarts
  BY DEF ManagementIInv, ConfigsInv
<1>3. restarts' \in Seq(LegalConfigs) /\ Len(restarts') = Len(restarts) - 1
  BY <1>1, <1>2, QueueFacts
<1>4. Len(restarts') <= MaxRestarts
  BY <1>2, <1>3, LenProperties, ManagementAssumption
<1>5. ConfigsInv' /\ Course'
  BY <1>1, <1>3, <1>4 DEF ManagementIInv, ConfigsInv, Course
<1>6. FilesInv'
  BY <1>1, SameFilesKeep DEF ManagementIInv
<1> QED BY <1>5, <1>6 DEF ManagementIInv

(* The plugin stops, starts, and dies. *)
LEMMA StopKeeps ==
  ASSUME ManagementIInv, PluginStop
  PROVE  ManagementIInv'
<1>1. /\ live' = Stopped /\ behind' = (restarts # << >>)
      /\ UNCHANGED <<persisted, restarts, requests, wanted, disturbed>>
      /\ UNCHANGED <<saves, temps, file>>
  BY DEF PluginStop, files
<1>2. ConfigsInv' /\ Course'
  BY <1>1 DEF ManagementIInv, ConfigsInv, Course, Planned
<1>3. FilesInv'
  BY <1>1, SameFilesKeep DEF ManagementIInv
<1> QED BY <1>2, <1>3 DEF ManagementIInv

LEMMA StartKeeps ==
  ASSUME ManagementIInv, HostStarts
  PROVE  ManagementIInv'
<1>1. /\ live = Stopped /\ live' = persisted
      /\ UNCHANGED <<persisted, restarts, requests, wanted, behind, disturbed>>
      /\ UNCHANGED <<saves, temps, file>>
  BY DEF HostStarts, PluginStart, Trouble, files
<1>2. wanted # Stopped
  BY ManagementAssumption DEF ManagementIInv, ConfigsInv, LegalConfigs
<1>3. ConfigsInv' /\ Course'
  BY <1>1, <1>2 DEF ManagementIInv, ConfigsInv, Course, Planned
<1>4. FilesInv'
  BY <1>1, SameFilesKeep DEF ManagementIInv
<1> QED BY <1>3, <1>4 DEF ManagementIInv

LEMMA CrashKeeps ==
  ASSUME ManagementIInv, Crash
  PROVE  ManagementIInv'
<1>1. /\ FilesAfterCrash /\ live' = Stopped /\ restarts' = << >>
      /\ behind' = FALSE /\ disturbed' = (disturbed \/ restarts # << >>)
      /\ UNCHANGED <<persisted, requests, wanted>>
  BY DEF Crash
<1>2. << >> \in Seq(LegalConfigs) /\ Len(<< >>) <= MaxRestarts
  BY EmptySeq, ManagementAssumption
<1>3. ConfigsInv' /\ Course'
  BY <1>1, <1>2 DEF ManagementIInv, ConfigsInv, Course, Planned
<1>4. FilesInv'
  BY <1>1, CrashKeepsFiles DEF ManagementIInv
<1> QED BY <1>3, <1>4 DEF ManagementIInv

(* Every step, and the beginning. *)
LEMMA ManagementStep ==
  ASSUME ManagementIInv, [Next]_vars
  PROVE  ManagementIInv'
<1>1. /\ live # Stopped => live \in LegalConfigs
      /\ wanted \in LegalConfigs /\ persisted \in LegalConfigs
  BY DEF ManagementIInv, ConfigsInv
<1>2. ASSUME NEW c \in NewConnections, CreateInstance(c)
      PROVE  ManagementIInv'
  <2>1. /\ live # Stopped => CreatedIn(live, c) \subseteq LegalConfigs
        /\ CreatedIn(wanted, c) \subseteq LegalConfigs
    BY <1>1, CreatedIsLegal
  <2> QED BY <1>2, <2>1, ChangeKeeps DEF CreateInstance
<1>3. ASSUME NEW id, NEW name \in NewNames, UpdateInstance(id, name)
      PROVE  ManagementIInv'
  <2>1. /\ live # Stopped => UpdatedIn(live, id, name) \subseteq LegalConfigs
        /\ UpdatedIn(wanted, id, name) \subseteq LegalConfigs
    BY <1>1, UpdatedIsLegal
  <2> QED BY <1>3, <2>1, ChangeKeeps DEF UpdateInstance
<1>4. ASSUME NEW id, DeleteInstance(id)
      PROVE  ManagementIInv'
  <2>1. /\ live # Stopped => DeletedFrom(live, id) \subseteq LegalConfigs
        /\ DeletedFrom(wanted, id) \subseteq LegalConfigs
    BY <1>1, DeletedIsLegal
  <2> QED BY <1>4, <2>1, ChangeKeeps DEF DeleteInstance
<1>5. ASSUME NEW w \in Writers, SaveConfigFile(w)
      PROVE  ManagementIInv'
  <2>1. FilesInv'
    BY <1>5, SaveKeeps DEF SaveConfigFile, ManagementIInv
  <2>2. ConfigsInv' /\ Course'
    BY <1>5 DEF SaveConfigFile, ManagementIInv, ConfigsInv, Course, Planned, api
  <2> QED BY <2>1, <2>2 DEF ManagementIInv
<1>6. CASE UNCHANGED vars
  <2>1. FilesInv'
    BY <1>6, SameFilesKeep DEF ManagementIInv, vars, files
  <2>2. ConfigsInv' /\ Course'
    BY <1>6 DEF ManagementIInv, ConfigsInv, Course, Planned, vars, api
  <2> QED BY <2>1, <2>2 DEF ManagementIInv
<1> QED BY <1>2, <1>3, <1>4, <1>5, <1>6, ReplaceKeeps, HostRestartsKeeps,
           HostFailsKeeps, StopKeeps, StartKeeps, CrashKeeps DEF Next

LEMMA ManagementStarts ==
  ASSUME Init
  PROVE  ManagementIInv
<1>1. FirstConfig \in LegalConfigs
  BY ManagementAssumption DEF LegalConfigs
<1>2. << >> \in Seq(LegalConfigs) /\ Len(<< >>) <= MaxRestarts
  BY EmptySeq, ManagementAssumption
<1>3. 0 \in 0 .. MaxRequests
  BY ManagementAssumption
<1>4. ConfigsInv /\ Course
  BY <1>1, <1>2, <1>3 DEF Init, ConfigsInv, Course, Planned
<1>5. /\ file = File(Initial, TRUE) /\ File(Initial, TRUE) \in Files
      /\ Absent \in Files
  BY DEF Init, FileInit, File, Files, Absent
<1>6. file.body = Initial /\ file.synced = TRUE
  BY <1>5 DEF File
<1>7. FilesInv
  BY <1>5, <1>6, ConfigFileAssumption DEF Init, FileInit, FilesInv, SaveInv
<1> QED BY <1>4, <1>7 DEF ManagementIInv

(* The inductive invariant, of which the properties are consequences. *)
THEOREM ManagementSafe == Spec => []ManagementIInv
<1>1. Init => ManagementIInv
  BY ManagementStarts
<1>2. ManagementIInv /\ [Next]_vars => ManagementIInv'
  BY ManagementStep
<1> QED BY <1>1, <1>2, PTL DEF Spec

(* saveConfigFile: however many saves of a runtime file overlap, fail or   *)
(* are cut short, who reads it finds the complete body of one save.        *)
THEOREM FileStaysWhole == Spec => []FileIsWhole
<1>1. ManagementIInv => FileIsWhole
  BY DEF ManagementIInv, FilesInv, SaveInv, FileIsWhole
<1> QED BY <1>1, ManagementSafe, PTL

(* restartWithConnections and the host's restarts: when they are done, the *)
(* configuration is what the accepted requests make, one after the other.  *)
THEOREM AcceptedStays == Spec => []AcceptedIsKept
<1>1. ManagementIInv => AcceptedIsKept
  BY DEF ManagementIInv, Course, Planned, AcceptedIsKept
<1> QED BY <1>1, ManagementSafe, PTL

(* What can be started is the type of Management, spelt out. *)
LEMMA LegalIsLegal ==
  ASSUME NEW config \in LegalConfigs
  PROVE  IsLegal(config)
<1>1. /\ config.conns \in Seq(Connections) /\ config.conns # << >>
      /\ UniqueServerPorts(config.conns)
      /\ config.token \in Tokens \cup {NoToken} /\ config.required \in BOOLEAN
  BY DEF LegalConfigs, Configurations
<1>2. ASSUME NEW i \in DOMAIN config.conns
      PROVE  config.conns[i].key \notin {Redacted, NoKey}
  <2>1. config.conns[i] \in Connections
    BY <1>1, LenProperties, ElementOfSeq
  <2>2. config.conns[i].key \in {c.key : c \in Given}
    BY <2>1 DEF Connections
  <2> QED BY <2>2, ManagementAssumption
<1> QED BY <1>1, <1>2 DEF IsLegal

(* Whatever is asked of the API, in whatever order and through whatever    *)
(* restarts, failures and crashes: every configuration can be started, and *)
(* authorizeManagement decides by what was accepted.                       *)
THEOREM ManagementStaysSound == Spec => []ManagementInv
<1>1. ManagementIInv => TypeOK
  <2> SUFFICES ASSUME ManagementIInv PROVE TypeOK
    OBVIOUS
  <2>1. restarts \in Seq(LegalConfigs)
    BY DEF ManagementIInv, ConfigsInv
  <2>2. Range(restarts) \subseteq LegalConfigs
    BY <2>1, LenProperties, ElementOfSeq DEF Range
  <2>3. \A config \in {persisted, wanted} \cup ({live} \ {Stopped})
                        \cup Range(restarts) : config \in LegalConfigs
    BY <2>2 DEF ManagementIInv, ConfigsInv
  <2> QED BY <2>3, LegalIsLegal DEF ManagementIInv, ConfigsInv, FilesInv, TypeOK
<1>2. ManagementIInv => AuthFollowsConfig
  <2> SUFFICES ASSUME ManagementIInv, restarts = << >>, ~ disturbed
               PROVE  AuthOptions = wanted
    BY DEF AuthFollowsConfig
  <2> QED BY DEF ManagementIInv, Course, Planned, AuthOptions
<1> QED BY <1>1, <1>2, ManagementSafe, PTL DEF ManagementInv

=============================================================================
