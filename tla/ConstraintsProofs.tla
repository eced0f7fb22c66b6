------------------------- MODULE ConstraintsProofs --------------------------
(***************************************************************************)
(* Theorems about Constraints, for any sets of rows and keys and every     *)
(* workload: types, what the uniqueness cache knows of the disk, when the  *)
(* stored rows satisfy the constraints, and what becomes of the rows of an *)
(* INSERT.                                                                 *)
(***************************************************************************)
EXTENDS Constraints, TLAPS

KeySets == SUBSET (Keys \cup {Null})
Checked == [ok : BOOLEAN, cache : Cache, keys : KeySets]
Flushed == [ok : BOOLEAN, stored : SUBSET Row, cache : Cache]

-----------------------------------------------------------------------------
(* The operators: keys of a union, what validation and flush return.        *)
LEMMA KeysType == ASSUME TypeOK, NEW S \in SUBSET Row
                  PROVE  KeysOf(Compared(S)) \in KeySets /\ Compared(S) \subseteq S
  BY DEF KeysOf, Compared, Row, KeySets

LEMMA KeysUnion == \A S, T : KeysOf(S \cup T) = KeysOf(S) \cup KeysOf(T)
  BY DEF KeysOf

LEMMA ComparedUnion == \A S, T : Compared(S \cup T) = Compared(S) \cup Compared(T)
  BY DEF Compared

LEMMA ComparedKeysUnion ==
    \A S, T : KeysOf(Compared(S \cup T)) = KeysOf(Compared(S)) \cup KeysOf(Compared(T))
  BY KeysUnion, ComparedUnion

LEMMA KeysGrow ==
    ASSUME NEW S, NEW T, S \subseteq T
    PROVE  KeysOf(Compared(S)) \subseteq KeysOf(Compared(T))
  BY DEF KeysOf, Compared

(* When validation accepts, and the cache it leaves.                        *)
LEMMA ValidateOk ==
    ASSUME NEW S, NEW n, NEW c, NEW st
    PROVE  LET v == ValidateBatch(S, n, c, st)
           IN  /\ n => (v.ok <=> TableConstraintsOk(st)) /\ v.cache = c /\ v.keys = {}
               /\ ~n => v.keys = KeysOf(Compared(S))
               /\ ~n => (v.ok <=> /\ BatchKeysOk(S) /\ ChecksOk(S)
                                  /\ Unseen(S, v.cache))
               /\ v.cache = IF ~n /\ BatchKeysOk(S) /\ Compared(S) # {}
                            THEN EnsureLoaded(c, st) ELSE c
  BY DEF ValidateBatch

LEMMA ValidateType ==
    ASSUME TypeOK, NEW S \in SUBSET Row, NEW n \in BOOLEAN, NEW c \in Cache,
           NEW st \in SUBSET Row
    PROVE  ValidateBatch(S, n, c, st) \in Checked
  <1> DEFINE touched == ~n /\ BatchKeysOk(S) /\ Compared(S) # {}
             seen == IF touched THEN EnsureLoaded(c, st) ELSE c
             ok == IF n THEN TableConstraintsOk(st)
                   ELSE BatchKeysOk(S) /\ Unseen(S, seen) /\ ChecksOk(S)
  <1>1. seen \in Cache
    BY KeysType DEF EnsureLoaded, Cache, KeySets
  <1>2. ok \in BOOLEAN
    BY DEF TableConstraintsOk, BatchKeysOk
  <1>3. (IF n THEN {} ELSE KeysOf(Compared(S))) \in KeySets
    BY KeysType DEF KeySets
  <1>4. ValidateBatch(S, n, c, st) =
          [ok |-> ok, cache |-> seen, keys |-> IF n THEN {} ELSE KeysOf(Compared(S))]
    BY DEF ValidateBatch
  <1> HIDE DEF touched, seen, ok
  <1> QED
    BY <1>1, <1>2, <1>3, <1>4 DEF Checked

LEMMA MergeType ==
    ASSUME NEW c \in Cache, NEW ks \in KeySets PROVE MergeKeys(c, ks) \in Cache
  BY DEF MergeKeys, Cache, KeySets

LEMMA FlushType == ASSUME TypeOK, NEW compact PROVE Flush(compact) \in Flushed
  <1> DEFINE v == ValidateBatch(buffer, narrow, cache, stored)
             merged == MergeKeys(v.cache, v.keys)
  <1>1. v \in Checked
    BY ValidateType DEF TypeOK
  <1>2. merged \in Cache /\ NoCache \in Cache
    BY <1>1, MergeType DEF Checked, NoCache, Cache
  <1>3. /\ NoFlush \in Flushed
        /\ [ok |-> FALSE, stored |-> stored, cache |-> v.cache] \in Flushed
    BY <1>1 DEF NoFlush, Flushed, TypeOK, Checked
  <1>4. [ok |-> TRUE, stored |-> stored \cup buffer,
         cache |-> IF compact /\ ~inTxn THEN Invalidate(merged) ELSE merged] \in Flushed
    BY <1>2 DEF Flushed, TypeOK, Invalidate
  <1> QED
    BY <1>3, <1>4 DEF Flush

(* A flush adds the buffer to the files, or nothing.                        *)
LEMMA FlushRows ==
    ASSUME TypeOK, NEW compact
    PROVE  /\ Flush(compact).stored \in {stored, stored \cup buffer}
           /\ ~Flush(compact).ok => Flush(compact).stored = stored /\ buffer # {}
           /\ buffer = {} => Flush(compact) = NoFlush
  BY DEF Flush, NoFlush

-----------------------------------------------------------------------------
(* What the theorems rest on. Valid: the constraints hold for a set of      *)
(* rows; Covers and Within: what a loaded cache c knows of the rows st.     *)
Valid(S) ==
    /\ schema.primary => Null \notin KeysOf(S)
    /\ ~Duplicates(Compared(S))
    /\ ChecksOk(S) /\ ReferencesOk(S)
Covers(c, st) == c.loaded => KeysOf(Compared(st)) \subseteq c.keys
Within(c, st) == c.loaded => c.keys \subseteq KeysOf(Compared(st))

(* Only a table with a foreign key can hold orphans.                        *)
Orphans ==
    \A r \in stored \cup buffer \cup base \cup backup.rows :
        r.flaw = "orphan" => schema.foreign

(* The files of BEGIN are among the files; foreign keys are not buffered.   *)
Places == base \subseteq stored /\ (schema.foreign => buffer = {})

(* What ROLLBACK would write back satisfies the constraints, too.           *)
BackupValid == waived = {} => Valid(backup.rows)

(* The flush of an accepted buffer would validate it again with success.    *)
BufferPasses ==
    ~mixed /\ buffer # {} => ValidateBatch(buffer, narrow, cache, stored).ok

IInv ==
    /\ TypeOK /\ CacheExact /\ StoredValid /\ AcceptedIsWritten /\ RefusedLeavesNothing
    /\ Orphans /\ Places /\ BackupValid /\ BufferPasses

(* The constraint is that of every part, and of the union of rows whose     *)
(* keys do not meet.                                                        *)
LEMMA ValidPart == ASSUME NEW S, Valid(S), NEW T \in SUBSET S PROVE Valid(T)
  BY DEF Valid, KeysOf, Compared, Duplicates, ChecksOk, ReferencesOk

LEMMA ValidUnion ==
    ASSUME NEW S, NEW T, Valid(S), BatchKeysOk(T), ChecksOk(T), ReferencesOk(T),
           KeysOf(Compared(T)) \cap KeysOf(Compared(S)) = {}
    PROVE  Valid(S \cup T)
  <1>1. schema.primary => Null \notin KeysOf(S \cup T)
    <2>1. KeysOf(S \cup T) = KeysOf(S) \cup KeysOf(T)
      BY KeysUnion
    <2> QED
      BY <2>1 DEF Valid, BatchKeysOk
  <1>2. ChecksOk(S \cup T) /\ ReferencesOk(S \cup T)
    BY DEF Valid, ChecksOk, ReferencesOk
  <1>3. ~Duplicates(Compared(S \cup T))
    <2> SUFFICES ASSUME NEW r \in Compared(S \cup T), NEW s \in Compared(S \cup T),
                        r # s, r.key = s.key
                 PROVE  FALSE
      BY DEF Duplicates
    <2>1. r \in Compared(S) \cup Compared(T) /\ s \in Compared(S) \cup Compared(T)
      BY ComparedUnion
    <2>2. ~(r \in Compared(S) /\ s \in Compared(S))
      BY DEF Valid, Duplicates
    <2>3. ~(r \in Compared(T) /\ s \in Compared(T))
      BY DEF BatchKeysOk, Duplicates
    <2> QED
      BY <2>1, <2>2, <2>3 DEF KeysOf
  <1> QED
    BY <1>1, <1>2, <1>3 DEF Valid

LEMMA ValidatedValid ==
    ASSUME NEW S, Validated(S) = {} PROVE Valid(S)
  <1>1. TableConstraintsOk(S) /\ ChecksOk(S)
    BY DEF Validated
  <1> QED
    BY <1>1 DEF TableConstraintsOk, Valid, Duplicates, Compared

(* Validating leaves a cache that is as exact as before, and validating     *)
(* again with it gives the same answer.                                     *)
LEMMA ValidateCache ==
    ASSUME NEW S, NEW n, NEW c, NEW st
    PROVE  /\ ValidateBatch(S, n, c, st).cache \in {c, EnsureLoaded(c, st)}
           /\ n => ValidateBatch(S, n, c, st).cache = c
  BY DEF ValidateBatch

LEMMA ValidateExact ==
    ASSUME NEW S, NEW n, NEW c, NEW st
    PROVE  /\ Covers(c, st) => Covers(ValidateBatch(S, n, c, st).cache, st)
           /\ Within(c, st) => Within(ValidateBatch(S, n, c, st).cache, st)
  BY ValidateCache DEF Covers, Within, EnsureLoaded

LEMMA ValidateAgain ==
    ASSUME NEW S, NEW T, NEW n \in BOOLEAN, NEW c, NEW st,
           ValidateBatch(S, n, c, st).ok
    PROVE  ValidateBatch(S, n, ValidateBatch(T, n, c, st).cache, st).ok
  <1> DEFINE d == ValidateBatch(T, n, c, st).cache
  <1>1. d \in {c, EnsureLoaded(c, st)}
    BY ValidateCache
  <1>2. EnsureLoaded(d, st) = EnsureLoaded(c, st)
    BY <1>1 DEF EnsureLoaded
  <1> HIDE DEF d
  <1>3. CASE n
    BY <1>3, ValidateOk
  <1>4. CASE ~n
    <2>1. BatchKeysOk(S) /\ ChecksOk(S)
      BY <1>4, ValidateOk
    <2>2. Unseen(S, ValidateBatch(S, n, d, st).cache)
      <3>1. CASE Compared(S) = {}
        BY <3>1 DEF Unseen, KeysOf
      <3>2. CASE Compared(S) # {}
        <4>1. ValidateBatch(S, n, c, st).cache = EnsureLoaded(c, st)
          BY <1>4, <2>1, <3>2, ValidateOk
        <4>2. ValidateBatch(S, n, d, st).cache = EnsureLoaded(c, st)
          BY <1>4, <2>1, <3>2, <1>2, ValidateOk
        <4>3. Unseen(S, ValidateBatch(S, n, c, st).cache)
          BY <1>4, ValidateOk
        <4> QED
          BY <4>1, <4>2, <4>3
      <3> QED
        BY <3>1, <3>2
    <2>3. ValidateBatch(S, n, d, st).ok <=>
             BatchKeysOk(S) /\ ChecksOk(S) /\ Unseen(S, ValidateBatch(S, n, d, st).cache)
      BY <1>4, ValidateOk
    <2> QED
      BY <2>1, <2>2, <2>3 DEF d
  <1> QED
    BY <1>3, <1>4 DEF d

(* An accepted batch is written and its keys merged: the cache stays exact, *)
(* unless the batch came without the key column, and the rows stay valid.   *)
LEMMA MergeNothing ==
    ASSUME NEW S, NEW n, NEW c, NEW st, n \/ KeysOf(Compared(S)) = {}
    PROVE  LET v == ValidateBatch(S, n, c, st) IN MergeKeys(v.cache, v.keys) = c
  <1> DEFINE v == ValidateBatch(S, n, c, st)
  <1>1. v.keys = {}
    BY ValidateOk
  <1>2. KeysOf(Compared(S)) = {} => Compared(S) = {}
    BY DEF KeysOf
  <1>3. v.cache = c
    BY <1>2, ValidateOk
  <1> HIDE DEF v
  <1> QED
    BY <1>1, <1>3 DEF MergeKeys, v

LEMMA MergeAll ==
    ASSUME NEW S, NEW n, NEW c, NEW st, ~n, KeysOf(Compared(S)) # {},
           ValidateBatch(S, n, c, st).ok
    PROVE  LET v == ValidateBatch(S, n, c, st)
           IN  MergeKeys(v.cache, v.keys) =
                 [loaded |-> TRUE,
                  keys |-> EnsureLoaded(c, st).keys \cup KeysOf(Compared(S))]
  <1> DEFINE v == ValidateBatch(S, n, c, st)
  <1>1. BatchKeysOk(S) /\ Compared(S) # {}
    BY ValidateOk DEF KeysOf
  <1>2. v.cache = EnsureLoaded(c, st) /\ v.keys = KeysOf(Compared(S))
    BY <1>1, ValidateOk
  <1> HIDE DEF v
  <1> QED
    BY <1>2 DEF MergeKeys, v

LEMMA WriteExact ==
    ASSUME NEW S, NEW n, NEW c, NEW st, ValidateBatch(S, n, c, st).ok
    PROVE  LET v == ValidateBatch(S, n, c, st)
               m == MergeKeys(v.cache, v.keys)
           IN  /\ Covers(c, st) /\ (~n \/ S \subseteq st) => Covers(m, st \cup S)
               /\ Within(c, st) => Within(m, st \cup S)
  <1> DEFINE v == ValidateBatch(S, n, c, st)
             m == MergeKeys(v.cache, v.keys)
             K(T) == KeysOf(Compared(T))
  <1>1. K(st \cup S) = K(st) \cup K(S) /\ (S \subseteq st => st \cup S = st)
    BY ComparedKeysUnion
  <1>2. CASE n \/ K(S) = {}
    <2>1. m = c
      BY <1>2, MergeNothing
    <2> HIDE DEF m, K
    <2> QED
      BY <1>1, <1>2, <2>1 DEF Covers, Within, K, m
  <1>3. CASE ~n /\ K(S) # {}
    <2>1. m = [loaded |-> TRUE, keys |-> EnsureLoaded(c, st).keys \cup K(S)]
      BY <1>3, MergeAll
    <2>2. /\ Covers(c, st) => K(st) \subseteq EnsureLoaded(c, st).keys
          /\ Within(c, st) => EnsureLoaded(c, st).keys \subseteq K(st)
      BY DEF Covers, Within, EnsureLoaded
    <2> HIDE DEF m, K
    <2> QED
      BY <1>1, <2>1, <2>2 DEF Covers, Within, K, m
  <1> QED
    BY <1>2, <1>3

LEMMA WriteValid ==
    ASSUME NEW S, NEW c, NEW st, Covers(c, st),
           ValidateBatch(S, FALSE, c, st).ok, Valid(st), ReferencesOk(S)
    PROVE  Valid(st \cup S)
  <1>1. BatchKeysOk(S) /\ ChecksOk(S)
    BY DEF ValidateBatch
  <1>2. CASE Compared(S) = {}
    BY <1>1, <1>2, ValidUnion DEF KeysOf
  <1>3. CASE Compared(S) # {}
    <2>1. Unseen(S, EnsureLoaded(c, st))
      BY <1>1, <1>3 DEF ValidateBatch
    <2>2. KeysOf(Compared(st)) \subseteq EnsureLoaded(c, st).keys
      BY DEF Covers, EnsureLoaded
    <2> QED
      BY <1>1, <2>1, <2>2, ValidUnion DEF Unseen
  <1> QED
    BY <1>2, <1>3
-----------------------------------------------------------------------------
(* What a statement finds after its flush, if it flushes.                   *)
LEMMA Flushing ==
    ASSUME IInv, NEW f, NEW compact, f = NoFlush \/ f = Flush(compact)
    PROVE  /\ f \in Flushed
           /\ f.stored \in {stored, stored \cup buffer}
           /\ ~f.ok => f.stored = stored /\ mixed
  <1>1. NoFlush \in Flushed /\ NoFlush.stored = stored /\ NoFlush.ok
    BY DEF IInv, TypeOK, NoFlush, Flushed
  <1>2. Flush(compact) \in Flushed /\ Flush(compact).stored \in {stored, stored \cup buffer}
    BY FlushType, FlushRows DEF IInv
  <1>3. ASSUME ~Flush(compact).ok PROVE Flush(compact).stored = stored /\ mixed
    <2>1. Flush(compact).stored = stored /\ buffer # {}
      BY <1>3, FlushRows DEF IInv
    <2>2. ~ValidateBatch(buffer, narrow, cache, stored).ok
      BY <1>3, <2>1 DEF Flush
    <2> QED
      BY <2>1, <2>2 DEF IInv, BufferPasses, TypeOK
  <1> QED
    BY <1>1, <1>2, <1>3

LEMMA FlushExact ==
    ASSUME IInv, NEW f, NEW compact, f = NoFlush \/ f = Flush(compact)
    PROVE  /\ ~bypassed /\ ~(f.stored # stored /\ narrow) => Covers(f.cache, f.stored)
           /\ ~stale => Within(f.cache, f.stored)
  <1> DEFINE v == ValidateBatch(buffer, narrow, cache, stored)
             m == MergeKeys(v.cache, v.keys)
  <1>1. (~bypassed => Covers(cache, stored)) /\ (~stale => Within(cache, stored))
    BY DEF IInv, CacheExact, Covers, Within
  <1>2. (~bypassed => Covers(v.cache, stored)) /\ (~stale => Within(v.cache, stored))
    BY <1>1, ValidateExact
  <1>3. CASE f = NoFlush
    BY <1>1, <1>3 DEF NoFlush
  <1>4. CASE f = Flush(compact) /\ buffer # {} /\ ~v.ok
    <2>1. f = [ok |-> FALSE, stored |-> stored, cache |-> v.cache]
      BY <1>4 DEF Flush
    <2> HIDE DEF v
    <2> QED
      BY <1>2, <2>1
  <1>5. CASE f = Flush(compact) /\ buffer # {} /\ v.ok
    <2>1. f.stored = stored \cup buffer /\ f.cache \in {NoCache, m}
      BY <1>5 DEF Flush, Invalidate
    <2>2. /\ ~bypassed /\ (~narrow \/ buffer \subseteq stored) => Covers(m, stored \cup buffer)
          /\ ~stale => Within(m, stored \cup buffer)
      BY <1>1, <1>5, WriteExact
    <2>3. Covers(NoCache, stored \cup buffer) /\ Within(NoCache, stored \cup buffer)
      BY DEF Covers, Within, NoCache
    <2> HIDE DEF m
    <2> QED
      BY <2>1, <2>2, <2>3
  <1> QED
    BY <1>3, <1>4, <1>5, FlushRows DEF IInv

LEMMA FlushValid ==
    ASSUME IInv, NEW f, NEW compact, f = NoFlush \/ f = Flush(compact),
           waived = {}, WaivedBy(f) = {}
    PROVE  Valid(f.stored)
  <1>1. Valid(stored)
    BY DEF IInv, StoredValid, Valid
  <1>2. CASE f.stored = stored
    BY <1>1, <1>2
  <1>3. CASE f.stored # stored
    <2>1. ~narrow /\ ~bypassed
      BY <1>3 DEF WaivedBy
    <2>2. f = Flush(compact) /\ buffer # {} /\ f.stored = stored \cup buffer
      BY <1>3, Flushing, FlushRows DEF NoFlush, IInv
    <2>3. ValidateBatch(buffer, FALSE, cache, stored).ok
      BY <1>3, <2>1, <2>2 DEF Flush, IInv, TypeOK
    <2>4. ReferencesOk(buffer)
      BY <2>2 DEF IInv, Orphans, Places, ReferencesOk
    <2>5. Covers(cache, stored)
      BY <2>1 DEF IInv, CacheExact, Covers
    <2> QED
      BY <1>1, <2>2, <2>3, <2>4, <2>5, WriteValid
  <1> QED
    BY <1>2, <1>3

(* The invariants of the next state, of primed variables.                   *)
LEMMA NextValues ==
    ASSUME schema' = schema
    PROVE  /\ (~bypassed' => Covers(cache', stored')) /\ (~stale' => Within(cache', stored'))
              => CacheExact'
           /\ (waived' = {} => Valid(stored')) => StoredValid'
           /\ (waived' = {} => Valid(backup'.rows)) => BackupValid'
  <1>1. (~bypassed' => Covers(cache', stored')) /\ (~stale' => Within(cache', stored'))
        => CacheExact'
    BY DEF Covers, Within, CacheExact, Compared, KeysOf
  <1>2. (waived' = {} => Valid(stored')) => StoredValid'
    BY DEF Valid, StoredValid, Compared, KeysOf, Duplicates, ChecksOk, ReferencesOk
  <1>3. (waived' = {} => Valid(backup'.rows)) => BackupValid'
    BY DEF Valid, BackupValid, Compared, KeysOf, Duplicates, ChecksOk, ReferencesOk
  <1> QED
    BY <1>1, <1>2, <1>3

LEMMA FlushRest ==
    ASSUME IInv, NEW f, NEW compact, f = NoFlush \/ f = Flush(compact)
    PROVE  /\ f.stored \in SUBSET Row /\ f.cache \in Cache
           /\ \A r \in f.stored : r.flaw = "orphan" => schema.foreign
           /\ base \subseteq f.stored
           /\ f.stored \subseteq stored \cup buffer
           /\ stored \subseteq f.stored
  BY Flushing DEF IInv, Orphans, Places, Flushed

-----------------------------------------------------------------------------
(* A statement that flushes, leaves the rows st and the cache c, and keeps, *)
(* drops or renews the files of BEGIN and the backup.                       *)
Step(compact, f, st, c, unmerged, gone, why) ==
    /\ f = Flush(compact)
    /\ Statement(f, st, c, unmerged, gone, why)
    /\ why \in SUBSET {"unchecked", "refused"}
    /\ f.ok => /\ st \in SUBSET Row
               /\ \A r \in st : r.flaw = "orphan" => schema.foreign
               /\ c = NoCache \/ (/\ c = f.cache
                                  /\ unmerged \/ st \subseteq f.stored
                                  /\ gone \/ f.stored \subseteq st)
               /\ why = {} /\ waived = {} /\ Valid(f.stored) => Valid(st)
               /\ base' \subseteq st
    /\ base' \in {base, {}, f.stored} /\ (~f.ok => base' = base)
    /\ backup' \in {backup, NoBackup, [has |-> TRUE, rows |-> f.stored]}
    /\ inTxn' \in BOOLEAN

LEMMA StatementStep ==
    ASSUME IInv, NEW compact, NEW f, NEW st, NEW c, NEW unmerged, NEW gone, NEW why,
           Step(compact, f, st, c, unmerged, gone, why)
    PROVE  IInv'
  <1> USE DEF Step
  <1>1. /\ f \in Flushed
        /\ f.stored \in {stored, stored \cup buffer}
        /\ ~f.ok => f.stored = stored /\ mixed
    BY Flushing
  <1>2. /\ stored' = IF f.ok THEN st ELSE f.stored
        /\ cache' = IF f.ok THEN c ELSE f.cache
        /\ buffer' = {} /\ narrow' = FALSE /\ refused' = {}
        /\ mixed' = mixed /\ schema' = schema
        /\ lost' = (lost \/ ~f.ok)
        /\ waived' = waived \cup WaivedBy(f) \cup (IF f.ok THEN why ELSE {})
    BY DEF Statement, Ghosts
  <1>3. /\ bypassed' \in BOOLEAN /\ stale' \in BOOLEAN
        /\ ~bypassed' /\ cache'.loaded =>
             ~bypassed /\ ~(f.ok /\ unmerged) /\ ~(f.stored # stored /\ narrow)
        /\ ~stale' /\ cache'.loaded => ~stale /\ ~(f.ok /\ gone)
    BY DEF Statement, Ghosts
  <1>4. NoCache \in Cache /\ ~NoCache.loaded
    BY DEF NoCache, Cache
  <1>5. WaivedBy(f) \subseteq {"unchecked", "refused"}
    BY DEF WaivedBy
  <1>6. waived' = {} => Valid(f.stored)
    BY <1>2, FlushValid
  <1>7. TypeOK'
    <2>1. stored' \in SUBSET Row /\ cache' \in Cache
      BY <1>1, <1>2, <1>4 DEF Flushed
    <2>2. base' \in SUBSET Row
      BY <1>1 DEF Flushed, IInv, TypeOK
    <2>3. backup' \in [has : BOOLEAN, rows : SUBSET Row]
      <3>1. NoBackup \in [has : BOOLEAN, rows : SUBSET Row]
        BY DEF NoBackup
      <3>2. [has |-> TRUE, rows |-> f.stored] \in [has : BOOLEAN, rows : SUBSET Row]
        BY <1>1 DEF Flushed
      <3> QED
        BY <3>1, <3>2 DEF IInv, TypeOK
    <2>4. /\ waived' \in SUBSET {"unchecked", "refused"} /\ lost' \in BOOLEAN
          /\ schema' \in Schema /\ mixed' \in BOOLEAN
      BY <1>1, <1>2, <1>5 DEF Flushed, IInv, TypeOK
    <2> QED
      BY <1>2, <1>3, <2>1, <2>2, <2>3, <2>4 DEF TypeOK
  <1>8. CacheExact'
    <2>1. /\ ~bypassed /\ ~(f.stored # stored /\ narrow) => Covers(f.cache, f.stored)
          /\ ~stale => Within(f.cache, f.stored)
      BY FlushExact
    <2>2. CASE ~cache'.loaded
      BY <2>2, <1>2, NextValues DEF Covers, Within
    <2>3. CASE cache'.loaded
      <3>1. cache' = f.cache
        BY <2>3, <1>2, <1>4
      <3>2. /\ ~bypassed' => stored' \subseteq f.stored
            /\ ~stale' => f.stored \subseteq stored'
        BY <2>3, <1>2, <1>3, <1>4
      <3>3. /\ ~bypassed' => KeysOf(Compared(stored')) \subseteq KeysOf(Compared(f.stored))
            /\ ~stale' => KeysOf(Compared(f.stored)) \subseteq KeysOf(Compared(stored'))
        BY <3>2, KeysGrow
      <3>4. /\ ~bypassed' => Covers(cache', stored')
            /\ ~stale' => Within(cache', stored')
        BY <1>3, <2>1, <2>3, <3>1, <3>3 DEF Covers, Within
      <3> QED
        BY <1>2, <3>4, NextValues
    <2> QED
      BY <2>2, <2>3
  <1>9. StoredValid'
    BY <1>2, <1>6, NextValues
  <1>10. BackupValid'
    <2>1. Valid(NoBackup.rows)
      BY DEF NoBackup, Valid, KeysOf, Compared, Duplicates, ChecksOk, ReferencesOk
    <2>2. waived' = {} => Valid(backup.rows)
      BY <1>2 DEF IInv, BackupValid
    <2> QED
      BY <1>2, <1>6, <2>1, <2>2, NextValues
  <1>11. AcceptedIsWritten'
    BY <1>1, <1>2 DEF AcceptedIsWritten, IInv, TypeOK
  <1>12. Orphans'
    <2>1. \A r \in f.stored : r.flaw = "orphan" => schema.foreign
      BY FlushRest
    <2>2. backup'.rows \in {backup.rows, {}, f.stored}
      BY DEF NoBackup
    <2> QED
      BY <1>2, <2>1, <2>2 DEF Orphans, IInv
  <1>13. Places'
    BY <1>1, <1>2 DEF Places, IInv
  <1>14. RefusedLeavesNothing' /\ BufferPasses'
    BY <1>2 DEF RefusedLeavesNothing, BufferPasses
  <1> QED
    BY <1>7, <1>8, <1>9, <1>10, <1>11, <1>12, <1>13, <1>14 DEF IInv

LEMMA HandleFlushStep ==
    ASSUME IInv, NEW compact, HandleFlush(compact) PROVE IInv'
  <1> DEFINE f == Flush(compact)
  <1>1. /\ Statement(f, f.stored, f.cache, FALSE, FALSE, {})
        /\ UNCHANGED <<inTxn, base, backup>>
    BY DEF HandleFlush, txnVars
  <1>2. /\ f \in Flushed /\ f.stored \in SUBSET Row
        /\ \A r \in f.stored : r.flaw = "orphan" => schema.foreign
        /\ base \subseteq f.stored
    BY Flushing, FlushRest
  <1>3. Step(compact, f, f.stored, f.cache, FALSE, FALSE, {})
    <2>1. inTxn \in BOOLEAN /\ f = Flush(compact) /\ f.ok \in BOOLEAN
      BY <1>2 DEF IInv, TypeOK, Flushed
    <2> HIDE DEF f
    <2> QED
      BY <1>1, <1>2, <2>1 DEF Step
  <1> QED
    BY <1>3, StatementStep

LEMMA HandleBeginStep ==
    ASSUME IInv, NEW compact, HandleBegin(compact) PROVE IInv'
  <1> DEFINE f == Flush(compact)
  <1>1. /\ Statement(f, f.stored, f.cache, FALSE, FALSE, {})
        /\ inTxn' = f.ok /\ base' = (IF f.ok THEN f.stored ELSE base)
        /\ backup' = backup
    BY DEF HandleBegin
  <1>2. /\ f \in Flushed /\ f.stored \in SUBSET Row
        /\ \A r \in f.stored : r.flaw = "orphan" => schema.foreign
        /\ base \subseteq f.stored
    BY Flushing, FlushRest
  <1>3. Step(compact, f, f.stored, f.cache, FALSE, FALSE, {})
    <2>1. inTxn \in BOOLEAN /\ f = Flush(compact) /\ f.ok \in BOOLEAN
      BY <1>2 DEF IInv, TypeOK, Flushed
    <2> HIDE DEF f
    <2> QED
      BY <1>1, <1>2, <2>1 DEF Step
  <1> QED
    BY <1>3, StatementStep

LEMMA HandleTruncateStep ==
    ASSUME IInv, NEW compact, HandleTruncate(compact) PROVE IInv'
  <1> DEFINE f == Flush(compact)
  <1>1. /\ Statement(f, {}, NoCache, FALSE, FALSE, {})
        /\ inTxn' = inTxn /\ backup' = backup
        /\ base' = IF f.ok THEN {} ELSE base
    BY DEF HandleTruncate, Rewritten, Invalidate
  <1>2. /\ f \in Flushed /\ f.stored \in SUBSET Row
        /\ \A r \in f.stored : r.flaw = "orphan" => schema.foreign
        /\ base \subseteq f.stored
    BY Flushing, FlushRest
  <1>4. Valid({})
    BY DEF Valid, KeysOf, Compared, Duplicates, ChecksOk, ReferencesOk
  <1>3. Step(compact, f, {}, NoCache, FALSE, FALSE, {})
    <2>1. inTxn \in BOOLEAN /\ f = Flush(compact) /\ f.ok \in BOOLEAN
      BY <1>2 DEF IInv, TypeOK, Flushed
    <2> HIDE DEF f
    <2> QED
      BY <1>1, <1>2, <2>1, <1>4 DEF Step
  <1> QED
    BY <1>3, StatementStep

LEMMA HandleCopyFromStep ==
    ASSUME IInv, NEW S \in SUBSET Row, NEW compact, HandleCopyFrom(S, compact) PROVE IInv'
  <1> DEFINE f == Flush(compact)
  <1>1. /\ Statement(f, f.stored \cup S, f.cache, TRUE, FALSE, Validated(f.stored \cup S))
        /\ UNCHANGED <<inTxn, base, backup>>
    BY DEF HandleCopyFrom, txnVars
  <1>2. /\ f \in Flushed /\ f.stored \in SUBSET Row
        /\ \A r \in f.stored : r.flaw = "orphan" => schema.foreign
        /\ base \subseteq f.stored
    BY Flushing, FlushRest
  <1>4. /\ Validated(f.stored \cup S) \in SUBSET {"unchecked", "refused"}
        /\ Validated(f.stored \cup S) = {} => Valid(f.stored \cup S)
        /\ \A r \in S : r.flaw = "orphan" => schema.foreign
    BY ValidatedValid DEF HandleCopyFrom, Fresh, Validated
  <1>3. Step(compact, f, f.stored \cup S, f.cache, TRUE, FALSE, Validated(f.stored \cup S))
    <2>1. inTxn \in BOOLEAN /\ f = Flush(compact) /\ f.ok \in BOOLEAN
      BY <1>2 DEF IInv, TypeOK, Flushed
    <2> HIDE DEF f
    <2> QED
      BY <1>1, <1>2, <2>1, <1>4 DEF Step
  <1> QED
    BY <1>3, StatementStep

LEMMA HandleMergeInsertStep ==
    ASSUME IInv, NEW r \in Row, NEW compact, HandleMergeInsert(r, compact) PROVE IInv'
  <1> DEFINE f == Flush(compact)
  <1>1. /\ Statement(f, f.stored \cup {r}, f.cache, TRUE, FALSE, {"refused"})
        /\ UNCHANGED <<inTxn, base, backup>>
    BY DEF HandleMergeInsert, txnVars
  <1>2. /\ f \in Flushed /\ f.stored \in SUBSET Row
        /\ \A s \in f.stored : s.flaw = "orphan" => schema.foreign
        /\ base \subseteq f.stored
    BY Flushing, FlushRest
  <1>4. r.flaw = "orphan" => schema.foreign
    BY DEF HandleMergeInsert, Fresh
  <1>3. Step(compact, f, f.stored \cup {r}, f.cache, TRUE, FALSE, {"refused"})
    <2>1. inTxn \in BOOLEAN /\ f = Flush(compact) /\ f.ok \in BOOLEAN
      BY <1>2 DEF IInv, TypeOK, Flushed
    <2> HIDE DEF f
    <2> QED
      BY <1>1, <1>2, <2>1, <1>4 DEF Step
  <1> QED
    BY <1>3, StatementStep

LEMMA HandleMergeMatchedStep ==
    ASSUME IInv, NEW r, NEW new \in SUBSET Row, NEW compact, HandleMergeMatched(r, new, compact) PROVE IInv'
  <1> DEFINE f == Flush(compact)
  <1>1. /\ Statement(f, (f.stored \ {r}) \cup new, NoCache, FALSE, FALSE, {"refused"})
        /\ \A s \in new : s.flaw = "orphan" => schema.foreign
        /\ inTxn' = inTxn /\ backup' = backup
        /\ base' = IF f.ok THEN {} ELSE base
    BY DEF HandleMergeMatched, Rewritten, Invalidate
  <1>2. /\ f \in Flushed /\ f.stored \in SUBSET Row
        /\ \A s \in f.stored : s.flaw = "orphan" => schema.foreign
        /\ base \subseteq f.stored
    BY Flushing, FlushRest
  <1>3. Step(compact, f, (f.stored \ {r}) \cup new, NoCache, FALSE, FALSE, {"refused"})
    <2>1. inTxn \in BOOLEAN /\ f = Flush(compact) /\ f.ok \in BOOLEAN
      BY <1>2 DEF IInv, TypeOK, Flushed
    <2> HIDE DEF f
    <2> QED
      BY <1>1, <1>2, <2>1 DEF Step
  <1> QED
    BY <1>3, StatementStep

LEMMA HandleUpdateStep ==
    ASSUME IInv, NEW r, NEW new \in Row, NEW compact, HandleUpdate(r, new, compact) PROVE IInv'
  <1> DEFINE f == Flush(compact)
  <1>1. /\ Statement(f, (f.stored \ {r}) \cup {new}, NoCache, FALSE, FALSE,
                      Validated((f.stored \ {r}) \cup {new}))
        /\ inTxn' = inTxn /\ base' = (IF f.ok THEN {} ELSE base)
        /\ backup' \in {backup, [has |-> TRUE, rows |-> f.stored]}
    BY DEF HandleUpdate, Rewritten, BackupTable, Invalidate
  <1>2. /\ f \in Flushed /\ f.stored \in SUBSET Row
        /\ \A s \in f.stored : s.flaw = "orphan" => schema.foreign
        /\ base \subseteq f.stored
    BY Flushing, FlushRest
  <1>4. /\ Validated((f.stored \ {r}) \cup {new}) \in SUBSET {"unchecked", "refused"}
        /\ Validated((f.stored \ {r}) \cup {new}) = {} => Valid((f.stored \ {r}) \cup {new})
        /\ new.flaw = "orphan" => schema.foreign
    BY ValidatedValid DEF HandleUpdate, Validated
  <1>3. Step(compact, f, (f.stored \ {r}) \cup {new}, NoCache, FALSE, FALSE,
                      Validated((f.stored \ {r}) \cup {new}))
    <2>1. inTxn \in BOOLEAN /\ f = Flush(compact) /\ f.ok \in BOOLEAN
      BY <1>2 DEF IInv, TypeOK, Flushed
    <2> HIDE DEF f
    <2> QED
      BY <1>1, <1>2, <2>1, <1>4 DEF Step
  <1> QED
    BY <1>3, StatementStep

LEMMA HandleDeleteStep ==
    ASSUME IInv, NEW keep, NEW compact, HandleDelete(keep, compact) PROVE IInv'
  <1> DEFINE f == Flush(compact)
  <1>1. /\ Statement(f, keep, NoCache, FALSE, FALSE, {})
        /\ keep \subseteq f.stored
        /\ inTxn' = inTxn /\ base' = (IF f.ok THEN {} ELSE base)
        /\ backup' \in {backup, [has |-> TRUE, rows |-> f.stored]}
    BY DEF HandleDelete, Rewritten, BackupTable, Invalidate
  <1>2. /\ f \in Flushed /\ f.stored \in SUBSET Row
        /\ \A r \in f.stored : r.flaw = "orphan" => schema.foreign
        /\ base \subseteq f.stored
    BY Flushing, FlushRest
  <1>4. Valid(f.stored) => Valid(keep)
    BY <1>1, ValidPart
  <1>3. Step(compact, f, keep, NoCache, FALSE, FALSE, {})
    <2>1. inTxn \in BOOLEAN /\ f = Flush(compact) /\ f.ok \in BOOLEAN
      BY <1>2 DEF IInv, TypeOK, Flushed
    <2> HIDE DEF f
    <2> QED
      BY <1>1, <1>2, <2>1, <1>4 DEF Step
  <1> QED
    BY <1>3, StatementStep

LEMMA HandleReorganizeStep ==
    ASSUME IInv, NEW invalidates \in BOOLEAN, NEW compact, HandleReorganize(invalidates, compact) PROVE IInv'
  <1> DEFINE f == Flush(compact)
  <1>1. /\ Statement(f, f.stored, IF invalidates THEN NoCache ELSE f.cache, FALSE, FALSE, {})
        /\ inTxn' = inTxn /\ base' = (IF f.ok THEN {} ELSE base)
        /\ backup' \in {backup, [has |-> TRUE, rows |-> f.stored]}
    BY DEF HandleReorganize, Rewritten, BackupTable, Invalidate
  <1>2. /\ f \in Flushed /\ f.stored \in SUBSET Row
        /\ \A r \in f.stored : r.flaw = "orphan" => schema.foreign
        /\ base \subseteq f.stored
    BY Flushing, FlushRest
  <1>3. Step(compact, f, f.stored, IF invalidates THEN NoCache ELSE f.cache, FALSE, FALSE, {})
    <2>1. inTxn \in BOOLEAN /\ f = Flush(compact) /\ f.ok \in BOOLEAN
      BY <1>2 DEF IInv, TypeOK, Flushed
    <2> HIDE DEF f
    <2> QED
      BY <1>1, <1>2, <2>1 DEF Step
  <1> QED
    BY <1>3, StatementStep

LEMMA HandleCommitStep ==
    ASSUME IInv, HandleCommit PROVE IInv'
  <1> DEFINE f == Flush(FALSE)
  <1>1. /\ Statement(f, f.stored, f.cache, FALSE, FALSE, {})
        /\ inTxn' = ~f.ok /\ base' = (IF f.ok THEN {} ELSE base)
        /\ backup' = (IF f.ok THEN NoBackup ELSE backup)
    BY DEF HandleCommit
  <1>2. /\ f \in Flushed /\ f.stored \in SUBSET Row
        /\ \A r \in f.stored : r.flaw = "orphan" => schema.foreign
        /\ base \subseteq f.stored
    BY Flushing, FlushRest
  <1>3. Step(FALSE, f, f.stored, f.cache, FALSE, FALSE, {})
    <2>1. inTxn \in BOOLEAN /\ f = Flush(FALSE) /\ f.ok \in BOOLEAN
      BY <1>2 DEF IInv, TypeOK, Flushed
    <2> HIDE DEF f
    <2> QED
      BY <1>1, <1>2, <2>1 DEF Step
  <1> QED
    BY <1>3, StatementStep

LEMMA HandleUpsertStep ==
    ASSUME IInv, NEW r \in Row, NEW changed \in BOOLEAN, NEW compact,
           HandleUpsert(r, changed, compact)
    PROVE  IInv'
  <1> DEFINE f == Flush(compact)
             hit == {s \in f.stored : s.key = r.key /\ r.key # Null}
             st == IF hit = {} THEN f.stored \cup {r}
                   ELSE IF changed
                   THEN (f.stored \ hit) \cup {[s EXCEPT !.flaw = r.flaw] : s \in hit}
                   ELSE f.stored
             c == IF hit # {} /\ changed THEN NoCache ELSE f.cache
  <1>1. /\ Statement(f, st, c, hit = {}, FALSE, Validated(st))
        /\ base' = IF hit # {} /\ changed /\ f.ok THEN {} ELSE base
        /\ UNCHANGED <<inTxn, backup>>
        /\ r.flaw = "orphan" => schema.foreign
    BY DEF HandleUpsert, Rewritten, Invalidate, Fresh
  <1>2. /\ f \in Flushed /\ f.stored \in SUBSET Row
        /\ \A s \in f.stored : s.flaw = "orphan" => schema.foreign
        /\ base \subseteq f.stored
    BY Flushing, FlushRest
  <1>3. st \in SUBSET Row /\ \A s \in st : s.flaw = "orphan" => schema.foreign
    <2>1. \A s \in hit : [s EXCEPT !.flaw = r.flaw] \in Row
                         /\ [s EXCEPT !.flaw = r.flaw].flaw = r.flaw
      BY <1>2 DEF Row
    <2> QED
      BY <1>1, <1>2, <2>1
  <1>4. /\ Validated(st) \in SUBSET {"unchecked", "refused"}
        /\ Validated(st) = {} => Valid(st)
    BY ValidatedValid DEF Validated
  <1>5. /\ c = NoCache \/ (c = f.cache /\ (hit = {} \/ st = f.stored) /\ f.stored \subseteq st)
        /\ (hit # {} /\ changed) \/ f.stored \subseteq st
    OBVIOUS
  <1>6. inTxn \in BOOLEAN /\ f = Flush(compact) /\ f.ok \in BOOLEAN
    BY <1>2 DEF IInv, TypeOK, Flushed
  <1> HIDE DEF f, st, c, hit
  <1>7. Step(compact, f, st, c, hit = {}, FALSE, Validated(st))
    BY <1>1, <1>2, <1>3, <1>4, <1>5, <1>6 DEF Step
  <1> QED
    BY <1>7, StatementStep

LEMMA HandleRollbackStep == ASSUME IInv, HandleRollback PROVE IInv'
  <1> DEFINE f == Flush(FALSE)
             st == IF backup.has THEN backup.rows ELSE base
             c == IF backup.has THEN NoCache ELSE f.cache
             gone == ~backup.has /\ base # f.stored
  <1>1. /\ Statement(f, st, c, FALSE, gone, {})
        /\ inTxn' = ~f.ok
        /\ base' = (IF f.ok THEN {} ELSE base)
        /\ backup' = (IF f.ok THEN NoBackup ELSE backup)
    BY DEF HandleRollback, Invalidate
  <1>2. /\ f \in Flushed /\ base \subseteq f.stored
    BY Flushing, FlushRest
  <1>3. /\ st \in SUBSET Row
        /\ \A r \in st : r.flaw = "orphan" => schema.foreign
    BY DEF IInv, TypeOK, Orphans
  <1>4. waived = {} /\ Valid(f.stored) => Valid(st)
    BY <1>2, ValidPart DEF IInv, BackupValid
  <1>5. c = NoCache \/ (c = f.cache /\ st \subseteq f.stored /\ (gone \/ f.stored \subseteq st))
    BY <1>2
  <1>6. f = Flush(FALSE) /\ f.ok \in BOOLEAN
    BY <1>2 DEF Flushed
  <1> HIDE DEF f, st, c, gone
  <1>7. Step(FALSE, f, st, c, FALSE, gone, {})
    BY <1>1, <1>2, <1>3, <1>4, <1>5, <1>6 DEF Step
  <1> QED
    BY <1>7, StatementStep

-----------------------------------------------------------------------------
(* The two ways of a plain INSERT.                                          *)
LEMMA HandleInsertBufferedStep ==
    ASSUME IInv, NEW r \in Row, NEW isNarrow \in BOOLEAN, NEW compact,
           HandleInsertBuffered(r, isNarrow, compact)
    PROVE  IInv'
  <1> DEFINE change == buffer # {} /\ narrow # isNarrow
             f == IF change THEN Flush(compact) ELSE NoFlush
             rest == IF change THEN {} ELSE buffer
             S == rest \cup {r}
             v == ValidateBatch(S, isNarrow, f.cache, f.stored)
  <1>1. /\ ~schema.foreign /\ Fresh(r)
        /\ stored' = f.stored
        /\ buffer' = IF f.ok THEN (IF v.ok THEN S ELSE rest) ELSE {}
        /\ narrow' = IF f.ok THEN isNarrow ELSE FALSE
        /\ cache' = IF f.ok THEN v.cache ELSE f.cache
        /\ refused' = IF f.ok /\ v.ok THEN {} ELSE {r}
        /\ UNCHANGED <<inTxn, base, backup, mixed>>
    BY DEF HandleInsertBuffered, BufferAfter, RowsToValidate, txnVars
  <1>2. /\ schema' = schema
        /\ lost' = (lost \/ ~f.ok)
        /\ waived' = waived \cup WaivedBy(f)
        /\ bypassed' \in BOOLEAN /\ stale' \in BOOLEAN
        /\ ~bypassed' /\ cache'.loaded => ~bypassed /\ ~(f.stored # stored /\ narrow)
        /\ ~stale' /\ cache'.loaded => ~stale
    BY DEF HandleInsertBuffered, Ghosts
  <1>3. /\ f = NoFlush \/ f = Flush(compact)
        /\ ~change => f = NoFlush
    OBVIOUS
  <1>4. /\ f \in Flushed
        /\ f.stored \in {stored, stored \cup buffer}
        /\ ~f.ok => f.stored = stored /\ mixed
        /\ f.stored \in SUBSET Row /\ f.cache \in Cache
        /\ base \subseteq f.stored
    BY <1>3, Flushing, FlushRest
  <1>5. waived' = {} => Valid(f.stored)
    BY <1>2, <1>3, FlushValid
  <1>6. rest \subseteq buffer /\ S \in SUBSET Row
    BY DEF IInv, TypeOK
  <1>7. v \in Checked
    BY <1>4, <1>6, ValidateType DEF IInv
  <1>8. f.ok \in BOOLEAN /\ v.ok \in BOOLEAN
    BY <1>4, <1>7 DEF Flushed, Checked
  <1> HIDE DEF f, v
  <1>9. TypeOK'
    <2>1. stored' \in SUBSET Row /\ cache' \in Cache
      BY <1>1, <1>4, <1>7 DEF Checked
    <2>2. buffer' \in SUBSET Row /\ refused' \in SUBSET Row /\ narrow' \in BOOLEAN
      BY <1>1, <1>6 DEF IInv, TypeOK
    <2>3. waived' \in SUBSET {"unchecked", "refused"}
      BY <1>2 DEF IInv, TypeOK, WaivedBy
    <2>4. lost' \in BOOLEAN
      BY <1>2, <1>8 DEF IInv, TypeOK
    <2> QED
      BY <1>1, <1>2, <2>1, <2>2, <2>3, <2>4 DEF IInv, TypeOK
  <1>10. CacheExact'
    <2>1. /\ ~bypassed /\ ~(f.stored # stored /\ narrow) => Covers(f.cache, f.stored)
          /\ ~stale => Within(f.cache, f.stored)
      BY <1>3, FlushExact
    <2>2. /\ ~bypassed /\ ~(f.stored # stored /\ narrow) => Covers(v.cache, f.stored)
          /\ ~stale => Within(v.cache, f.stored)
      BY <2>1, ValidateExact DEF v
    <2>3. /\ ~bypassed' => Covers(cache', stored')
          /\ ~stale' => Within(cache', stored')
      BY <1>1, <1>2, <2>1, <2>2 DEF Covers, Within
    <2> QED
      BY <1>2, <2>3, NextValues
  <1>11. StoredValid'
    BY <1>1, <1>2, <1>5, NextValues
  <1>12. BackupValid'
    BY <1>1, <1>2, NextValues DEF IInv, BackupValid
  <1>13. AcceptedIsWritten'
    BY <1>1, <1>2, <1>4, <1>8 DEF IInv, AcceptedIsWritten, TypeOK
  <1>14. RefusedLeavesNothing'
    <2>1. r \notin stored /\ r \notin buffer
      BY <1>1 DEF Fresh
    <2> QED
      BY <1>1, <1>4, <1>6, <2>1 DEF RefusedLeavesNothing
  <1>15. Orphans'
    <2>1. r.flaw # "orphan"
      BY <1>1 DEF Fresh
    <2> QED
      BY <1>1, <1>2, <1>4, <1>6, <2>1 DEF IInv, Orphans
  <1>16. Places'
    BY <1>1, <1>2, <1>4 DEF Places, IInv
  <1>17. BufferPasses'
    <2> SUFFICES ASSUME ~mixed, buffer' # {}
                 PROVE  ValidateBatch(buffer', narrow', cache', stored').ok
      BY <1>1, <1>2 DEF BufferPasses, ValidateBatch, TableConstraintsOk, BatchKeysOk,
         Unseen, ChecksOk, ReferencesOk, EnsureLoaded, KeysOf, Compared, Duplicates
    <2>1. f.ok /\ narrow' = isNarrow /\ cache' = v.cache /\ stored' = f.stored
      BY <1>1
    <2>2. CASE v.ok
      <3>1. buffer' = S
        BY <1>1, <2>1, <2>2
      <3>2. ValidateBatch(S, isNarrow, v.cache, f.stored).ok
        BY <2>2, ValidateAgain DEF v
      <3> QED
        BY <2>1, <3>1, <3>2
    <2>3. CASE ~v.ok
      <3>1. buffer' = rest
        BY <1>1, <2>1, <2>3
      <3>2. ~change /\ narrow = isNarrow
        BY <3>1
      <3>3. rest = buffer /\ f.cache = cache /\ f.stored = stored
        BY <1>3, <3>2 DEF NoFlush
      <3>4. ValidateBatch(rest, isNarrow, f.cache, f.stored).ok
        BY <3>1, <3>2, <3>3 DEF IInv, BufferPasses
      <3>5. ValidateBatch(rest, isNarrow, v.cache, f.stored).ok
        BY <3>4, ValidateAgain DEF v
      <3> QED
        BY <2>1, <3>1, <3>5
    <2> QED
      BY <1>8, <2>2, <2>3
  <1> QED
    BY <1>9, <1>10, <1>11, <1>12, <1>13, <1>14, <1>15, <1>16, <1>17 DEF IInv

LEMMA HandleInsertImmediateStep ==
    ASSUME IInv, NEW r \in Row, NEW isNarrow \in BOOLEAN,
           HandleInsertImmediate(r, isNarrow)
    PROVE  IInv'
  <1> DEFINE v == ValidateBatch({r}, isNarrow, cache, stored)
             done == v.ok /\ ReferencesOk(stored \cup {r})
             m == MergeKeys(v.cache, v.keys)
             unmerged == v.ok /\ (isNarrow \/ ~done)
  <1>1. /\ Fresh(r)
        /\ stored' = IF v.ok THEN stored \cup {r} ELSE stored
        /\ cache' = IF done THEN m ELSE v.cache
        /\ refused' = IF done THEN {} ELSE {r}
        /\ mixed' = (mixed \/ buffer # {})
        /\ UNCHANGED <<buffer, narrow, inTxn, base, backup>>
    BY DEF HandleInsertImmediate, txnVars
  <1>2. /\ schema' = schema /\ lost' = lost
        /\ waived \subseteq waived' /\ waived' \subseteq waived \cup {"unchecked", "refused"}
        /\ waived' = {} /\ v.ok => ~isNarrow /\ ~bypassed /\ done
        /\ bypassed' \in BOOLEAN /\ stale' \in BOOLEAN
        /\ ~bypassed' /\ cache'.loaded => ~bypassed /\ ~unmerged
        /\ ~stale' /\ cache'.loaded => ~stale
    <2>1. NoFlush.stored = stored /\ NoFlush.ok
      BY DEF NoFlush
    <2>2. Ghosts(NoFlush, cache', unmerged, FALSE,
                 (IF v.ok /\ (isNarrow \/ bypassed) THEN {"unchecked"} ELSE {})
                   \cup (IF v.ok /\ ~done THEN {"refused"} ELSE {}))
      BY DEF HandleInsertImmediate
    <2>3. WaivedBy(NoFlush) = {} /\ lost \in BOOLEAN
      BY <2>1 DEF WaivedBy, IInv, TypeOK
    <2> HIDE DEF v, done
    <2> QED
      BY <2>1, <2>2, <2>3 DEF Ghosts
  <1>3. v \in Checked
    BY ValidateType DEF IInv, TypeOK
  <1>4. v.ok \in BOOLEAN /\ v.cache \in Cache /\ m \in Cache
    BY <1>3, MergeType DEF Checked
  <1>5. waived' = {} => Valid(stored)
    BY <1>2 DEF IInv, StoredValid, Valid
  <1>6. ~schema.foreign => ReferencesOk(stored \cup {r})
    BY <1>1 DEF Fresh, IInv, Orphans, ReferencesOk
  <1>7. TypeOK'
    <2> HIDE DEF v, m, done
    <2>1. stored' \in SUBSET Row /\ cache' \in Cache
      BY <1>1, <1>4 DEF IInv, TypeOK
    <2>2. refused' \in SUBSET Row /\ mixed' \in BOOLEAN
      BY <1>1 DEF IInv, TypeOK
    <2> QED
      BY <1>1, <1>2, <2>1, <2>2 DEF IInv, TypeOK
  <1>8. CacheExact'
    <2>1. (~bypassed => Covers(cache, stored)) /\ (~stale => Within(cache, stored))
      BY DEF IInv, CacheExact, Covers, Within
    <2>2. (~bypassed => Covers(v.cache, stored)) /\ (~stale => Within(v.cache, stored))
      BY <2>1, ValidateExact
    <2>3. ASSUME v.ok
          PROVE  /\ ~bypassed /\ ~isNarrow => Covers(m, stored \cup {r})
                 /\ ~stale => Within(m, stored \cup {r})
      BY <2>1, <2>3, WriteExact
    <2>4. Within(v.cache, stored) => Within(v.cache, stored \cup {r})
      BY KeysGrow DEF Within
    <2> HIDE DEF v, m
    <2>5. CASE done
      <3>1. cache' = m /\ stored' = stored \cup {r}
        BY <1>1, <2>5
      <3>2. ~bypassed' /\ cache'.loaded => ~bypassed /\ ~isNarrow
        BY <1>2, <2>5
      <3>3. (~bypassed' => Covers(cache', stored')) /\ (~stale' => Within(cache', stored'))
        BY <1>2, <2>3, <2>5, <3>1, <3>2 DEF Covers, Within
      <3> QED
        BY <1>2, <3>3, NextValues
    <2>6. CASE ~done
      <3>1. cache' = v.cache
        BY <1>1, <2>6
      <3>2. ~bypassed' /\ cache'.loaded => ~bypassed /\ stored' = stored
        BY <1>1, <1>2, <2>6
      <3>3. ~stale' /\ cache'.loaded => Within(cache', stored')
        BY <1>1, <1>2, <2>2, <2>4, <3>1
      <3>4. (~bypassed' => Covers(cache', stored')) /\ (~stale' => Within(cache', stored'))
        BY <2>2, <3>1, <3>2, <3>3 DEF Covers, Within
      <3> QED
        BY <1>2, <3>4, NextValues
    <2> QED
      BY <2>5, <2>6
  <1>9. StoredValid'
    <2>1. ASSUME waived' = {}, v.ok PROVE Valid(stored \cup {r})
      <3>1. ~isNarrow /\ ~bypassed /\ ReferencesOk(stored \cup {r})
        BY <1>2, <2>1
      <3>2. ReferencesOk({r}) /\ Covers(cache, stored)
        BY <3>1 DEF ReferencesOk, IInv, CacheExact, Covers
      <3>3. ValidateBatch({r}, FALSE, cache, stored).ok
        BY <2>1, <3>1
      <3> QED
        BY <1>5, <2>1, <3>2, <3>3, WriteValid
    <2> HIDE DEF v
    <2>2. waived' = {} => Valid(stored')
      BY <1>1, <1>5, <2>1
    <2> QED
      BY <1>2, <2>2, NextValues
  <1>10. BackupValid'
    BY <1>1, <1>2, NextValues DEF IInv, BackupValid
  <1>11. AcceptedIsWritten'
    BY <1>1, <1>2 DEF IInv, AcceptedIsWritten, TypeOK
  <1>12. RefusedLeavesNothing'
    <2>1. r \notin stored /\ r \notin buffer
      BY <1>1 DEF Fresh
    <2>2. ~schema.foreign /\ ~done => ~v.ok
      BY <1>6
    <2> HIDE DEF v, done
    <2> QED
      BY <1>1, <1>2, <2>1, <2>2 DEF RefusedLeavesNothing
  <1>13. Orphans'
    <2>1. r.flaw = "orphan" => schema.foreign
      BY <1>1 DEF Fresh
    <2> HIDE DEF v
    <2> QED
      BY <1>1, <1>2, <2>1 DEF IInv, Orphans
  <1>14. Places'
    <2> HIDE DEF v
    <2> QED
      BY <1>1, <1>2 DEF Places, IInv
  <1>15. BufferPasses'
    BY <1>1 DEF BufferPasses, IInv, TypeOK
  <1> QED
    BY <1>7, <1>8, <1>9, <1>10, <1>11, <1>12, <1>13, <1>14, <1>15 DEF IInv

-----------------------------------------------------------------------------
(* The invariant is inductive.                                              *)
LEMMA InitInv == Init => IInv
  <1> SUFFICES ASSUME Init PROVE IInv
    OBVIOUS
  <1>1. TypeOK
    BY DEF Init, TypeOK, NoCache, Cache, NoBackup
  <1>2. CacheExact /\ AcceptedIsWritten /\ RefusedLeavesNothing
    BY DEF Init, CacheExact, NoCache, AcceptedIsWritten, RefusedLeavesNothing
  <1>3. StoredValid /\ BackupValid
    BY DEF Init, StoredValid, BackupValid, NoBackup, Valid, KeysOf, Duplicates, Compared,
       ChecksOk, ReferencesOk
  <1>4. Orphans /\ Places /\ BufferPasses
    BY DEF Init, NoBackup, Orphans, Places, BufferPasses
  <1> QED
    BY <1>1, <1>2, <1>3, <1>4 DEF IInv

LEMMA NextInv == IInv /\ [Next]_vars => IInv'
  <1> SUFFICES ASSUME IInv, [Next]_vars PROVE IInv'
    OBVIOUS
  <1>1. CASE UNCHANGED vars
    <2>1. /\ TypeOK' /\ CacheExact' /\ StoredValid' /\ AcceptedIsWritten'
          /\ RefusedLeavesNothing'
      BY <1>1 DEF vars, txnVars, ghosts, IInv, TypeOK, CacheExact, StoredValid,
         AcceptedIsWritten, RefusedLeavesNothing, KeysOf, Compared, Duplicates,
         ChecksOk, ReferencesOk
    <2>2. Orphans' /\ Places' /\ BackupValid' /\ BufferPasses'
      BY <1>1 DEF vars, txnVars, ghosts, IInv, Orphans, Places, BackupValid, Valid,
         BufferPasses, ValidateBatch, TableConstraintsOk, BatchKeysOk, Unseen, ChecksOk,
         ReferencesOk, EnsureLoaded, KeysOf, Compared, Duplicates
    <2> QED
      BY <2>1, <2>2 DEF IInv
  <1>2. ASSUME Next PROVE IInv'
    <2> SUFFICES ASSUME NEW compact \in {FALSE} \cup {buffer # {} /\ ~inTxn},
          \/ \E r \in Row, n \in BOOLEAN : HandleInsertBuffered(r, n, compact)
          \/ \E r \in Row, n \in BOOLEAN : HandleInsertImmediate(r, n)
          \/ HandleFlush(compact)
          \/ \E r, s \in Row : HandleCopyFrom({r, s}, compact)
          \/ \E r \in Row, changed \in BOOLEAN : HandleUpsert(r, changed, compact)
          \/ \E r \in stored \cup buffer, new \in Row : HandleUpdate(r, new, compact)
          \/ \E keep \in SUBSET (stored \cup buffer) : HandleDelete(keep, compact)
          \/ HandleTruncate(compact)
          \/ \E inv \in BOOLEAN : HandleReorganize(inv, compact)
          \/ \E r \in Row : HandleMergeInsert(r, compact)
          \/ \E r \in stored \cup buffer, new \in {{}} \cup {{s} : s \in Row} :
               HandleMergeMatched(r, new, compact)
          \/ HandleBegin(compact)
          \/ HandleCommit
          \/ HandleRollback
          PROVE  IInv'
      BY <1>2 DEF Next
    <2>1. ASSUME NEW r \in Row, NEW n \in BOOLEAN, HandleInsertBuffered(r, n, compact)
          PROVE  IInv'
      BY <2>1, HandleInsertBufferedStep
    <2>2. ASSUME NEW r \in Row, NEW n \in BOOLEAN, HandleInsertImmediate(r, n)
          PROVE  IInv'
      BY <2>2, HandleInsertImmediateStep
    <2>3. CASE HandleFlush(compact)
      BY <2>3, HandleFlushStep
    <2>4. ASSUME NEW r \in Row, NEW s \in Row, HandleCopyFrom({r, s}, compact)
          PROVE  IInv'
      <3>1. {r, s} \in SUBSET Row
        OBVIOUS
      <3> QED
        BY <2>4, <3>1, HandleCopyFromStep
    <2>5. ASSUME NEW r \in Row, NEW changed \in BOOLEAN, HandleUpsert(r, changed, compact)
          PROVE  IInv'
      BY <2>5, HandleUpsertStep
    <2>6. ASSUME NEW r \in stored \cup buffer, NEW new \in Row, HandleUpdate(r, new, compact)
          PROVE  IInv'
      BY <2>6, HandleUpdateStep
    <2>7. ASSUME NEW keep \in SUBSET (stored \cup buffer), HandleDelete(keep, compact)
          PROVE  IInv'
      BY <2>7, HandleDeleteStep
    <2>8. CASE HandleTruncate(compact)
      BY <2>8, HandleTruncateStep
    <2>9. ASSUME NEW inv \in BOOLEAN, HandleReorganize(inv, compact)
          PROVE  IInv'
      BY <2>9, HandleReorganizeStep
    <2>10. ASSUME NEW r \in Row, HandleMergeInsert(r, compact) PROVE IInv'
      BY <2>10, HandleMergeInsertStep
    <2>11. ASSUME NEW r \in stored \cup buffer, NEW new \in {{}} \cup {{s} : s \in Row},
                  HandleMergeMatched(r, new, compact)
           PROVE  IInv'
      <3>1. new \in SUBSET Row
        OBVIOUS
      <3> QED
        BY <2>11, <3>1, HandleMergeMatchedStep
    <2>12. CASE HandleBegin(compact)
      BY <2>12, HandleBeginStep
    <2>13. CASE HandleCommit
      BY <2>13, HandleCommitStep
    <2>14. CASE HandleRollback
      BY <2>14, HandleRollbackStep
    <2> QED
      BY <2>1, <2>2, <2>3, <2>4, <2>5, <2>6, <2>7, <2>8, <2>9, <2>10, <2>11, <2>12,
         <2>13, <2>14
  <1> QED
    BY <1>1, <1>2

(* What is stored, what the cache says and what the statements promised,   *)
(* for every set of keys, rows and every bound.                             *)
THEOREM Invariance == Spec => []IInv
  BY InitInv, NextInv, PTL DEF Spec

-----------------------------------------------------------------------------
(* Every variable keeps its type, under every statement of the module.      *)
THEOREM TypeCorrect == Spec => []TypeOK
  BY Invariance, PTL DEF IInv

(* uniqueness_cache: a loaded key set is that of the Parquet files, except  *)
(* for rows that COPY FROM, an upsert, MERGE or a refused INSERT wrote past *)
(* it and for files that a ROLLBACK deleted behind it.                      *)
THEOREM CacheIsExact == Spec => []CacheExact
  BY Invariance, PTL DEF IInv

(* Validating a batch by itself, with the rest of the buffer and against    *)
(* the cached keys adds up to the constraint on the whole table, until a    *)
(* statement that validates nothing or keeps what it refused.               *)
THEOREM TableValid == Spec => []StoredValid
  BY Invariance, PTL DEF IInv

(* flush_table never refuses the rows that handle_insert has accepted,      *)
(* unless an INSERT was written around a buffer with rows.                  *)
THEOREM AcceptedNotLost == Spec => []AcceptedIsWritten
  BY Invariance, PTL DEF IInv

(* An INSERT that returns an error leaves no row, foreign keys aside.       *)
THEOREM RefusedIsGone == Spec => []RefusedLeavesNothing
  BY Invariance, PTL DEF IInv
=============================================================================
