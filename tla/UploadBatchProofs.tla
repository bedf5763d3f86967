------------------------- MODULE UploadBatchProofs -------------------------
(***************************************************************************)
(* For any number of files, windows and times to live, and whatever fails: *)
(* as long as no flush outlives its lock, no file is lost by a flush, and  *)
(* none is submitted twice without cause.                                  *)
(***************************************************************************)
EXTENDS UploadBatch, SequenceTheorems, TLAPS

Holding == {"read", "submit", "trim", "clear", "unlock"}

\* Whoever is inside a flush has the lock.
LockInv == \A k \in Flushes : flush[k].at \in Holding => lock.by = k

\* A file comes into the list once.
ListInv ==
  /\ \A i \in DOMAIN files : files[i] \in pushed
  /\ \A i, j \in DOMAIN files : files[i] = files[j] => i = j
  /\ pushed \subseteq arrived /\ arrived \subseteq Files
  /\ adding.at \in {"last", "push"} => adding.file \notin pushed

\* A file has no flush before it has been counted.
StartInv == \A k \in Flushes : k[1] \notin arrived \/ k[1] \in Adding => flush[k].at = "off"

\* What a flush has read is the head of the list; what it reads was not submitted
\* before, but for what earlier flushes were cut off with.
ReadInv ==
  \A k \in Flushes : flush[k].at \in {"submit", "trim"} =>
    LET b == flush[k].batch IN
    /\ \A j \in DOMAIN b : b[j] \in pushed
    /\ \A i \in DOMAIN files, j \in DOMAIN b : files[i] = b[j] => i <= Len(b)
    /\ expired = {} => Len(b) <= Len(files) /\ \A i \in DOMAIN b : b[i] = files[i]
    /\ \A j \in DOMAIN b : IF flush[k].at = "submit" THEN submitted[b[j]] <= cuts ELSE submitted[b[j]] > 0

\* A file in the list is still to be submitted, or about to be trimmed.
OnceInv ==
  /\ \A f \in Files : submitted[f] <= 1 + cuts /\ (f \notin pushed => submitted[f] = 0)
  /\ \A i \in DOMAIN files :
       \/ submitted[files[i]] <= cuts
       \/ \E k \in Flushes : flush[k].at = "trim" /\ \E j \in DOMAIN flush[k].batch : files[i] = flush[k].batch[j]

KeptInv == expired = {} => \A f \in pushed : submitted[f] > 0 \/ \E i \in DOMAIN files : files[i] = f

IInv == TypeOK /\ LockInv /\ ListInv /\ StartInv /\ ReadInv /\ OnceInv /\ KeptInv

LEMMA Promptly == IInv => Kept /\ SubmittedOnce
<1> SUFFICES ASSUME IInv PROVE Kept /\ SubmittedOnce
  OBVIOUS
<1>1. \A i \in DOMAIN files : files[i] \in ToSet(files)
  BY DEF ToSet
<1>2. Kept
  BY <1>1 DEF IInv, KeptInv, Kept
<1>3. SubmittedOnce
  BY DEF IInv, OnceInv, SubmittedOnce
<1> QED
  BY <1>2, <1>3

LEMMA RestType ==
    ASSUME TypeOK, NEW k \in Flushes
    PROVE  Rest(k) \in FlushRec /\ Rest(k).at \in {"off", "sleeping"}
<1>1. Off \in FlushRec
  BY DEF Off, FlushRec, Labels
<1>2. CASE flush[k].again
  <2> DEFINE r == [at |-> "sleeping", due |-> flush[k].due, seen |-> 0, batch |-> <<>>, again |-> FALSE]
  <2>1. Rest(k) = r
    BY <1>2 DEF Rest, Off
  <2>2. flush[k].due \in Nat
    BY DEF TypeOK, FlushRec
  <2>3. r \in FlushRec
    BY <2>2 DEF FlushRec, Labels
  <2> QED
    BY <2>1, <2>3
<1>3. CASE ~flush[k].again
  BY <1>1, <1>3 DEF Rest, Off
<1> QED
  BY <1>2, <1>3

-----------------------------------------------------------------------------

\* A flush goes on without touching the list.
LEMMA Moves ==
    ASSUME IInv, NEW k \in Flushes, NEW r \in FlushRec, flush' = [flush EXCEPT ![k] = r],
           flush[k].at # "off", r.at \notin {"submit", "trim"},
           UNCHANGED <<now, files, adding, arrived, submitted, pushed, expired>>,
           first' \in Int, last' \in Int, lock'.by \in Flushes \union {Nobody}, lock'.until \in Nat,
           cuts' \in {cuts, cuts + 1}, flush[k].at = "trim" /\ flush[k].batch # <<>> => cuts' = cuts + 1,
           r.at \in Holding => lock'.by = k,
           lock'.by # lock.by => \A j \in Flushes \ {k} : flush[j].at \notin Holding
    PROVE  IInv'
<1>1. flush'[k] = r /\ \A j \in Flushes \ {k} : flush'[j] = flush[j]
  BY DEF IInv, TypeOK
<1>2. TypeOK' /\ cuts \in Nat /\ cuts <= cuts'
  BY DEF IInv, TypeOK
<1>3. LockInv'
  BY <1>1 DEF IInv, LockInv
<1>4. ListInv' /\ KeptInv' /\ StartInv'
  BY <1>1 DEF IInv, ListInv, KeptInv, StartInv, Adding
<1>5. ReadInv'
  <2>1. ASSUME NEW j \in Flushes \ {k}, flush[j].at \in {"submit", "trim"}, NEW i \in DOMAIN flush[j].batch
        PROVE  flush[j].at = "submit" => submitted[flush[j].batch[i]] <= cuts'
    <3>1. flush[j].batch[i] \in Files
      BY <2>1 DEF IInv, TypeOK, FlushRec
    <3>2. submitted[flush[j].batch[i]] \in Nat
      BY <3>1 DEF IInv, TypeOK
    <3> QED
      BY <1>2, <2>1, <3>2 DEF IInv, ReadInv
  <2> QED
    BY <1>1, <2>1 DEF IInv, ReadInv
<1>6. OnceInv'
  <2>1. \A f \in Files : submitted[f] \in Nat
    BY DEF IInv, TypeOK
  <2>2. \A f \in Files : submitted[f] <= 1 + cuts' /\ (f \notin pushed => submitted[f] = 0)
    BY <1>2, <2>1 DEF IInv, OnceInv
  <2>3. ASSUME NEW i \in DOMAIN files
        PROVE  \/ submitted[files[i]] <= cuts'
               \/ \E j \in Flushes : flush'[j].at = "trim" /\ \E n \in DOMAIN flush'[j].batch : files[i] = flush'[j].batch[n]
    <3>1. files[i] \in Files
      BY <2>3 DEF IInv, TypeOK
    <3>2. CASE submitted[files[i]] <= cuts
      BY <1>2, <2>1, <3>1, <3>2
    <3>3. CASE \E j \in Flushes : flush[j].at = "trim" /\ \E n \in DOMAIN flush[j].batch : files[i] = flush[j].batch[n]
      <4>1. PICK j \in Flushes : flush[j].at = "trim" /\ \E n \in DOMAIN flush[j].batch : files[i] = flush[j].batch[n]
        BY <3>3
      <4>2. CASE j = k
        <5>1. flush[k].batch # <<>>
          BY <4>1, <4>2
        <5> QED
          BY <1>2, <2>1, <2>2, <3>1, <4>1, <4>2, <5>1 DEF IInv, OnceInv
      <4>3. CASE j # k
        BY <1>1, <4>1, <4>3
      <4> QED
        BY <4>2, <4>3
    <3> QED
      BY <3>2, <3>3 DEF IInv, OnceInv
  <2> QED
    BY <2>2, <2>3 DEF OnceInv
<1> QED
  BY <1>2, <1>3, <1>4, <1>5, <1>6 DEF IInv

LEMMA MovingStep ==
    ASSUME IInv, NEW k \in Flushes,
           Wake(k) \/ Check(k) \/ Lock(k) \/ SubmitFails(k) \/ Clear(k) \/ Unlock(k) \/ FlushBreaks(k)
    PROVE  IInv'
<1>t. /\ flush[k] \in FlushRec /\ Rest(k) \in FlushRec /\ Rest(k).at \in {"off", "sleeping"}
      /\ first \in Int /\ last \in Int /\ now \in Nat /\ LockInv
      /\ lock.by \in Flushes \union {Nobody} /\ lock.until \in Nat /\ cuts \in Nat
  BY RestType DEF IInv, TypeOK
<1>w. ASSUME NEW p \in Labels, Went(k, p)
      PROVE  \E r \in FlushRec : r.at = p /\ flush' = [flush EXCEPT ![k] = r]
  <2>1. [flush[k] EXCEPT !.at = p] \in FlushRec /\ [flush[k] EXCEPT !.at = p].at = p
    BY <1>t, <1>w DEF FlushRec
  <2> QED
    BY <1>w, <2>1 DEF Went
<1>1. CASE Wake(k)
  <2>1. \E r \in FlushRec : r.at \in {"off", "check"} /\ flush' = [flush EXCEPT ![k] = r]
    <3>1. Off \in FlushRec /\ Off.at = "off"
      BY DEF Off, FlushRec, Labels
    <3>2. ASSUME NEW o \in FlushRec
          PROVE  [o EXCEPT !.at = "check", !.seen = first] \in FlushRec /\ [o EXCEPT !.at = "check", !.seen = first].at = "check"
      BY <1>t DEF FlushRec, Labels
    <3>3. [Off EXCEPT !.at = "check", !.seen = first] \in FlushRec /\ [Off EXCEPT !.at = "check", !.seen = first].at = "check"
      BY <3>1, <3>2
    <3> QED
      BY <1>1, <3>1, <3>2, <3>3 DEF Wake
  <2>2. PICK r \in FlushRec : r.at \in {"off", "check"} /\ flush' = [flush EXCEPT ![k] = r]
    BY <2>1
  <2>3. UNCHANGED <<now, redis, adding, submitted, arrived, ghosts>> /\ flush[k].at = "sleeping"
    BY <1>1 DEF Wake
  <2> QED
    BY <1>t, <2>2, <2>3, Moves DEF redis, ghosts, Holding
<1>2. CASE Check(k)
  <2>1. \E p \in {"lock", "off"} : Went(k, p)
    BY <1>2 DEF Check
  <2>2. \E r \in FlushRec : r.at \in {"lock", "off"} /\ flush' = [flush EXCEPT ![k] = r]
    BY <1>w, <2>1 DEF Labels
  <2>3. PICK r \in FlushRec : r.at \in {"lock", "off"} /\ flush' = [flush EXCEPT ![k] = r]
    BY <2>2
  <2>4. UNCHANGED <<now, redis, adding, submitted, arrived, ghosts>> /\ flush[k].at = "check"
    BY <1>2 DEF Check
  <2> QED
    BY <1>t, <2>3, <2>4, Moves DEF redis, ghosts, Holding
<1>3. CASE Lock(k)
  <2>1. CASE lock.by = Nobody
    <3>1. \E r \in FlushRec : r.at = "read" /\ flush' = [flush EXCEPT ![k] = r]
      BY <1>w, <1>3, <2>1 DEF Lock, Labels
    <3>2. lock' = [by |-> k, until |-> now + LockTtl]
      BY <1>3, <2>1 DEF Lock
    <3>3. \A j \in Flushes : flush[j].at \notin Holding
      BY <1>t, <2>1 DEF LockInv, Flushes, Nobody
    <3>4. PICK r \in FlushRec : r.at = "read" /\ flush' = [flush EXCEPT ![k] = r]
      BY <3>1
    <3>5. UNCHANGED <<now, first, last, files, adding, submitted, arrived, ghosts>> /\ flush[k].at = "lock"
      BY <1>3 DEF Lock
    <3>6. lock'.by = k /\ lock'.until \in Nat
      BY <1>t, <3>2, BatchAssumption
    <3> QED
      BY <1>t, <3>3, <3>4, <3>5, <3>6, Moves DEF ghosts
  <2>2. CASE lock.by # Nobody
    <3>1. \E r \in FlushRec : r.at = "off" /\ flush' = [flush EXCEPT ![k] = r]
      BY <1>w, <1>3, <2>2 DEF Lock, Labels
    <3>2. PICK r \in FlushRec : r.at = "off" /\ flush' = [flush EXCEPT ![k] = r]
      BY <3>1
    <3>3. UNCHANGED <<now, first, last, files, lock, adding, submitted, arrived, ghosts>> /\ flush[k].at = "lock"
      BY <1>3, <2>2 DEF Lock
    <3> QED
      BY <1>t, <3>2, <3>3, Moves DEF ghosts, Holding
  <2> QED
    BY <2>1, <2>2
<1>4. CASE SubmitFails(k)
  <2> DEFINE r == [flush[k] EXCEPT !.at = "unlock", !.due = now + QuietWindow, !.again = TRUE]
  <2>1. r \in FlushRec /\ r.at = "unlock"
    <3>1. now + QuietWindow \in Nat
      BY <1>t, BatchAssumption
    <3> QED
      BY <1>t, <3>1 DEF FlushRec, Labels
  <2>2. flush' = [flush EXCEPT ![k] = r] /\ flush[k].at = "submit"
    BY <1>4 DEF SubmitFails
  <2> HIDE DEF r
  <2>3. UNCHANGED <<now, redis, adding, submitted, arrived, ghosts>>
    BY <1>4 DEF SubmitFails
  <2>4. lock.by = k
    BY <1>t, <2>2 DEF LockInv, Holding
  <2> QED
    BY <1>t, <2>1, <2>2, <2>3, <2>4, Moves DEF redis, ghosts
<1>5. CASE Clear(k)
  <2>1. \E r \in FlushRec : r.at = "unlock" /\ flush' = [flush EXCEPT ![k] = r]
    BY <1>w, <1>5 DEF Clear, Labels
  <2>2. PICK r \in FlushRec : r.at = "unlock" /\ flush' = [flush EXCEPT ![k] = r]
    BY <2>1
  <2>3. /\ UNCHANGED <<now, files, lock, adding, submitted, arrived, pushed, expired, cuts>>
        /\ first' \in Int /\ last' \in Int /\ flush[k].at = "clear"
    BY <1>5 DEF Clear, None
  <2>4. lock.by = k
    BY <1>t, <2>3 DEF LockInv, Holding
  <2> QED
    BY <1>t, <2>2, <2>3, <2>4, Moves
<1>6. CASE Unlock(k)
  <2>1. lock.by = k /\ lock' = Free /\ Free.by = Nobody /\ Free.until = 0
    BY <1>6, <1>t DEF Unlock, LockInv, Holding, Free
  <2>2. \A j \in Flushes \ {k} : flush[j].at \notin Holding
    BY <1>t, <2>1 DEF LockInv
  <2>3. UNCHANGED <<now, first, last, files, adding, submitted, arrived, ghosts>> /\ flush[k].at = "unlock"
    BY <1>6 DEF Unlock
  <2>4. flush' = [flush EXCEPT ![k] = Rest(k)]
    BY <1>6 DEF Unlock
  <2>5. Rest(k).at \notin Holding /\ Rest(k).at \notin {"submit", "trim"}
    BY <1>t DEF Holding
  <2>6. lock'.by \in Flushes \union {Nobody} /\ lock'.until \in Nat
    BY <2>1
  <2>7. first' \in Int /\ last' \in Int /\ cuts' = cuts
    BY <1>t, <2>3 DEF ghosts
  <2>8. PICK r \in FlushRec : r.at \notin Holding /\ r.at \notin {"submit", "trim"} /\ flush' = [flush EXCEPT ![k] = r]
    BY <1>t, <2>4, <2>5
  <2> QED
    BY <2>2, <2>3, <2>6, <2>7, <2>8, Moves DEF ghosts
<1>7. CASE FlushBreaks(k)
  <2>b. /\ UNCHANGED <<now, redis, adding, submitted, arrived, pushed, expired>>
        /\ cuts' \in {cuts, cuts + 1} /\ (flush[k].at = "trim" /\ flush[k].batch # <<>> => cuts' = cuts + 1)
        /\ flush[k].at # "off"
    BY <1>7 DEF FlushBreaks, Cut
  <2>1. CASE flush[k].at \in {"read", "trim", "clear"}
    <3>1. \E r \in FlushRec : r.at = "unlock" /\ flush' = [flush EXCEPT ![k] = r]
      BY <1>w, <1>7, <2>1 DEF FlushBreaks, Labels
    <3>2. PICK r \in FlushRec : r.at = "unlock" /\ flush' = [flush EXCEPT ![k] = r]
      BY <3>1
    <3>3. lock.by = k
      BY <1>t, <2>1 DEF LockInv, Holding
    <3> QED
      BY <1>t, <2>1, <2>b, <3>2, <3>3, Moves DEF redis
  <2>2. CASE flush[k].at \notin {"read", "trim", "clear"}
    <3>1. flush' = [flush EXCEPT ![k] = Rest(k)]
      BY <1>7, <2>2 DEF FlushBreaks
    <3>2. Rest(k).at \notin Holding /\ Rest(k).at \notin {"submit", "trim"}
      BY <1>t DEF Holding
    <3> QED
      BY <1>t, <2>b, <3>1, <3>2, Moves DEF redis
  <2> QED
    BY <2>1, <2>2
<1> QED
  BY <1>1, <1>2, <1>3, <1>4, <1>5, <1>6, <1>7
-----------------------------------------------------------------------------
(* A message adds its file. *)

\* Neither the list nor what is inside a flush changes.
LEMMA Beside ==
    ASSUME IInv, UNCHANGED <<files, lock, submitted, pushed, expired, cuts>>,
           flush' \in [Flushes -> FlushRec],
           \A k \in Flushes : flush'[k] = flush[k] \/ (flush[k].at \notin Holding /\ flush'[k].at \notin Holding)
    PROVE  LockInv' /\ ReadInv' /\ OnceInv' /\ KeptInv'
<1>1. \A k \in Flushes : flush'[k].at \in Holding => flush'[k] = flush[k]
  OBVIOUS
<1>2. \A k \in Flushes : flush[k].at \in Holding => flush'[k] = flush[k]
  OBVIOUS
<1>3. LockInv'
  BY <1>1 DEF IInv, LockInv
<1>4. ReadInv'
  BY <1>1 DEF IInv, ReadInv, Holding
<1>5. OnceInv'
  BY <1>2 DEF IInv, OnceInv, Holding
<1>6. KeptInv'
  BY DEF IInv, KeptInv
<1> QED
  BY <1>3, <1>4, <1>5, <1>6

LEMMA AddingStep ==
    ASSUME IInv, (\E f \in Files : Arrive(f)) \/ SetLast \/ Count \/ Added \/ AddBreaks
    PROVE  IInv'
<1>t. TypeOK /\ ListInv /\ StartInv
  BY DEF IInv
<1>1. ASSUME NEW f \in Files, Arrive(f)
      PROVE  IInv'
  <2>1. LockInv' /\ ReadInv' /\ OnceInv' /\ KeptInv'
    BY <1>1, <1>t, Beside DEF Arrive, ghosts, TypeOK
  <2>2. TypeOK'
    BY <1>1, <1>t DEF Arrive, ghosts, TypeOK
  <2>3. ListInv'
    BY <1>1, <1>t DEF Arrive, ghosts, ListInv
  <2>4. StartInv'
    BY <1>1, <1>t DEF Arrive, StartInv, Adding
  <2> QED
    BY <2>1, <2>2, <2>3, <2>4 DEF IInv
<1>2. CASE SetLast
  <2>0. adding.at = "last" /\ adding'.at = "push" /\ adding'.file = adding.file /\ adding' = [adding EXCEPT !.at = "push"]
    BY <1>2, <1>t DEF SetLast, Adds, TypeOK
  <2>1. LockInv' /\ ReadInv' /\ OnceInv' /\ KeptInv'
    BY <1>2, <1>t, Beside DEF SetLast, ghosts, TypeOK
  <2>2. TypeOK'
    <3>1. adding' \in [at : {"idle", "last", "push", "count", "flush"}, file : Files \union {None}]
      BY <1>t, <2>0 DEF TypeOK
    <3>2. UNCHANGED <<now, first, files, lock, flush, arrived, submitted, cuts>> /\ last' = now
      BY <1>2 DEF SetLast, ghosts
    <3> QED
      BY <1>t, <2>0, <3>1, <3>2 DEF TypeOK
  <2>3. ListInv'
    BY <1>2, <1>t, <2>0 DEF SetLast, ghosts, ListInv
  <2>4. StartInv'
    BY <1>2, <1>t, <2>0 DEF SetLast, StartInv, Adding
  <2> QED
    BY <2>1, <2>2, <2>3, <2>4 DEF IInv
<1>3. CASE Count
  <2> DEFINE f == adding.file
             d == <<f, "delayed">>
             w == <<f, "full">>
  <2>0. adding.at = "count" /\ f \in Files /\ f \in arrived /\ d \in Flushes /\ w \in Flushes /\ d # w
    BY <1>3, <1>t DEF Count, TypeOK, ListInv, Flushes
  <2>1. PICK r \in FlushRec, q \in FlushRec :
          /\ flush' = [flush EXCEPT ![d] = r, ![w] = q]
          /\ r.at = "sleeping" /\ q.at \in {"lock", "off"}
    <3> DEFINE r == [Off EXCEPT !.at = "sleeping", !.due = now + QuietWindow]
               q == [flush[w] EXCEPT !.at = IF count + 1 >= MaxFiles THEN "lock" ELSE "off"]
    <3>1. Off \in FlushRec /\ now + QuietWindow \in Nat
      BY <1>t, BatchAssumption DEF Off, FlushRec, Labels, TypeOK
    <3>2. ASSUME NEW o \in FlushRec, NEW n \in Nat
          PROVE  [o EXCEPT !.at = "sleeping", !.due = n] \in FlushRec /\ [o EXCEPT !.at = "sleeping", !.due = n].at = "sleeping"
      BY DEF FlushRec, Labels
    <3>3. r \in FlushRec /\ r.at = "sleeping"
      BY <3>1, <3>2
    <3>4. ASSUME NEW o \in FlushRec, NEW p \in {"lock", "off"}
          PROVE  [o EXCEPT !.at = p] \in FlushRec /\ [o EXCEPT !.at = p].at = p
      BY DEF FlushRec, Labels
    <3>5. q \in FlushRec /\ q.at \in {"lock", "off"}
      <4>1. flush[w] \in FlushRec
        BY <1>t, <2>0 DEF TypeOK
      <4>2. (IF count + 1 >= MaxFiles THEN "lock" ELSE "off") \in {"lock", "off"}
        OBVIOUS
      <4> QED
        BY <3>4, <4>1, <4>2
    <3>6. flush' = [flush EXCEPT ![d] = r, ![w] = q]
      BY <1>3, <1>t, <2>0 DEF Count, TypeOK
    <3> HIDE DEF r, q
    <3> QED
      BY <3>3, <3>5, <3>6
  <2>2. flush' \in [Flushes -> FlushRec] /\ flush'[d] = r /\ flush'[w] = q /\ \A k \in Flushes \ {d, w} : flush'[k] = flush[k]
    BY <1>t, <2>0, <2>1 DEF TypeOK
  <2>3. flush[d].at = "off" /\ flush[w].at = "off"
    BY <1>t, <2>0 DEF StartInv, Adding
  <2>4. UNCHANGED <<now, first, last, files, lock, submitted, arrived, ghosts>> /\ adding'.at \in {"idle", "flush"}
        /\ adding' \in [at : {"idle", "last", "push", "count", "flush"}, file : Files \union {None}]
    BY <1>3, <1>t DEF Count, TypeOK, Idle
  <2>5. LockInv' /\ ReadInv' /\ OnceInv' /\ KeptInv'
    <3>1. \A k \in Flushes : flush'[k] = flush[k] \/ (flush[k].at \notin Holding /\ flush'[k].at \notin Holding)
      BY <2>1, <2>2, <2>3 DEF Holding
    <3> QED
      BY <2>2, <2>4, <3>1, Beside DEF ghosts
  <2>6. TypeOK'
    BY <1>t, <2>2, <2>4 DEF TypeOK, ghosts
  <2>7. ListInv'
    BY <1>t, <2>4 DEF ListInv, ghosts
  <2>8. StartInv'
    <3> SUFFICES ASSUME NEW k \in Flushes, k[1] \notin arrived
                 PROVE  flush'[k].at = "off"
      BY <2>4 DEF StartInv, Adding
    <3> QED
      BY <1>t, <2>0, <2>2 DEF StartInv
  <2> QED
    BY <2>5, <2>6, <2>7, <2>8 DEF IInv
<1>4. CASE Added \/ AddBreaks
  <2>0. adding' = Idle /\ Idle.at = "idle" /\ Idle \in [at : {"idle", "last", "push", "count", "flush"}, file : Files \union {None}]
        /\ UNCHANGED <<now, redis, flush, submitted, arrived, ghosts>>
    BY <1>4 DEF Added, AddBreaks, Idle
  <2>1. LockInv' /\ ReadInv' /\ OnceInv' /\ KeptInv'
    BY <1>t, <2>0, Beside DEF redis, ghosts, TypeOK
  <2>2. TypeOK' /\ ListInv' /\ StartInv'
    BY <1>t, <2>0 DEF redis, ghosts, TypeOK, ListInv, StartInv, Adding
  <2> QED
    BY <2>1, <2>2 DEF IInv
<1> QED
  BY <1>1, <1>2, <1>3, <1>4

LEMMA PushStep == IInv /\ Push => IInv'
<1> SUFFICES ASSUME IInv, Push PROVE IInv'
  OBVIOUS
<1> DEFINE f == adding.file
           n == Len(files)
<1>t. TypeOK /\ ListInv /\ StartInv /\ LockInv /\ ReadInv /\ OnceInv /\ KeptInv
  BY DEF IInv
<1>1. /\ adding.at = "push" /\ f \in Files /\ f \in arrived /\ f \notin pushed
      /\ adding'.at = "count" /\ adding'.file = f /\ adding' = [adding EXCEPT !.at = "count"]
      /\ files' = Append(files, f) /\ pushed' = pushed \union {f}
      /\ UNCHANGED <<now, first, last, lock, flush, arrived, submitted, expired, cuts>>
  BY <1>t DEF Push, Adds, TypeOK, ListInv
<1>2. /\ files' \in Seq(Files) /\ n \in Nat /\ DOMAIN files = 1..n /\ DOMAIN files' = 1..(n + 1) /\ Len(files') = n + 1
      /\ files'[n + 1] = f /\ \A i \in 1..n : files'[i] = files[i]
  BY <1>t, <1>1 DEF TypeOK
<1>3. TypeOK' /\ LockInv' /\ StartInv'
  BY <1>t, <1>1, <1>2 DEF TypeOK, LockInv, StartInv, Adding
<1>4. ListInv'
  BY <1>t, <1>1, <1>2 DEF ListInv
<1>5. ReadInv'
  <2> SUFFICES ASSUME NEW k \in Flushes, flush[k].at \in {"submit", "trim"}
               PROVE  LET b == flush[k].batch IN
                        /\ \A j \in DOMAIN b : b[j] \in pushed'
                        /\ \A i \in DOMAIN files', j \in DOMAIN b : files'[i] = b[j] => i <= Len(b)
                        /\ expired = {} => Len(b) <= Len(files') /\ \A i \in DOMAIN b : b[i] = files'[i]
                        /\ \A j \in DOMAIN b : IF flush[k].at = "submit" THEN submitted[b[j]] <= cuts ELSE submitted[b[j]] > 0
    BY <1>1 DEF ReadInv
  <2> DEFINE b == flush[k].batch
  <2>0. b \in Seq(Files) /\ DOMAIN b = 1..Len(b) /\ Len(b) \in Nat
    BY <1>t DEF TypeOK, FlushRec
  <2>1. \A j \in DOMAIN b : b[j] \in pushed
    BY <1>t DEF ReadInv
  <2>2. \A i \in DOMAIN files, j \in DOMAIN b : files[i] = b[j] => i <= Len(b)
    BY <1>t DEF ReadInv
  <2>3. expired = {} => Len(b) <= n /\ \A i \in DOMAIN b : b[i] = files[i]
    BY <1>t DEF ReadInv
  <2>4. \A j \in DOMAIN b : IF flush[k].at = "submit" THEN submitted[b[j]] <= cuts ELSE submitted[b[j]] > 0
    BY <1>t DEF ReadInv
  <2>5. \A i \in DOMAIN files', j \in DOMAIN b : files'[i] = b[j] => i <= Len(b)
    BY <1>1, <1>2, <2>1, <2>2
  <2>6. expired = {} => Len(b) <= Len(files') /\ \A i \in DOMAIN b : b[i] = files'[i]
    BY <1>2, <2>0, <2>3
  <2> QED
    BY <1>1, <2>1, <2>4, <2>5, <2>6
<1>6. OnceInv'
  <2>1. ASSUME NEW g \in Files
        PROVE  submitted'[g] <= 1 + cuts' /\ (g \notin pushed' => submitted'[g] = 0)
    <3>1. submitted[g] <= 1 + cuts /\ (g \notin pushed => submitted[g] = 0)
      BY <1>t DEF OnceInv
    <3> QED
      BY <1>1, <3>1
  <2>2. ASSUME NEW i \in DOMAIN files'
        PROVE  \/ submitted'[files'[i]] <= cuts'
               \/ \E k \in Flushes : flush'[k].at = "trim" /\ \E j \in DOMAIN flush'[k].batch : files'[i] = flush'[k].batch[j]
    <3>1. CASE i = n + 1
      <4>1. submitted[f] = 0 /\ cuts \in Nat
        BY <1>t, <1>1 DEF OnceInv, TypeOK
      <4>2. submitted'[files'[i]] = 0 /\ 0 <= cuts'
        BY <1>1, <1>2, <3>1, <4>1
      <4> QED
        BY <4>2
    <3>2. CASE i # n + 1
      <4>1. i \in DOMAIN files /\ files'[i] = files[i]
        BY <1>2, <3>2
      <4>2. \/ submitted[files[i]] <= cuts
            \/ \E k \in Flushes : flush[k].at = "trim" /\ \E j \in DOMAIN flush[k].batch : files[i] = flush[k].batch[j]
        BY <1>t, <4>1 DEF OnceInv
      <4> QED
        BY <1>1, <4>1, <4>2
    <3> QED
      BY <3>1, <3>2
  <2> QED
    BY <2>1, <2>2 DEF OnceInv
<1>7. KeptInv'
  BY <1>t, <1>1, <1>2 DEF KeptInv
<1> QED
  BY <1>3, <1>4, <1>5, <1>6, <1>7 DEF IInv

-----------------------------------------------------------------------------
(* The three steps between which the list and the queue must agree. *)

\* While one flush has the lock, no other is inside.
LEMMA Alone ==
    ASSUME LockInv, NEW k \in Flushes, flush[k].at \in Holding, NEW j \in Flushes \ {k}
    PROVE  flush[j].at \notin Holding
BY DEF LockInv

LEMMA ReadStep ==
    ASSUME IInv, NEW k \in Flushes, Read(k)
    PROVE  IInv'
<1>t. TypeOK /\ ListInv /\ StartInv /\ LockInv /\ ReadInv /\ OnceInv /\ KeptInv
  BY DEF IInv
<1>1. /\ flush[k].at = "read" /\ flush'[k].at = "submit" /\ flush'[k].batch = files
      /\ \A j \in Flushes \ {k} : flush'[j] = flush[j]
      /\ flush' \in [Flushes -> FlushRec]
      /\ UNCHANGED <<now, redis, adding, submitted, arrived, ghosts>>
  <2> DEFINE r == [flush[k] EXCEPT !.at = "submit", !.batch = files]
  <2>1. r \in FlushRec /\ r.at = "submit" /\ r.batch = files
    BY <1>t DEF TypeOK, FlushRec, Labels
  <2>2. flush' = [flush EXCEPT ![k] = r]
    BY DEF Read
  <2> HIDE DEF r
  <2> QED
    BY <1>t, <2>1, <2>2 DEF Read, TypeOK
<1>2. \A j \in Flushes \ {k} : flush[j].at \notin Holding
  BY <1>t, <1>1, Alone DEF Holding
<1>3. TypeOK' /\ ListInv' /\ KeptInv'
  BY <1>t, <1>1 DEF TypeOK, ListInv, KeptInv, redis, ghosts
<1>4. LockInv' /\ StartInv'
  BY <1>t, <1>1 DEF LockInv, StartInv, Adding, Holding, redis
<1>5. \A i \in DOMAIN files : submitted[files[i]] <= cuts
  BY <1>t, <1>1, <1>2 DEF OnceInv, Holding
<1>6. ReadInv'
  <2>1. files \in Seq(Files) /\ DOMAIN files = 1..Len(files) /\ Len(files) \in Nat
    BY <1>t DEF TypeOK
  <2>2. \A i \in DOMAIN files, j \in DOMAIN files : files[i] = files[j] => i <= Len(files)
    BY <2>1
  <2>3. \A j \in DOMAIN files : files[j] \in pushed
    BY <1>t DEF ListInv
  <2> QED
    BY <1>1, <1>2, <1>5, <2>1, <2>2, <2>3 DEF ReadInv, Holding, redis, ghosts
<1>7. OnceInv'
  BY <1>t, <1>1, <1>5 DEF OnceInv, redis, ghosts
<1> QED
  BY <1>3, <1>4, <1>6, <1>7 DEF IInv

\* Of a flush that only moves on: the record is what it was, but for its place.
LEMMA WentTo ==
    ASSUME TypeOK, NEW k \in Flushes, NEW p \in Labels, Went(k, p)
    PROVE  /\ flush' \in [Flushes -> FlushRec]
           /\ flush'[k].at = p /\ flush'[k].batch = flush[k].batch
           /\ \A j \in Flushes \ {k} : flush'[j] = flush[j]
<1> DEFINE r == [flush[k] EXCEPT !.at = p]
<1>1. r \in FlushRec /\ r.at = p /\ r.batch = flush[k].batch
  BY DEF TypeOK, FlushRec
<1>2. flush' = [flush EXCEPT ![k] = r]
  BY DEF Went
<1> HIDE DEF r
<1> QED
  BY <1>1, <1>2 DEF TypeOK

LEMMA SubmitStep ==
    ASSUME IInv, NEW k \in Flushes, Submit(k)
    PROVE  IInv'
<1> DEFINE b == flush[k].batch
<1>t. TypeOK /\ ListInv /\ StartInv /\ LockInv /\ ReadInv /\ OnceInv /\ KeptInv
  BY DEF IInv
<1>1. /\ flush[k].at = "submit" /\ flush'[k].at = "trim" /\ flush'[k].batch = b
      /\ \A j \in Flushes \ {k} : flush'[j] = flush[j]
      /\ flush' \in [Flushes -> FlushRec]
      /\ UNCHANGED <<now, redis, adding, arrived, ghosts>>
  BY <1>t, WentTo DEF Submit, Labels
<1>2. \A j \in Flushes \ {k} : flush[j].at \notin Holding
  BY <1>t, <1>1, Alone DEF Holding
<1>3. b \in Seq(Files) /\ (\A f \in Files : f \in ToSet(b) <=> \E j \in DOMAIN b : b[j] = f)
  BY <1>t DEF TypeOK, FlushRec, ToSet
<1>4. /\ submitted' \in [Files -> Nat]
      /\ \A f \in Files : submitted'[f] = IF f \in ToSet(b) THEN submitted[f] + 1 ELSE submitted[f]
  <2> DEFINE S == ToSet(b)
  <2>1. submitted' = [f \in Files |-> IF f \in S THEN submitted[f] + 1 ELSE submitted[f]]
    BY DEF Submit
  <2>2. submitted \in [Files -> Nat]
    BY <1>t DEF TypeOK
  <2> HIDE DEF S
  <2>3. submitted' \in [Files -> Nat]
        /\ \A f \in Files : submitted'[f] = IF f \in S THEN submitted[f] + 1 ELSE submitted[f]
    BY <2>1, <2>2
  <2> QED
    BY <2>3 DEF S
<1>5. \A f \in Files : f \in ToSet(b) => f \in pushed /\ submitted[f] <= cuts
  BY <1>t, <1>1, <1>3 DEF ReadInv
<1>6. TypeOK' /\ ListInv'
  BY <1>t, <1>1, <1>4 DEF TypeOK, ListInv, redis, ghosts
<1>7. LockInv' /\ StartInv'
  BY <1>t, <1>1 DEF LockInv, StartInv, Adding, Holding, redis
<1>8. ReadInv'
  <2>1. \A j \in DOMAIN b : submitted'[b[j]] > 0
    <3> SUFFICES ASSUME NEW j \in DOMAIN b PROVE submitted'[b[j]] > 0
      OBVIOUS
    <3>1. b[j] \in Files /\ b[j] \in ToSet(b)
      BY <1>3
    <3>2. submitted'[b[j]] = submitted[b[j]] + 1 /\ submitted[b[j]] \in Nat
      BY <1>t, <1>4, <3>1 DEF TypeOK
    <3> QED
      BY <3>2
  <2> QED
    BY <1>t, <1>1, <1>2, <2>1 DEF ReadInv, Holding, redis, ghosts
<1>9. OnceInv'
  <2>1. \A f \in Files : submitted'[f] <= 1 + cuts /\ (f \notin pushed => submitted'[f] = 0)
    <3> SUFFICES ASSUME NEW f \in Files
                 PROVE  submitted'[f] <= 1 + cuts /\ (f \notin pushed => submitted'[f] = 0)
      OBVIOUS
    <3>1. submitted[f] \in Nat /\ cuts \in Nat
      BY <1>t DEF TypeOK
    <3>2. submitted[f] <= 1 + cuts /\ (f \notin pushed => submitted[f] = 0)
      BY <1>t DEF OnceInv
    <3>3. CASE f \in ToSet(b)
      BY <1>4, <1>5, <3>1, <3>3
    <3>4. CASE f \notin ToSet(b)
      BY <1>4, <3>2, <3>4
    <3> QED
      BY <3>3, <3>4
  <2>2. ASSUME NEW i \in DOMAIN files
        PROVE  submitted'[files[i]] <= cuts \/ \E j \in DOMAIN b : files[i] = b[j]
    <3>1. files[i] \in Files
      BY <1>t DEF TypeOK
    <3>2. submitted[files[i]] <= cuts
      BY <1>t, <1>1, <1>2 DEF OnceInv, Holding
    <3> QED
      BY <1>3, <1>4, <3>1, <3>2
  <2> QED
    BY <1>1, <2>1, <2>2 DEF OnceInv, redis, ghosts
<1>10. KeptInv'
  <2>1. ASSUME NEW f \in Files, submitted[f] > 0
        PROVE  submitted'[f] > 0
    <3>1. submitted[f] \in Nat /\ submitted'[f] \in {submitted[f], submitted[f] + 1}
      BY <1>t, <1>4 DEF TypeOK
    <3> QED
      BY <2>1, <3>1
  <2> QED
    BY <1>t, <1>1, <2>1 DEF KeptInv, ListInv, redis, ghosts
<1> QED
  BY <1>6, <1>7, <1>8, <1>9, <1>10 DEF IInv

\* LTRIM takes the first m elements away.
LEMMA WithoutHead ==
    ASSUME NEW S, NEW s \in Seq(S), NEW m \in Nat
    PROVE  /\ SubSeq(s, m + 1, Len(s)) \in Seq(S)
           /\ \A i \in DOMAIN SubSeq(s, m + 1, Len(s)) :
                i \in Nat /\ i > 0 /\ i + m \in DOMAIN s /\ SubSeq(s, m + 1, Len(s))[i] = s[i + m]
           /\ \A i \in DOMAIN s :
                i > m => i - m \in DOMAIN SubSeq(s, m + 1, Len(s)) /\ SubSeq(s, m + 1, Len(s))[i - m] = s[i]
<1> DEFINE n == Len(s)
           p == m + 1
           t == SubSeq(s, p, n)
<1>1. n \in Nat /\ DOMAIN s = 1..n /\ n \in Int /\ p \in Int
  OBVIOUS
<1>2. \A i \in p..n : s[i] \in S
  BY <1>1
<1> HIDE DEF n, p
<1>3. /\ t \in Seq(S)
      /\ Len(t) = IF p <= n THEN n - p + 1 ELSE 0
      /\ \A i \in 1..(n - p + 1) : t[i] = s[p + i - 1]
  BY <1>1, <1>2, SubSeqProperties
<1> HIDE DEF t
<1>4. DOMAIN t = 1..Len(t)
  BY <1>3
<1>5. ASSUME NEW i \in DOMAIN t
      PROVE  i \in Nat /\ i > 0 /\ i + m \in DOMAIN s /\ t[i] = s[i + m]
  <2>1. i \in 1..(n - p + 1) /\ p + i - 1 = i + m /\ i + m \in 1..n
    BY <1>1, <1>3, <1>4, <1>5 DEF p
  <2> QED
    BY <1>1, <1>3, <2>1
<1>6. ASSUME NEW i \in DOMAIN s, i > m
      PROVE  i - m \in DOMAIN t /\ t[i - m] = s[i]
  <2>1. i - m \in 1..(n - p + 1) /\ p + (i - m) - 1 = i /\ p <= n
    BY <1>1, <1>6 DEF p
  <2>2. Len(t) = n - p + 1
    BY <1>3, <2>1
  <2>3. i - m \in DOMAIN t
    BY <1>4, <2>1, <2>2
  <2>4. t[i - m] = s[p + (i - m) - 1]
    BY <1>3, <2>1
  <2> QED
    BY <2>1, <2>3, <2>4
<1> QED
  BY <1>3, <1>5, <1>6 DEF t, p, n

LEMMA TrimStep ==
    ASSUME IInv, NEW k \in Flushes, Trim(k)
    PROVE  IInv'
<1> DEFINE b == flush[k].batch
           m == Len(b)
           n == Len(files)
<1>t. TypeOK /\ ListInv /\ StartInv /\ LockInv /\ ReadInv /\ OnceInv /\ KeptInv
  BY DEF IInv
<1>1. /\ flush[k].at = "trim" /\ flush'[k].at = "clear"
      /\ \A j \in Flushes \ {k} : flush'[j] = flush[j]
      /\ flush' \in [Flushes -> FlushRec]
      /\ UNCHANGED <<now, first, last, lock, adding, submitted, arrived, ghosts>>
  BY <1>t, WentTo DEF Trim, Labels
<1>2. \A j \in Flushes \ {k} : flush[j].at \notin Holding
  BY <1>t, <1>1, Alone DEF Holding
<1>3. b \in Seq(Files) /\ m \in Nat /\ DOMAIN b = 1..m /\ n \in Nat /\ DOMAIN files = 1..n
  BY <1>t DEF TypeOK, FlushRec
<1>4. /\ files' \in Seq(Files)
      /\ \A i \in DOMAIN files' : i \in Nat /\ i > 0 /\ i + m \in DOMAIN files /\ files'[i] = files[i + m]
      /\ \A i \in DOMAIN files : i > m => i - m \in DOMAIN files' /\ files'[i - m] = files[i]
  <2>1. files' = SubSeq(files, m + 1, n)
    BY DEF Trim
  <2>2. files \in Seq(Files)
    BY <1>t DEF TypeOK
  <2> HIDE DEF m
  <2> QED
    BY <1>3, <2>1, <2>2, WithoutHead
<1>5. TypeOK'
  BY <1>t, <1>1, <1>4 DEF TypeOK, ghosts
<1>6. ListInv'
  <2>1. \A i, j \in DOMAIN files' : files'[i] = files'[j] => i = j
    BY <1>t, <1>3, <1>4 DEF ListInv
  <2>2. \A i \in DOMAIN files' : files'[i] \in pushed
    BY <1>t, <1>4 DEF ListInv
  <2> QED
    BY <1>t, <1>1, <2>1, <2>2 DEF ListInv, ghosts
<1>7. LockInv' /\ StartInv'
  BY <1>t, <1>1 DEF LockInv, StartInv, Adding, Holding
<1>8. ReadInv'
  BY <1>1, <1>2 DEF ReadInv, Holding
<1>9. OnceInv'
  <2>1. ASSUME NEW i \in DOMAIN files'
        PROVE  submitted[files'[i]] <= cuts
    <3>1. i + m \in DOMAIN files /\ files'[i] = files[i + m] /\ i > 0 /\ i \in Nat
      BY <1>4
    <3>2. ~ \E j \in DOMAIN b : files[i + m] = b[j]
      <4>1. \A j \in DOMAIN b : files[i + m] = b[j] => i + m <= m
        BY <1>t, <1>1, <3>1 DEF ReadInv
      <4> QED
        BY <1>3, <3>1, <4>1
    <3> QED
      BY <1>t, <1>1, <1>2, <3>1, <3>2 DEF OnceInv, Holding
  <2> QED
    BY <1>t, <1>1, <2>1 DEF OnceInv, ghosts
<1>10. KeptInv'
  <2> SUFFICES ASSUME expired = {}, NEW f \in pushed, ~(submitted[f] > 0)
               PROVE  \E i \in DOMAIN files' : files'[i] = f
    BY <1>1 DEF KeptInv, ghosts
  <2>1. PICK i \in DOMAIN files : files[i] = f
    BY <1>t DEF KeptInv
  <2>2. i > m
    <3> SUFFICES ASSUME i <= m PROVE FALSE
      BY <1>3, <2>1
    <3>1. i \in DOMAIN b
      BY <1>3
    <3>2. b[i] = f /\ submitted[b[i]] > 0
      BY <1>t, <1>1, <2>1, <3>1 DEF ReadInv
    <3> QED
      BY <3>2
  <2> QED
    BY <1>4, <2>1, <2>2
<1> QED
  BY <1>5, <1>6, <1>7, <1>8, <1>9, <1>10 DEF IInv

-----------------------------------------------------------------------------
(* The process dies; time passes. *)

LEMMA CrashStep == IInv /\ Crash => IInv'
<1> SUFFICES ASSUME IInv, Crash PROVE IInv'
  OBVIOUS
<1>t. TypeOK /\ ListInv /\ StartInv /\ LockInv /\ ReadInv /\ OnceInv /\ KeptInv
  BY DEF IInv
<1>1. /\ flush' \in [Flushes -> FlushRec] /\ \A k \in Flushes : flush'[k].at = "off"
      /\ adding' = Idle /\ Idle.at = "idle"
      /\ Idle \in [at : {"idle", "last", "push", "count", "flush"}, file : Files \union {None}]
      /\ UNCHANGED <<now, redis, arrived, submitted, pushed, expired>>
      /\ cuts' \in {cuts, cuts + 1} /\ ((\E k \in Flushes : Cut(k)) => cuts' = cuts + 1)
  <2>1. Off \in FlushRec /\ Off.at = "off"
    BY DEF Off, FlushRec, Labels
  <2> QED
    BY <2>1 DEF Crash, Idle
<1>2. TypeOK' /\ LockInv' /\ ListInv' /\ StartInv' /\ ReadInv' /\ KeptInv'
  <2>1. TypeOK'
    BY <1>t, <1>1 DEF TypeOK, redis
  <2>2. LockInv' /\ ReadInv'
    BY <1>1 DEF LockInv, ReadInv, Holding
  <2>3. ListInv' /\ StartInv' /\ KeptInv'
    BY <1>t, <1>1 DEF ListInv, StartInv, KeptInv, redis
  <2> QED
    BY <2>1, <2>2, <2>3
<1>3. OnceInv'
  <2>1. cuts \in Nat /\ cuts <= cuts' /\ cuts' \in Nat /\ \A f \in Files : submitted[f] \in Nat
    BY <1>t, <1>1 DEF TypeOK
  <2>2. \A f \in Files : submitted[f] <= 1 + cuts' /\ (f \notin pushed => submitted[f] = 0)
    BY <1>t, <2>1 DEF OnceInv
  <2>3. ASSUME NEW i \in DOMAIN files
        PROVE  submitted[files[i]] <= cuts'
    <3>1. files[i] \in Files
      BY <1>t DEF TypeOK
    <3>2. CASE submitted[files[i]] <= cuts
      BY <2>1, <3>1, <3>2
    <3>3. CASE \E k \in Flushes : flush[k].at = "trim" /\ \E j \in DOMAIN flush[k].batch : files[i] = flush[k].batch[j]
      <4>1. \E k \in Flushes : Cut(k)
        BY <3>3 DEF Cut
      <4>2. submitted[files[i]] <= 1 + cuts
        BY <1>t, <3>1 DEF OnceInv
      <4> QED
        BY <1>1, <2>1, <4>1, <4>2
    <3> QED
      BY <1>t, <3>2, <3>3 DEF OnceInv
  <2> QED
    BY <1>1, <2>2, <2>3 DEF OnceInv, redis
<1> QED
  BY <1>2, <1>3 DEF IInv

\* No lock expires under a flush.
LEMMA TickStep == "slow" \notin Faults /\ IInv /\ Tick => IInv'
<1> SUFFICES ASSUME "slow" \notin Faults, IInv, Tick PROVE IInv'
  OBVIOUS
<1>t. TypeOK /\ ListInv /\ StartInv /\ LockInv /\ ReadInv /\ OnceInv /\ KeptInv
  BY DEF IInv
<1>1. UNCHANGED <<adding, flush, arrived, submitted, pushed, cuts>> /\ now' \in Nat
  BY <1>t DEF Tick, TypeOK
<1>2. first' \in Int /\ last' \in Int
  BY <1>t DEF Tick, TypeOK, Unexpired, None
<1>3. lock' = lock \/ (lock.until <= now' /\ lock' = Free)
  BY DEF Tick
<1>4. files' = files \/ (files # <<>> /\ files' = <<>>)
  BY DEF Tick
<1>5. (files' = files /\ expired' = expired) \/ expired' # {}
  <2>1. files # <<>> => ToSet(files) # {}
    <3> SUFFICES ASSUME files # <<>> PROVE ToSet(files) # {}
      OBVIOUS
    <3>1. files \in Seq(Files)
      BY <1>t DEF TypeOK
    <3>2. 1 \in DOMAIN files
      BY <3>1
    <3> QED
      BY <3>2 DEF ToSet
  <2> QED
    BY <2>1 DEF Tick
<1>6. TypeOK'
  <2>1. lock'.by \in Flushes \union {Nobody} /\ lock'.until \in Nat
    BY <1>t, <1>3 DEF TypeOK, Free
  <2>2. files' \in Seq(Files)
    <3>1. files \in Seq(Files) /\ <<>> \in Seq(Files)
      BY <1>t DEF TypeOK
    <3> QED
      BY <1>4, <3>1
  <2> QED
    BY <1>t, <1>1, <1>2, <2>1, <2>2 DEF TypeOK
<1>7. LockInv'
  <2> SUFFICES ASSUME NEW k \in Flushes, flush[k].at \in Holding
               PROVE  lock'.by = k
    BY <1>1 DEF LockInv
  <2>1. flush[k].at \in {"submit", "trim"} /\ ~ Overruns(k)
    BY DEF Tick, Holding
  <2>2. ~ (lock.until <= now')
    BY <2>1 DEF Overruns, Tick
  <2> QED
    BY <1>t, <1>3, <2>2 DEF LockInv
<1>8. ListInv' /\ StartInv'
  BY <1>t, <1>1, <1>4 DEF ListInv, StartInv, Adding
<1>9. ReadInv'
  BY <1>t, <1>1, <1>4, <1>5 DEF ReadInv
<1>10. OnceInv'
  BY <1>t, <1>1, <1>4 DEF OnceInv
<1>11. KeptInv'
  BY <1>t, <1>1, <1>5 DEF KeptInv
<1> QED
  BY <1>6, <1>7, <1>8, <1>9, <1>10, <1>11 DEF IInv

-----------------------------------------------------------------------------

LEMMA Start == Init => IInv
<1> SUFFICES ASSUME Init PROVE IInv
  OBVIOUS
<1>1. Off \in FlushRec /\ Off.at = "off" /\ Idle.at = "idle" /\ Free.by = Nobody /\ Free.until = 0
  BY DEF Off, FlushRec, Labels, Idle, Free
<1>2. TypeOK
  BY <1>1 DEF Init, TypeOK, Idle, None
<1>3. LockInv /\ ReadInv /\ StartInv
  BY <1>1 DEF Init, LockInv, ReadInv, StartInv, Holding
<1>4. ListInv /\ OnceInv /\ KeptInv
  BY <1>1 DEF Init, ListInv, OnceInv, KeptInv
<1> QED
  BY <1>2, <1>3, <1>4 DEF IInv

LEMMA Step == "slow" \notin Faults /\ IInv /\ [Next]_vars => IInv'
<1> SUFFICES ASSUME "slow" \notin Faults, IInv, [Next]_vars PROVE IInv'
  OBVIOUS
<1>1. CASE AddStep
  BY <1>1, AddingStep, PushStep DEF AddStep
<1>2. ASSUME NEW f \in Files, Arrive(f)
      PROVE  IInv'
  BY <1>2, AddingStep
<1>3. ASSUME NEW k \in Flushes, FlushStep(k) \/ SubmitFails(k) \/ FlushBreaks(k)
      PROVE  IInv'
  BY <1>3, MovingStep, ReadStep, SubmitStep, TrimStep DEF FlushStep
<1>4. CASE AddBreaks
  BY <1>4, AddingStep
<1>5. CASE Crash
  BY <1>5, CrashStep
<1>6. CASE Tick
  BY <1>6, TickStep
<1>7. CASE UNCHANGED vars
  BY <1>7 DEF vars, redis, ghosts, IInv, TypeOK, LockInv, ListInv, StartInv, ReadInv, OnceInv, KeptInv, Adding
<1> QED
  BY <1>1, <1>2, <1>3, <1>4, <1>5, <1>6, <1>7 DEF Next

\* Type correctness, as long as no flush outlives its lock.
THEOREM UploadTypes == ASSUME "slow" \notin Faults PROVE Spec => []TypeOK
<1>1. Init => IInv
  BY Start
<1>2. IInv /\ [Next]_vars => IInv'
  BY Step
<1>3. IInv => TypeOK
  BY DEF IInv
<1> QED
  BY <1>1, <1>2, <1>3, PTL DEF Spec

\* Whatever fails, and for any windows and times to live: a file that came into the list
\* is in it until it has been submitted, as long as nothing in Redis has expired and no
\* flush outlives its lock (remove_submitted_files).
THEOREM FilesAreKept == ASSUME "slow" \notin Faults PROVE Spec => []Kept
<1>1. Init => IInv
  BY Start
<1>2. IInv /\ [Next]_vars => IInv'
  BY Step
<1>3. IInv => Kept
  BY Promptly
<1> QED
  BY <1>1, <1>2, <1>3, PTL DEF Spec

\* Likewise no file is handed to the task queue twice, but for those that a flush was cut
\* off with between the submission and the LTRIM (flush_upload_batch).
THEOREM FilesGoOnce == ASSUME "slow" \notin Faults PROVE Spec => []SubmittedOnce
<1>1. Init => IInv
  BY Start
<1>2. IInv /\ [Next]_vars => IInv'
  BY Step
<1>3. IInv => SubmittedOnce
  BY Promptly
<1> QED
  BY <1>1, <1>2, <1>3, PTL DEF Spec
=============================================================================
