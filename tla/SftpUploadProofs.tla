---------------------------- MODULE SftpUploadProofs ----------------------------
(***************************************************************************)
(* Proofs about SftpUpload: types, whole objects, resumable temporary      *)
(* files, and that it implements AtomicStore.                              *)
(*                                                                         *)
(* The inductive invariant rests on the lock (Exclusive): two calls inside *)
(* have different targets, so a call alone decides about its temporary     *)
(* file, which it finds as it left it (TempThere).  As long as that file   *)
(* is beyond doubt, what a call has hashed and opened is one content, and  *)
(* the file grows along it (Steady).  A call casts doubt only when it has  *)
(* seen two contents: the one it measured, hashed or opened, it has seen   *)
(* (SeenNow).                                                              *)
(***************************************************************************)
EXTENDS SftpUpload, SequenceTheorems, TLAPS

Inside == {"stat", "hash", "check", "open", "copy", "rename", "return"}

\* A call inside holds the lock of its target.
Exclusive == \A u \in Uploaders : pc[u] \in Inside => lock[LockOf[Key(u)]] = u

\* The temporary file a call is about to extend or rename exists.
TempThere ==
    \A u \in Uploaders :
        /\ pc[u] \in {"copy", "rename"} => Temp(u) # Absent
        /\ pc[u] = "open" /\ offset[u] > 0 =>
               Temp(u) # Absent /\ Len(Temp(u)) = offset[u]

\* A temporary file beyond doubt grows along the content that was hashed.
Steady ==
    \A u \in Uploaders : Pair(u) \notin doubt =>
        /\ pc[u] = "copy" => data[u] = hash[u] /\ offset[u] = Len(Temp(u))
        /\ pc[u] = "rename" => Temp(u) = hash[u]

\* A call has seen the content its source has now, the one it measured and the
\* one it hashed.
SeenNow ==
    \A u \in Uploaders :
        /\ pc[u] # "idle" => source[File(u)] \in seen[u]
        /\ pc[u] \in {"hash", "check"} => \E c \in seen[u] : Len(c) = size[u]
        /\ pc[u] \in {"check", "open", "copy", "rename"} => hash[u] \in seen[u]

IInv == /\ TypeOK
        /\ Exclusive
        /\ TempThere
        /\ Steady
        /\ SeenNow
        /\ TempsResume
        /\ WholeObjects

-----------------------------------------------------------------------------
(* Beginnings of contents.                                                 *)

LEMMA WholePrefix ==
  ASSUME NEW c \in Seq(Blocks), NEW d \in Seq(Blocks), Prefix(d, c), Len(d) = Len(c)
  PROVE  d = c
  BY SeqEqual DEF Prefix

LEMMA EmptyPrefix ==
  ASSUME NEW c \in Seq(Blocks)
  PROVE  <<>> \in Seq(Blocks) /\ Len(<<>>) = 0 /\ Prefix(<<>>, c)
  BY EmptySeq, LenProperties DEF Prefix

LEMMA LongerPrefix ==
  ASSUME NEW c \in Seq(Blocks), NEW d \in Seq(Blocks), Prefix(d, c), Len(d) < Len(c)
  PROVE  LET e == Append(d, c[Len(d) + 1])
         IN  e \in Seq(Blocks) /\ Len(e) = Len(d) + 1 /\ Prefix(e, c)
  <1> DEFINE e == Append(d, c[Len(d) + 1])
  <1>1. Len(d) \in Nat /\ Len(c) \in Nat
    BY LenProperties
  <1>2. c[Len(d) + 1] \in Blocks
    BY <1>1, ElementOfSeq
  <1>3. /\ e \in Seq(Blocks) /\ Len(e) = Len(d) + 1
        /\ e[Len(d) + 1] = c[Len(d) + 1]
        /\ \A i \in 1..Len(d) : e[i] = d[i]
    BY <1>1, <1>2, AppendProperties
  <1>4. Prefix(e, c)
    BY <1>1, <1>3 DEF Prefix
  <1> QED BY <1>3, <1>4

-----------------------------------------------------------------------------
(* The invariant is inductive.                                             *)

LEMMA InitInvariant == Init => IInv
  BY SftpUploadAssumption, EmptySeq
  DEF Init, IInv, TypeOK, CallPCs, Exclusive, Inside, TempThere, Steady, SeenNow,
      TempsResume, WholeObjects

\* Two calls inside have different targets.
LEMMA InsideAlone ==
  ASSUME Exclusive, NEW u \in Uploaders, NEW v \in Uploaders, u # v,
         pc[u] \in Inside, pc[v] \in Inside
  PROVE  Key(u) # Key(v)
  BY DEF Exclusive

\* Steps that leave the temporary files alone leave what is said of them.
LEMMA ServerKept ==
  ASSUME TempsResume, WholeObjects, UNCHANGED <<server, broken>>, doubt \subseteq doubt'
  PROVE  TempsResume' /\ WholeObjects'
  BY DEF TempsResume, WholeObjects, server

LEMMA BeginKeeps ==
  ASSUME IInv, NEW u \in Uploaders, NEW f \in Files, NEW k \in Keys, Begin(u, f, k)
  PROVE  IInv'
  <1> USE DEF Begin, Goto, IInv, bounds, server
  <1>1. TypeOK'
    BY DEF TypeOK, CallPCs
  <1>2. \A v \in Uploaders : v # u => /\ pc'[v] = pc[v] /\ job'[v] = job[v]
                                      /\ size'[v] = size[v] /\ hash'[v] = hash[v]
                                      /\ data'[v] = data[v] /\ offset'[v] = offset[v]
                                      /\ seen'[v] = seen[v]
    BY DEF TypeOK
  <1>3. pc'[u] = "lock" /\ job'[u] = [file |-> f, key |-> k] /\ seen'[u] = {source[f]}
    BY DEF TypeOK
  <1>4. Exclusive'
    BY <1>2, <1>3 DEF Exclusive, Inside, Key
  <1>5. TempThere'
    BY <1>2, <1>3 DEF TempThere, Temp, Key
  <1>6. Steady'
    <2> SUFFICES ASSUME NEW v \in Uploaders, Pair(v)' \notin doubt',
                        pc'[v] \in {"copy", "rename"}
                 PROVE  /\ pc'[v] = "copy" => /\ data'[v] = hash'[v]
                                              /\ offset'[v] = Len(Temp(v)')
                        /\ pc'[v] = "rename" => Temp(v)' = hash'[v]
      BY DEF Steady
    <2>1. v # u
      BY <1>3
    <2>2. Temp(v)' = Temp(v) /\ Pair(v) \notin doubt
      BY <1>2, <2>1 DEF Temp, Key, Pair
    <2> QED BY <1>2, <2>1, <2>2 DEF Steady
  <1>7. SeenNow'
    BY <1>2, <1>3 DEF SeenNow, File
  <1> QED BY <1>1, <1>4, <1>5, <1>6, <1>7, ServerKept

LEMMA LockKeeps ==
  ASSUME IInv, NEW u \in Uploaders, Lock(u)
  PROVE  IInv'
  <1> USE SftpUploadAssumption DEF Lock, Goto, IInv, bounds, server, call, ghosts
  <1>1. TypeOK'
    BY DEF TypeOK, CallPCs, Key
  <1>2. Exclusive'
    BY DEF Exclusive, Inside, Key, TypeOK
  <1>3. TempThere' /\ Steady' /\ SeenNow'
    BY DEF TypeOK, TempThere, Steady, SeenNow, Temp, Key, File, Pair
  <1> QED BY <1>1, <1>2, <1>3, ServerKept

LEMMA StatKeeps ==
  ASSUME IInv, NEW u \in Uploaders, Stat(u)
  PROVE  IInv'
  <1> USE SftpUploadAssumption DEF Stat, Goto, IInv, bounds, server, ghosts
  <1>1. Len(source[File(u)]) \in Nat
    BY LenProperties DEF TypeOK, File
  <1>2. TypeOK'
    BY <1>1 DEF TypeOK, CallPCs
  <1>3. Exclusive' /\ TempThere' /\ SeenNow'
    BY DEF TypeOK, Exclusive, Inside, TempThere, SeenNow, Temp, Key, File
  <1>4. Steady'
    BY DEF TypeOK, Steady, Temp, Key, File, Pair
  <1> QED BY <1>2, <1>3, <1>4, ServerKept

LEMMA HashKeeps ==
  ASSUME IInv, NEW u \in Uploaders, Hash(u)
  PROVE  IInv'
  <1> USE DEF Hash, Goto, IInv, bounds, server, ghosts
  <1>1. TypeOK'
    BY DEF TypeOK, CallPCs, File
  <1>2. Exclusive' /\ TempThere' /\ SeenNow'
    BY DEF TypeOK, Exclusive, Inside, TempThere, SeenNow, Temp, Key, File
  <1>3. Steady'
    BY DEF TypeOK, Steady, Temp, Key, File, Pair
  <1> QED BY <1>1, <1>2, <1>3, ServerKept

LEMMA CheckKeeps ==
  ASSUME IInv, NEW u \in Uploaders, Check(u)
  PROVE  IInv'
  <1> USE SftpUploadAssumption DEF Check, Goto, IInv, bounds, server, ghosts
  <1>1. Temp(u) # Absent => Temp(u) \in Seq(Blocks) /\ Len(Temp(u)) \in Nat
    BY LenProperties DEF TypeOK, Temp, Key
  <1>2. TypeOK'
    BY <1>1 DEF TypeOK, CallPCs, Partial, SizeDoubt, Pair, Key
  <1>3. Exclusive' /\ SeenNow'
    BY DEF TypeOK, Exclusive, Inside, SeenNow, Key, File
  <1>4. TempThere'
    BY <1>1 DEF TypeOK, TempThere, Temp, Key, Whole, Partial
  <1>5. doubt \subseteq doubt'
    BY DEF SizeDoubt
  <1>6. ASSUME Pair(u) \notin doubt', Whole(u, Temp(u))
        PROVE  Temp(u) = hash[u]
    <2>1. Len(Temp(u)) = Len(hash[u]) /\ Pair(u) \notin doubt
      BY <1>6 DEF SizeDoubt, Whole
    <2>2. Prefix(Temp(u), hash[u])
      BY <1>6, <2>1 DEF TempsResume, Temp, Key, Pair, Whole, TypeOK
    <2>3. hash[u] \in Seq(Blocks)
      BY DEF TypeOK
    <2> QED BY <1>1, <1>6, <2>1, <2>2, <2>3, WholePrefix DEF Whole
  <1>7. Steady'
    BY <1>5, <1>6 DEF TypeOK, Steady, Temp, Key, File, Pair
  <1> QED BY <1>2, <1>3, <1>4, <1>5, <1>7, ServerKept

LEMMA CopiedKeeps ==
  ASSUME IInv, NEW u \in Uploaders, Copied(u)
  PROVE  IInv'
  <1> USE SftpUploadAssumption DEF Copied, Goto, IInv, bounds, server, call, ghosts
  <1>1. TypeOK'
    BY DEF TypeOK, CallPCs
  <1>2. Exclusive' /\ TempThere' /\ SeenNow'
    BY DEF TypeOK, Exclusive, Inside, TempThere, SeenNow, Temp, Key, File
  <1>3. ASSUME Pair(u) \notin doubt
        PROVE  Temp(u) = hash[u]
    <2>1. Temp(u) \in Seq(Blocks) /\ hash[u] \in Seq(Blocks)
      BY DEF TypeOK, TempThere, Temp, Key
    <2>2. Prefix(Temp(u), hash[u])
      BY <1>3, <2>1 DEF TempsResume, TempThere, Temp, Key, Pair, TypeOK
    <2>3. Len(Temp(u)) >= Len(hash[u])
      BY <1>3 DEF Steady
    <2>4. Len(Temp(u)) = Len(hash[u])
      BY <2>1, <2>2, <2>3, LenProperties DEF Prefix
    <2> QED BY <2>1, <2>2, <2>4, WholePrefix
  <1>4. Steady'
    BY <1>3 DEF TypeOK, Steady, Temp, Key, File, Pair
  <1> QED BY <1>1, <1>2, <1>4, ServerKept

LEMMA FailsKeeps ==
  ASSUME IInv, NEW u \in Uploaders, Fails(u)
  PROVE  IInv'
  <1> USE SftpUploadAssumption DEF Fails, End, Trouble, Goto, IInv, server, call,
          ghosts
  <1>1. TypeOK'
    BY DEF TypeOK, CallPCs
  <1>2. Exclusive' /\ TempThere' /\ SeenNow'
    BY DEF TypeOK, Exclusive, Inside, TempThere, SeenNow, Temp, Key, File
  <1>3. Steady'
    BY DEF TypeOK, Steady, Temp, Key, File, Pair
  <1> QED BY <1>1, <1>2, <1>3, ServerKept

LEMMA ReturnKeeps ==
  ASSUME IInv, NEW u \in Uploaders, Return(u)
  PROVE  IInv'
  <1> USE SftpUploadAssumption DEF Return, Goto, IInv, bounds, server, call, ghosts
  <1>1. TypeOK'
    BY DEF TypeOK, CallPCs, Key
  <1>2. Exclusive'
    <2> SUFFICES ASSUME NEW v \in Uploaders, pc'[v] \in Inside
                 PROVE  lock'[LockOf[Key(v)']] = v
      BY DEF Exclusive
    <2>1. v # u /\ pc[v] \in Inside /\ Key(v)' = Key(v)
      BY DEF Inside, TypeOK, Key
    <2>2. lock[LockOf[Key(v)]] = v /\ lock[LockOf[Key(u)]] = u
      BY <2>1 DEF Exclusive, Inside
    <2> QED BY <2>1, <2>2 DEF TypeOK, Key
  <1>3. TempThere' /\ SeenNow'
    BY DEF TypeOK, TempThere, SeenNow, Temp, Key, File
  <1>4. Steady'
    BY DEF TypeOK, Steady, Temp, Key, File, Pair
  <1> QED BY <1>1, <1>2, <1>3, <1>4, ServerKept

-----------------------------------------------------------------------------
(* The steps that change the server.                                       *)

\* What a call does to its temporary file and target, the calls inside do not
\* see: their targets are others.
LEMMA OthersKept ==
  ASSUME IInv, NEW u \in Uploaders, pc[u] \in Inside, NEW d, SetTemp(u, d),
         UNCHANGED <<job, hash>>,
         doubt' \in {doubt, doubt \cup {Pair(u)}, doubt \ {Pair(u)}},
         NEW v \in Uploaders, v # u, pc[v] \in Inside
  PROVE  Temp(v)' = Temp(v) /\ (Pair(v)' \in doubt' <=> Pair(v) \in doubt)
  <1>1. Key(u) # Key(v)
    BY InsideAlone DEF IInv
  <1>2. Temp(v)' = Temp(v)
    BY <1>1 DEF SetTemp, Temp, Key, IInv, TypeOK
  <1>3. Pair(v)' = Pair(v) /\ Pair(v) # Pair(u)
    BY <1>1 DEF Pair, Key
  <1> QED BY <1>2, <1>3

LEMMA OpenKeeps ==
  ASSUME IInv, NEW u \in Uploaders, Open(u)
  PROVE  IInv'
  <1> USE SftpUploadAssumption DEF Open, Goto, IInv, bounds, ghosts
  <1> DEFINE d == IF offset[u] > 0 THEN Temp(u) ELSE <<>>
  <1>1. SetTemp(u, d)
    BY DEF SetTemp, Temp, Key, TypeOK
  <1>2. d \in Seq(Blocks) /\ Temp(u)' = d
    BY <1>1, EmptySeq DEF TempThere, SetTemp, Temp, Key, TypeOK
  <1>3. TypeOK'
    BY <1>1, <1>2 DEF TypeOK, CallPCs, SetTemp, Key, File, DataDoubt, Pair
  <1>4. \A v \in Uploaders : v # u /\ pc[v] \in Inside =>
            /\ pc'[v] = pc[v] /\ offset'[v] = offset[v] /\ data'[v] = data[v]
            /\ Temp(v)' = Temp(v) /\ (Pair(v)' \in doubt' <=> Pair(v) \in doubt)
    BY <1>1, OthersKept DEF TypeOK, Inside, DataDoubt
  <1>5. Exclusive' /\ SeenNow'
    BY DEF TypeOK, Exclusive, Inside, SeenNow, Key, File
  <1>6. d # Absent /\ Len(d) = offset[u]
    <2>1. d # Absent
      BY <1>2
    <2>2. CASE offset[u] > 0
      BY <2>1, <2>2 DEF TempThere
    <2>3. CASE ~(offset[u] > 0)
      <3>1. offset[u] = 0
        BY <2>3 DEF TypeOK
      <3> QED BY <2>1, <2>3, <3>1, EmptyPrefix DEF TypeOK
    <2> QED BY <2>2, <2>3
  <1>7. TempThere'
    BY <1>2, <1>4, <1>6 DEF TempThere, TypeOK, Inside
  <1>8. Steady'
    <2>1. Pair(u) \notin doubt' => source[File(u)] = hash[u]
      BY DEF DataDoubt
    <2>2. Pair(u)' = Pair(u)
      BY DEF Pair, Key
    <2> QED BY <1>2, <1>4, <1>6, <2>1, <2>2 DEF Steady, TypeOK, Inside, File
  <1>9. TempsResume'
    <2> SUFFICES ASSUME NEW k \in Keys, NEW c \in Contents, <<k, c>> \notin doubt',
                        temp'[k][c] # Absent
                 PROVE  Prefix(temp'[k][c], c)
      BY DEF TempsResume
    <2>1. CASE <<k, c>> = Pair(u) /\ offset[u] > 0
      <3>1. <<k, c>> \notin doubt /\ temp' = temp
        BY <2>1 DEF DataDoubt
      <3> QED BY <3>1 DEF TempsResume
    <2>2. CASE <<k, c>> = Pair(u) /\ ~(offset[u] > 0)
      <3>1. temp'[k][c] = <<>>
        BY <1>1, <2>2 DEF SetTemp, Pair, TypeOK
      <3>2. c \in Seq(Blocks)
        OBVIOUS
      <3> QED BY <3>1, <3>2, EmptyPrefix
    <2>3. CASE <<k, c>> # Pair(u)
      <3>1. <<k, c>> \notin doubt
        BY <2>3 DEF DataDoubt
      <3>2. temp'[k][c] = temp[k][c]
        BY <1>1, <2>3 DEF SetTemp, Pair, Key, TypeOK
      <3> QED BY <3>1, <3>2 DEF TempsResume
    <2> QED BY <2>1, <2>2, <2>3
  <1>10. WholeObjects'
    BY DEF WholeObjects
  <1> QED BY <1>3, <1>5, <1>7, <1>8, <1>9, <1>10

LEMMA CopyKeeps ==
  ASSUME IInv, NEW u \in Uploaders, Copy(u)
  PROVE  IInv'
  <1> USE SftpUploadAssumption DEF Copy, IInv, bounds, ghosts
  <1> DEFINE b == data[u][offset[u] + 1]
             d == Append(Temp(u), b)
  <1>1. Temp(u) \in Seq(Blocks) /\ data[u] \in Seq(Blocks) /\ Len(data[u]) \in Nat
    BY LenProperties DEF TempThere, TypeOK, Temp, Key
  <1>2. b \in Blocks
    BY <1>1, ElementOfSeq DEF TypeOK
  <1>3. d \in Seq(Blocks) /\ Len(d) = Len(Temp(u)) + 1 /\ d # Absent
    BY <1>1, <1>2, AppendProperties
  <1>4. Temp(u)' = d
    BY DEF SetTemp, Temp, Key, TypeOK
  <1>5. TypeOK'
    BY <1>3 DEF TypeOK, SetTemp, Key
  <1>6. \A v \in Uploaders : v # u /\ pc[v] \in Inside =>
            /\ pc'[v] = pc[v] /\ offset'[v] = offset[v] /\ data'[v] = data[v]
            /\ Temp(v)' = Temp(v) /\ (Pair(v)' \in doubt' <=> Pair(v) \in doubt)
    BY OthersKept DEF TypeOK, Inside
  <1>7. Exclusive' /\ SeenNow'
    BY DEF TypeOK, Exclusive, SeenNow, Key, File
  <1>8. TempThere'
    BY <1>3, <1>4, <1>6 DEF TempThere, TypeOK, Inside
  <1>9. Steady'
    BY <1>3, <1>4, <1>6 DEF Steady, TypeOK, Inside, Pair, Key
  <1>10. TempsResume'
    <2>1. ASSUME Pair(u) \notin doubt PROVE Prefix(d, hash[u])
      <3>1. data[u] = hash[u] /\ offset[u] = Len(Temp(u))
        BY <2>1 DEF Steady
      <3>2. Prefix(Temp(u), hash[u])
        BY <1>1, <2>1 DEF TempsResume, Temp, Key, Pair, TypeOK
      <3> QED BY <1>1, <3>1, <3>2, LongerPrefix
    <2> QED BY <2>1 DEF TempsResume, TypeOK, SetTemp, Pair, Key
  <1>11. WholeObjects'
    BY DEF WholeObjects
  <1> QED BY <1>5, <1>7, <1>8, <1>9, <1>10, <1>11

LEMMA MoveKeeps ==
  ASSUME IInv, NEW u \in Uploaders, Rename(u) \/ RenameLost(u)
  PROVE  IInv'
  <1> USE SftpUploadAssumption DEF IInv
  <1>1. /\ pc[u] = "rename" /\ pc' = [pc EXCEPT ![u] = "return"]
        /\ Move(u) /\ SetTemp(u, Absent)
        /\ UNCHANGED <<source, lock, job, size, hash, data, offset, answer, seen>>
        /\ outcome' \in [Uploaders -> {"ok", "error", "lost"}]
        /\ faults' \in 0..MaxFaults /\ replaced' \in 0..MaxReplaced
    <2>1. CASE Rename(u)
      <3>1. outcome' \in [Uploaders -> {"ok", "error", "lost"}]
        BY <2>1 DEF Rename, End, TypeOK
      <3>2. faults' \in 0..MaxFaults /\ replaced' \in 0..MaxReplaced
        BY <2>1 DEF Rename, bounds, TypeOK
      <3> QED BY <2>1, <3>1, <3>2 DEF Rename, End, Goto, Move, call, ghosts
    <2>2. CASE RenameLost(u)
      <3>1. outcome' \in [Uploaders -> {"ok", "error", "lost"}]
        BY <2>2 DEF RenameLost, End, TypeOK
      <3>2. faults' \in 0..MaxFaults /\ replaced' \in 0..MaxReplaced
        BY <2>2 DEF RenameLost, Trouble, TypeOK
      <3> QED BY <2>2, <3>1, <3>2 DEF RenameLost, End, Goto, Move, call, ghosts
    <2> QED BY <2>1, <2>2
  <1>2. Temp(u) \in Seq(Blocks)
    BY <1>1 DEF TempThere, TypeOK, Temp, Key
  <1>3. TypeOK'
    BY <1>1, <1>2 DEF TypeOK, CallPCs, Move, SetTemp, Key
  <1>4. \A v \in Uploaders : v # u /\ pc[v] \in Inside =>
            /\ pc'[v] = pc[v] /\ Temp(v)' = Temp(v)
            /\ Pair(v)' \in doubt' <=> Pair(v) \in doubt
    BY <1>1, OthersKept DEF TypeOK, Inside, Move
  <1>5. Exclusive' /\ SeenNow'
    BY <1>1 DEF TypeOK, Exclusive, Inside, SeenNow, Key, File
  <1>6. TempThere'
    BY <1>1, <1>4 DEF TempThere, TypeOK, Inside
  <1>7. Steady'
    BY <1>1, <1>4 DEF Steady, TypeOK, Inside, Key, File
  <1>8. TempsResume'
    BY <1>1 DEF TempsResume, TypeOK, SetTemp, Move, Pair, Key
  <1>9. WholeObjects'
    <2>1. Pair(u) \notin doubt => Temp(u) \in Contents
      BY <1>1 DEF Steady, TypeOK
    <2> QED BY <1>1, <2>1 DEF WholeObjects, Move, TypeOK, Key
  <1> QED BY <1>3, <1>5, <1>6, <1>7, <1>8, <1>9

-----------------------------------------------------------------------------
(* The environment, and the whole.                                         *)

LEMMA ReplaceKeeps ==
  ASSUME IInv, NEW f \in Files, NEW c \in Contents, Replace(f, c)
  PROVE  IInv'
  <1> USE SftpUploadAssumption DEF Replace, IInv, server, call
  <1>1. TypeOK'
    BY DEF TypeOK
  <1>2. Exclusive' /\ TempThere' /\ Steady'
    BY DEF Exclusive, TempThere, Steady, Temp, Pair, Key
  <1>3. SeenNow'
    <2> SUFFICES ASSUME NEW v \in Uploaders
                 PROVE  /\ pc[v] # "idle" => source'[File(v)] \in seen'[v]
                        /\ seen[v] \subseteq seen'[v]
      BY DEF SeenNow, File
    <2>1. CASE File(v) = f
      BY <2>1 DEF TypeOK, SeenNow
    <2>2. CASE File(v) # f
      BY <2>2 DEF TypeOK, SeenNow, File
    <2> QED BY <2>1, <2>2
  <1> QED BY <1>1, <1>2, <1>3, ServerKept

LEMMA CrashKeeps ==
  ASSUME IInv, Crash
  PROVE  IInv'
  <1> USE SftpUploadAssumption DEF Crash, Trouble, IInv, server, call, ghosts
  <1>1. TypeOK'
    BY DEF TypeOK, CallPCs
  <1>2. Exclusive' /\ TempThere' /\ Steady' /\ SeenNow'
    BY DEF Exclusive, Inside, TempThere, Steady, SeenNow
  <1> QED BY <1>1, <1>2, ServerKept

LEMMA StutterKeeps ==
  ASSUME IInv, UNCHANGED vars
  PROVE  IInv'
  <1> USE DEF IInv, vars, server, call, ghosts, bounds
  <1>1. TypeOK' /\ Exclusive' /\ SeenNow'
    BY DEF TypeOK, Exclusive, SeenNow, Key, File
  <1>2. TempThere' /\ Steady'
    BY DEF TempThere, Steady, Temp, Key, File, Pair
  <1> QED BY <1>1, <1>2, ServerKept

LEMMA NextInvariant == IInv /\ [Next]_vars => IInv'
  BY BeginKeeps, LockKeeps, StatKeeps, HashKeeps, CheckKeeps, CopiedKeeps,
     FailsKeeps, ReturnKeeps, OpenKeeps, CopyKeeps, MoveKeeps, ReplaceKeeps,
     CrashKeeps, StutterKeeps
  DEF Next, Progress

LEMMA Invariant == Spec => []IInv
  BY InitInvariant, NextInvariant, PTL DEF Spec

\* Types, whatever the uploads, sources, contents, stripes and faults.
THEOREM TypeCorrect == Spec => []TypeOK
  <1>1. IInv => TypeOK
    BY DEF IInv
  <1> QED BY <1>1, Invariant, PTL

\* No interleaving of uploads, failure or crash leaves a part of a content or a
\* mixture of two on a target, unless the temporary file renamed over it last
\* was in doubt.
THEOREM ObjectsAreWhole == Spec => []WholeObjects
  <1>1. IInv => WholeObjects
    BY DEF IInv
  <1> QED BY <1>1, Invariant, PTL

\* Every temporary file left behind is a beginning of the content it is named
\* after, so that resuming it is right, unless it is in doubt.
THEOREM TempsAreResumable == Spec => []TempsResume
  <1>1. IInv => TempsResume
    BY DEF IInv
  <1> QED BY <1>1, Invariant, PTL

-----------------------------------------------------------------------------
(* SftpUpload implements AtomicStore.                                      *)

\* The phase of a call depends on the call alone.
LEMMA PhaseOf ==
  ASSUME NEW v \in Uploaders
  PROVE  /\ phase[v] = "idle" <=> pc[v] = "idle"
         /\ phase[v] = "stored" <=> pc[v] = "return" /\ outcome[v] # "error"
         /\ phase[v] = "busy" <=> /\ pc[v] # "idle"
                                  /\ ~(pc[v] = "return" /\ outcome[v] # "error")
  BY DEF phase

LEMMA PhaseKept ==
  ASSUME NEW v \in Uploaders, pc'[v] = pc[v], outcome'[v] = outcome[v]
  PROVE  phase'[v] = phase[v]
  BY DEF phase

\* A step of a call that neither begins, stores nor answers.
LEMMA InnerPhase ==
  ASSUME NEW u \in Uploaders, phase[u] = "busy", phase'[u] = "busy",
         \A v \in Uploaders : v # u => pc'[v] = pc[v] /\ outcome'[v] = outcome[v]
  PROVE  phase' = phase
  <1>1. \A v \in Uploaders : phase'[v] = phase[v]
    BY PhaseKept
  <1> QED BY <1>1 DEF phase

\* The phases after a step of one call.
LEMMA PhaseMoves ==
  ASSUME NEW u \in Uploaders, NEW q, phase'[u] = q,
         \A v \in Uploaders : v # u => pc'[v] = pc[v] /\ outcome'[v] = outcome[v]
  PROVE  phase' = [phase EXCEPT ![u] = q]
  <1>1. \A v \in Uploaders : v # u => phase'[v] = phase[v]
    BY PhaseKept
  <1>2. phase = [v \in Uploaders |-> phase[v]]
    BY DEF phase
  <1>3. phase' = [v \in Uploaders |-> phase'[v]]
    BY DEF phase
  <1> QED BY <1>1, <1>2, <1>3

LEMMA InitMaps == Init => Abstract!Init
  <1> SUFFICES ASSUME Init PROVE Abstract!Init
    OBVIOUS
  <1>1. phase = [u \in Uploaders |-> "idle"]
    BY DEF Init, phase
  <1> QED BY <1>1 DEF Init, Abstract!Init

LEMMA BeginMaps ==
  ASSUME TypeOK, NEW u \in Uploaders, NEW f \in Files, NEW k \in Keys, Begin(u, f, k)
  PROVE  Abstract!Begin(u, f, k)
  <1>1. phase[u] = "idle"
    BY PhaseOf DEF Begin
  <1>2. phase'[u] = "busy"
    BY DEF Begin, Goto, phase, TypeOK
  <1>3. phase' = [phase EXCEPT ![u] = "busy"]
    BY <1>2, PhaseMoves DEF Begin, Goto, TypeOK
  <1> QED BY <1>1, <1>3 DEF Begin, server, Abstract!Begin

LEMMA MoveMaps ==
  ASSUME IInv, NEW u \in Uploaders, Rename(u) \/ RenameLost(u)
  PROVE  hash[u] \in Contents /\ Abstract!Store(u, hash[u])
  <1> USE SftpUploadAssumption
  <1>1. /\ pc[u] = "rename" /\ pc' = [pc EXCEPT ![u] = "return"]
        /\ outcome' = [outcome EXCEPT ![u] = "ok"]
             \/ outcome' = [outcome EXCEPT ![u] = "lost"]
        /\ final' = [final EXCEPT ![Key(u)] = Temp(u)]
        /\ broken' = IF Pair(u) \in doubt THEN broken \cup {Key(u)}
                                           ELSE broken \ {Key(u)}
        /\ doubt' = doubt \ {Pair(u)}
        /\ UNCHANGED <<source, job, answer, seen>>
    BY DEF Rename, RenameLost, End, Goto, Move, call, ghosts
  <1>2. phase[u] = "busy"
    BY <1>1, PhaseOf
  <1>3. pc'[u] = "return" /\ outcome'[u] # "error"
    BY <1>1 DEF IInv, TypeOK
  <1>4. phase'[u] = "stored"
    BY <1>3 DEF phase
  <1>5. phase' = [phase EXCEPT ![u] = "stored"]
    BY <1>1, <1>4, PhaseMoves DEF IInv, TypeOK
  <1>6. Temp(u) \in Seq(Blocks)
    BY <1>1 DEF IInv, TempThere, TypeOK, Temp, Key
  <1>7. /\ hash[u] \in Contents /\ hash[u] \in seen[u]
        /\ Pair(u) \notin doubt => Temp(u) = hash[u]
    BY <1>1 DEF IInv, Steady, SeenNow, TypeOK
  <1>8. final'[Key(u)] = Temp(u) /\ final' = [final EXCEPT ![Key(u)] = final'[Key(u)]]
    BY <1>1 DEF IInv, TypeOK, Key
  <1> QED BY <1>1, <1>2, <1>5, <1>6, <1>7, <1>8 DEF Abstract!Store, Key, Pair

LEMMA ReturnMaps ==
  ASSUME TypeOK, NEW u \in Uploaders, Return(u)
  PROVE  \E a \in {"ok", "error"} : Abstract!Answer(u, a)
  <1> DEFINE a == IF outcome[u] = "ok" THEN "ok" ELSE "error"
  <1>1. phase[u] # "idle" /\ (a = "ok" => phase[u] = "stored")
    BY PhaseOf DEF Return
  <1>2. phase'[u] = "idle"
    BY DEF Return, Goto, phase, TypeOK
  <1>3. phase' = [phase EXCEPT ![u] = "idle"]
    BY <1>2, PhaseMoves DEF Return, Goto, TypeOK
  <1>4. Abstract!Answer(u, a)
    BY <1>1, <1>3 DEF Return, server, call, ghosts, Abstract!Answer
  <1> QED BY <1>4

LEMMA ReplaceMaps ==
  ASSUME TypeOK, NEW f \in Files, NEW c \in Contents, Replace(f, c)
  PROVE  Abstract!Replace(f, c)
  <1>1. phase' = phase
    BY DEF Replace, phase
  <1>2. seen' = [u \in Uploaders |->
                    IF phase[u] # "idle" /\ job[u].file = f
                    THEN seen[u] \cup {c} ELSE seen[u]]
    BY PhaseOf DEF Replace, File
  <1> QED BY <1>1, <1>2 DEF Replace, server, call, Abstract!Replace

LEMMA CrashMaps ==
  ASSUME Crash
  PROVE  Abstract!Crash
  <1>1. phase' = [u \in Uploaders |-> "idle"]
    BY DEF Crash, phase
  <1> QED BY <1>1 DEF Crash, server, call, ghosts, Abstract!Crash

\* The steps that are seen only by the call itself.
LEMMA InnerBusy ==
  ASSUME TypeOK, NEW u \in Uploaders,
         \/ Lock(u) \/ Stat(u) \/ Hash(u) \/ Check(u) \/ Open(u) \/ Copy(u)
         \/ Copied(u) \/ Fails(u)
  PROVE  phase[u] = "busy" /\ phase' = phase
  <1>1. /\ pc[u] \in {"lock", "stat", "hash", "check", "open", "copy", "rename"}
        /\ \/ outcome' = outcome
           \/ outcome' = [outcome EXCEPT ![u] = "error"] /\ Fails(u)
    BY DEF Lock, Stat, Hash, Check, Open, Copy, Copied, Fails, End
  <1>2. /\ pc'[u] # "idle"
        /\ pc'[u] = "return" => Fails(u)
        /\ \A v \in Uploaders : v # u => pc'[v] = pc[v]
    BY DEF Lock, Stat, Hash, Check, Open, Copy, Copied, Fails, End, Goto, TypeOK
  <1>3. Fails(u) => outcome'[u] = "error"
    BY DEF Fails, End, TypeOK
  <1>4. \A v \in Uploaders : v # u => outcome'[v] = outcome[v]
    BY <1>1 DEF TypeOK
  <1>5. phase[u] = "busy"
    BY <1>1 DEF phase
  <1>6. phase'[u] = "busy"
    BY <1>2, <1>3 DEF phase
  <1> QED BY <1>2, <1>4, <1>5, <1>6, InnerPhase

LEMMA InnerMaps ==
  ASSUME TypeOK, NEW u \in Uploaders,
         \/ Lock(u) \/ Stat(u) \/ Hash(u) \/ Copy(u) \/ Copied(u) \/ Fails(u)
  PROVE  UNCHANGED Abstract!vars
  <1>1. phase' = phase
    BY InnerBusy
  <1>2. UNCHANGED <<source, final, job, seen, answer, doubt, broken>>
    BY DEF Lock, Stat, Hash, Copy, Copied, Fails, End, server, call, ghosts
  <1> QED BY <1>1, <1>2 DEF Abstract!vars

\* A call that has measured or opened another content than it hashed has seen
\* both.
LEMMA DoubtMaps ==
  ASSUME IInv, NEW u \in Uploaders, Check(u) \/ Open(u)
  PROVE  [Abstract!Next]_(Abstract!vars)
  <1>1. phase[u] = "busy" /\ phase' = phase
    BY InnerBusy DEF IInv
  <1>2. UNCHANGED <<source, final, job, seen, answer, broken>>
    BY DEF Check, Open, server
  <1>3. hash[u] \in Contents /\ hash[u] \in seen[u] /\ Pair(u) = <<job[u].key, hash[u]>>
    BY DEF Check, Open, IInv, SeenNow, TypeOK, Pair, Key
  <1>4. CASE doubt' = doubt
    BY <1>1, <1>2, <1>4 DEF Abstract!vars
  <1>5. CASE doubt' = doubt \ {Pair(u)}
    <2>1. Abstract!Settle(u, hash[u])
      BY <1>1, <1>2, <1>3, <1>5 DEF Abstract!Settle
    <2> QED BY <1>3, <2>1 DEF Abstract!Next
  <1>6. CASE doubt' # doubt /\ doubt' = doubt \cup {Pair(u)}
    <2>1. CASE Check(u)
      <3>1. Len(hash[u]) # size[u]
        BY <1>6, <2>1 DEF Check, SizeDoubt
      <3>2. PICK d \in seen[u] : Len(d) = size[u]
        BY <2>1 DEF Check, IInv, SeenNow
      <3>3. Abstract!Doubt(u, hash[u])
        BY <1>1, <1>2, <1>3, <1>6, <3>1, <3>2 DEF Abstract!Doubt
      <3> QED BY <1>3, <3>3 DEF Abstract!Next
    <2>2. CASE Open(u)
      <3>1. source[File(u)] # hash[u]
        BY <1>6, <2>2 DEF Open, DataDoubt
      <3>2. source[File(u)] \in seen[u]
        BY <2>2 DEF Open, IInv, SeenNow
      <3>3. Abstract!Doubt(u, hash[u])
        BY <1>1, <1>2, <1>3, <1>6, <3>1, <3>2 DEF Abstract!Doubt
      <3> QED BY <1>3, <3>3 DEF Abstract!Next
    <2> QED BY <2>1, <2>2
  <1> QED BY <1>4, <1>5, <1>6 DEF Check, Open, SizeDoubt, DataDoubt

LEMMA NextMaps == IInv /\ [Next]_vars => [Abstract!Next]_(Abstract!vars)
  <1> SUFFICES ASSUME IInv, [Next]_vars PROVE [Abstract!Next]_(Abstract!vars)
    OBVIOUS
  <1>1. TypeOK
    BY DEF IInv
  <1>2. ASSUME NEW u \in Uploaders, NEW f \in Files, NEW k \in Keys, Begin(u, f, k)
        PROVE  [Abstract!Next]_(Abstract!vars)
    BY <1>1, <1>2, BeginMaps DEF Abstract!Next
  <1>3. ASSUME NEW u \in Uploaders, Rename(u) \/ RenameLost(u)
        PROVE  [Abstract!Next]_(Abstract!vars)
    BY <1>3, MoveMaps DEF Abstract!Next
  <1>4. ASSUME NEW u \in Uploaders, Return(u)
        PROVE  [Abstract!Next]_(Abstract!vars)
    BY <1>1, <1>4, ReturnMaps DEF Abstract!Next
  <1>5. ASSUME NEW u \in Uploaders,
               \/ Lock(u) \/ Stat(u) \/ Hash(u) \/ Copy(u) \/ Copied(u) \/ Fails(u)
        PROVE  [Abstract!Next]_(Abstract!vars)
    BY <1>1, <1>5, InnerMaps
  <1>9. ASSUME NEW u \in Uploaders, Check(u) \/ Open(u)
        PROVE  [Abstract!Next]_(Abstract!vars)
    BY <1>9, DoubtMaps
  <1>6. ASSUME NEW f \in Files, NEW c \in Contents, Replace(f, c)
        PROVE  [Abstract!Next]_(Abstract!vars)
    BY <1>1, <1>6, ReplaceMaps DEF Abstract!Next
  <1>7. CASE Crash
    BY <1>7, CrashMaps DEF Abstract!Next
  <1>8. CASE UNCHANGED vars
    BY <1>8 DEF vars, Abstract!vars, phase, server, call, ghosts
  <1> QED BY <1>2, <1>3, <1>4, <1>5, <1>9, <1>6, <1>7, <1>8 DEF Next, Progress

\* UploadFile is an atomic put with an honest answer: every step of it maps to
\* a step of AtomicStore or to none.
THEOREM UploadsAreAtomic == Spec => AtomicUploads
  BY InitMaps, NextMaps, Invariant, PTL DEF Spec, AtomicUploads, Abstract!Spec
=============================================================================
