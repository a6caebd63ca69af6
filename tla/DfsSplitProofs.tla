--------------------------- MODULE DfsSplitProofs ---------------------------
(***************************************************************************)
(* The split of handlePut is right for user files of any size.             *)
(***************************************************************************)
EXTENDS DfsSplit, TLAPS

(***************************************************************************)
(* The ciphertext that openssl makes of any file is four equal, non-empty  *)
(* quarters, and CeilQuarter is their length.                              *)
(***************************************************************************)
LEMMA EncryptedQuarters ==
  ASSUME NEW p \in Nat
  PROVE  \E q \in 1..EncryptedSize(p) :
           EncryptedSize(p) = 4 * q /\ CeilQuarter(EncryptedSize(p)) = q
<1> DEFINE b == p \div 16
           q == 4 + 4 * (b + 1)
<1>1. b \in Nat
  OBVIOUS
<1> HIDE DEF b
<1>2. 16 + 16 * (b + 1) = 4 * q
  BY <1>1
<1>3. (16 + 16 * (b + 1) + 3) \div 4 = q
  BY <1>1
<1>4. q \in 1..(16 + 16 * (b + 1))
  BY <1>1
<1> QED
  BY <1>2, <1>3, <1>4 DEF EncryptedSize, CeilQuarter, b

(***************************************************************************)
(* The loop starts at equal quarters: handlePut's ftell and ceil.          *)
(***************************************************************************)
LEMMA SplitInit == Init => IInv
<1> SUFFICES ASSUME Init PROVE IInv
  OBVIOUS
<1>1. PICK p \in PlainSizes : fileSize = EncryptedSize(p)
  BY DEF Init
<1>2. p \in Nat
  BY PlainSizesAssumption
<1>3. PICK q \in 1..fileSize : fileSize = 4 * q /\ CeilQuarter(fileSize) = q
  BY <1>1, <1>2, EncryptedQuarters
<1>4. fileSize \in Nat
  BY <1>1, <1>2 DEF EncryptedSize
<1>5. TypeOK
  BY <1>3, <1>4 DEF TypeOK, Init, Pieces
<1> QED
  BY <1>3, <1>4, <1>5 DEF IInv, Init, Pieces

(***************************************************************************)
(* One iteration of the loop keeps the pieces equal quarters.              *)
(***************************************************************************)
LEMMA SplitStep == IInv /\ [Next]_vars => IInv'
<1> SUFFICES ASSUME IInv, [Next]_vars PROVE IInv'
  OBVIOUS
<1> USE DEF Pieces
<1>1. PICK q \in 1..fileSize :
        /\ fileSize = 4 * q
        /\ fileSizeSent = i * q
        /\ filePieceLength = IF i < 4 THEN q ELSE 0
        /\ \A j \in Pieces : lengths[j] = IF j < i THEN q ELSE 0
  BY DEF IInv
<1>2. CASE SendPiece
  <2>1. q \in Nat \ {0} /\ fileSize \in Nat /\ i \in 0..3
    BY <1>2 DEF IInv, TypeOK, SendPiece
  <2>2. /\ fileSize' = 4 * q
        /\ i' = i + 1
        /\ fileSizeSent' = (i + 1) * q
    BY <1>1, <1>2, <2>1 DEF SendPiece
  <2>3. filePieceLength' = IF i' < 4 THEN q ELSE 0
    <3>1. filePieceLength' = NextLength(fileSizeSent', q)
      BY <1>1, <1>2, <2>1 DEF SendPiece
    <3>2. CASE i = 0
      BY <1>1, <2>1, <2>2, <3>1, <3>2 DEF NextLength
    <3>3. CASE i = 1
      BY <1>1, <2>1, <2>2, <3>1, <3>3 DEF NextLength
    <3>4. CASE i = 2
      BY <1>1, <2>1, <2>2, <3>1, <3>4 DEF NextLength
    <3>5. CASE i = 3
      BY <1>1, <2>1, <2>2, <3>1, <3>5 DEF NextLength
    <3> QED
      BY <2>1, <3>2, <3>3, <3>4, <3>5
  <2>4. \A j \in Pieces : lengths'[j] = IF j < i' THEN q ELSE 0
    BY <1>1, <1>2, <2>1 DEF SendPiece, IInv, TypeOK
  <2>5. TypeOK'
    <3>1. lengths' \in [Pieces -> Nat]
      BY <1>1, <1>2, <2>1 DEF SendPiece, IInv, TypeOK
    <3>2. fileSizeSent' \in Nat /\ filePieceLength' \in Nat
      BY <2>1, <2>2, <2>3
    <3> QED
      BY <2>1, <2>2, <3>1, <3>2 DEF TypeOK
  <2> QED
    BY <1>1, <2>1, <2>2, <2>3, <2>4, <2>5 DEF IInv
<1>3. CASE UNCHANGED vars
  BY <1>3 DEF IInv, TypeOK, vars
<1> QED
  BY <1>2, <1>3 DEF Next, Done

(***************************************************************************)
(* For files of every size: the four pieces that handlePut sends are the   *)
(* ciphertext, and it never reads past its buffer.                         *)
(***************************************************************************)
THEOREM SplitIsPartition == Spec => []PiecesPartitionFile
<1>1. IInv => PiecesPartitionFile
  <2> SUFFICES ASSUME IInv PROVE PiecesPartitionFile
    OBVIOUS
  <2>1. PICK q \in 1..fileSize :
          /\ fileSize = 4 * q
          /\ fileSizeSent = i * q
          /\ filePieceLength = IF i < 4 THEN q ELSE 0
          /\ \A j \in Pieces : lengths[j] = IF j < i THEN q ELSE 0
    BY DEF IInv
  <2>2. q \in Nat /\ i \in 0..4
    BY DEF IInv, TypeOK
  <2>3. CASE i = 4
    BY <2>1, <2>2, <2>3 DEF PiecesPartitionFile, Pieces
  <2>4. CASE i \in 0..3
    <3>1. (i + 1) * q <= 4 * q
      BY <2>2, <2>4
    <3> QED
      BY <2>1, <2>2, <2>4, <3>1 DEF PiecesPartitionFile
  <2> QED
    BY <2>2, <2>3, <2>4
<1> QED
  BY <1>1, SplitInit, SplitStep, PTL DEF Spec

(***************************************************************************)
(* For files of every size, the empty one included, no piece is empty, so  *)
(* every piece that dfs stores is one that its GET handler can find.       *)
(***************************************************************************)
THEOREM SplitHasNoEmptyPiece == Spec => []NoEmptyPiece
<1>1. IInv => NoEmptyPiece
  BY DEF IInv, NoEmptyPiece, Pieces, TypeOK
<1> QED
  BY <1>1, SplitInit, SplitStep, PTL DEF Spec
=============================================================================
