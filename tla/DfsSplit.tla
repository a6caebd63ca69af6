------------------------------ MODULE DfsSplit ------------------------------
(***************************************************************************)
(* How dfc cuts a file into the four pieces of a PUT (PA3/dfc.cpp,         *)
(* handlePut): the piece length is the ceiling of a quarter of the file,   *)
(* and after each piece it is shortened to what is left when the next      *)
(* piece would reach the end of the file.  The file that is cut is not the *)
(* user's: it is the output of "openssl aes-256-cbc -salt" (encryptFile),  *)
(* a 16-byte salt header followed by the padded 16-byte blocks.            *)
(*                                                                         *)
(* The four lengths matter beyond PUT: dfs recognises a stored piece by    *)
(* the bytes it can read from it, so a piece of length zero is stored but  *)
(* never found again by a GET.                                             *)
(***************************************************************************)
EXTENDS Naturals

CONSTANT
  PlainSizes   \* the sizes of user files, in bytes, that are considered

ASSUME PlainSizesAssumption == PlainSizes \subseteq Nat

VARIABLES
  fileSize,         \* size of the encrypted file, ftell at its end
  i,                \* index of the piece the loop is about to send
  fileSizeSent,     \* bytes handed to earlier pieces
  filePieceLength,  \* length of piece i
  lengths           \* lengths of the pieces sent so far (0 when not sent)

vars == <<fileSize, i, fileSizeSent, filePieceLength, lengths>>

Pieces == 0..3

\* Mutant of EncryptedSize: the user's file is sent without encrypting it.
EncryptedSizePlain(p) == p

\* The size of the salted, padded ciphertext of a file of p bytes.
EncryptedSize(p) == 16 + 16 * (p \div 16 + 1)

\* ceil( fileSize / 4.0 )
CeilQuarter(n) == (n + 3) \div 4

Init ==
  /\ \E p \in PlainSizes : fileSize = EncryptedSize(p)
  /\ i = 0
  /\ fileSizeSent = 0
  /\ filePieceLength = CeilQuarter(fileSize)
  /\ lengths = [j \in Pieces |-> 0]

\* Mutant of NextLength: subtracts the wrong operand.
NextLengthWrongOperand(sent, len) ==
  IF sent + len >= fileSize THEN fileSize - len ELSE len

\* The length the loop leaves behind for the next piece.
NextLength(sent, len) ==
  IF sent + len >= fileSize THEN fileSize - sent ELSE len

\* One iteration: the bytes [fileSizeSent, fileSizeSent + filePieceLength)
\* of the buffer become piece i.
SendPiece ==
  /\ i < 4
  /\ i' = i + 1
  /\ lengths' = [lengths EXCEPT ![i] = filePieceLength]
  /\ fileSizeSent' = fileSizeSent + filePieceLength
  /\ filePieceLength' = NextLength(fileSizeSent', filePieceLength)
  /\ UNCHANGED fileSize

Done == i = 4 /\ UNCHANGED vars

Next == SendPiece \/ Done

Spec == Init /\ [][Next]_vars

-----------------------------------------------------------------------------

TypeOK ==
  /\ fileSize \in Nat
  /\ i \in 0..4
  /\ fileSizeSent \in Nat
  /\ filePieceLength \in Nat
  /\ lengths \in [Pieces -> Nat]

(***************************************************************************)
(* The four pieces are consecutive ranges of fileBuffer that cover it      *)
(* exactly once.  handlePut copies filePieceLength bytes from fileSizeSent *)
(* on with no other check, and both are unsigned: a length that is not     *)
(* shortened in time reads past the buffer, one that is shortened too far  *)
(* leaves the end of the file behind.                                      *)
(***************************************************************************)
PiecesPartitionFile ==
  /\ i < 4 => fileSizeSent + filePieceLength <= fileSize
  /\ i = 4 =>
       /\ fileSizeSent = fileSize
       /\ lengths[0] + lengths[1] + lengths[2] + lengths[3] = fileSize

(***************************************************************************)
(* No piece is empty.  handleGetResponse in dfs.cpp takes an empty vector  *)
(* for a missing file, so an empty piece could be stored but never be      *)
(* retrieved.  It holds because the ciphertext is a multiple of 16 bytes;  *)
(* for a file of 5 bytes the loop itself would produce 2, 2, 1 and 0.      *)
(***************************************************************************)
NoEmptyPiece == \A j \in Pieces : j < i => lengths[j] > 0

(***************************************************************************)
(* The strengthening that makes the properties inductive: the pieces before *)
(* i are equal quarters.                                                   *)
(***************************************************************************)
IInv ==
  /\ TypeOK
  /\ \E q \in 1..fileSize :
       /\ fileSize = 4 * q
       /\ fileSizeSent = i * q
       /\ filePieceLength = IF i < 4 THEN q ELSE 0
       /\ \A j \in Pieces : lengths[j] = IF j < i THEN q ELSE 0
=============================================================================
