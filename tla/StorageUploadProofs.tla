------------------------- MODULE StorageUploadProofs -------------------------
(***************************************************************************)
(* Proofs that the storage byte round-trips, for every value of the        *)
(* constants, and that the IPFS branch reads only the first HashBytes      *)
(* bytes of the digest: two multihashes whose digests agree on them give   *)
(* the same H256, whatever follows.                                         *)
(***************************************************************************)
EXTENDS StorageUpload, SequenceTheorems, TLAPS

\* The state is the initial one or the outcome of the call recorded.
IInv ==
    /\ call \in Inputs
    /\ result \in {None, UploadToStorage(call)}

(* Storage::to_u8 undoes Storage::from on every byte. *)
LEMMA FromToU8 ==
    ASSUME NEW n \in 0..255
    PROVE  ToU8(From(n)) = n
BY DEF From, ToU8

(* Only the bytes of SWARM and IPFS can give an Ok. *)
LEMMA OkOnlyKnown ==
    ASSUME NEW in \in Inputs, UploadToStorage(in).kind = "ok"
    PROVE  in.byte \in {0, 1}
BY DEF UploadToStorage, From, Err, Inputs

LEMMA InitIInv == Init => IInv
BY DEF Init, IInv, NoCall, Inputs

LEMMA NextIInv == IInv /\ [Next]_vars => IInv'
<1> SUFFICES ASSUME IInv, [Next]_vars PROVE IInv'
  OBVIOUS
<1>1. CASE Next
  BY <1>1 DEF Next, Upload, IInv
<1>2. CASE UNCHANGED vars
  BY <1>2 DEF vars, IInv
<1>. QED
  BY <1>1, <1>2

(* Theorem: Storage::from and to_u8 round-trip on the byte of every call,  *)
(* and upload_to_storage succeeds only for SWARM and IPFS.                 *)
THEOREM ByteRoundTrip == Spec => []StorageByteRoundTrip
<1>1. IInv => StorageByteRoundTrip
  <2> SUFFICES ASSUME IInv, result # None
               PROVE  /\ ToU8(From(call.byte)) = call.byte
                      /\ result.kind = "ok" => call.byte \in {0, 1}
    BY DEF StorageByteRoundTrip
  <2>1. call.byte \in 0..255
    BY DEF IInv, Inputs
  <2>2. result = UploadToStorage(call)
    BY DEF IInv
  <2>. QED
    BY <2>1, <2>2, FromToU8, OkOnlyKnown DEF IInv
<1>. QED
  BY <1>1, InitIInv, NextIInv, PTL DEF Spec

\* The slice `[2..]` of a multihash at least prefix plus hash long, read
\* at an index of the hash.
LEMMA SliceAt ==
    ASSUME NEW b \in Seq(Bytes), Len(b) >= HashBytes + 2,
           NEW i \in 1..HashBytes
    PROVE  /\ i <= Len(SubSeq(b, 3, Len(b)))
           /\ SubSeq(b, 3, Len(b))[i] = b[i + 2]
<1>1. HashBytes \in Nat \ {0} /\ Len(b) \in Nat
  BY StorageAssumption, LenProperties
<1>2. Len(SubSeq(b, 3, Len(b))) = Len(b) - 2
  BY <1>1, LenProperties, SubSeqProperties
<1>. QED
  BY <1>1, <1>2, SubSeqProperties

\* A byte of the first part of a concatenation.
LEMMA ConcatAt ==
    ASSUME NEW s1 \in Seq(Bytes), NEW s2 \in Seq(Bytes), NEW i \in 1..Len(s1)
    PROVE  (s1 \o s2)[i] = s1[i]
<1>1. i \in 1..Len(s1) + Len(s2) /\ i <= Len(s1)
  BY LenProperties
<1>. QED
  BY <1>1, ConcatProperties

(* Theorem: upload_code_to_ipfs turns every multihash whose digest has at   *)
(* least 32 bytes into Ok of its first 32 bytes and ignores the rest, so    *)
(* appending any bytes t to the digest leaves the H256 unchanged: files     *)
(* whose digests agree on 32 bytes get the same hash, and no length check   *)
(* or error reports that the digest was longer.                             *)
THEOREM IpfsDigestTailIgnored ==
    ASSUME NEW b \in Seq(Bytes), Len(b) >= HashBytes + 2,
           NEW t \in Seq(Bytes), NEW in1, NEW in2,
           ~in1.ioFail, in1.ipfs = [resp |-> "decoded", bytes |-> b],
           ~in2.ioFail, in2.ipfs = [resp |-> "decoded", bytes |-> b \o t]
    PROVE  /\ UploadCodeToIpfs(in1) = Ok(IntoH256(SubSeq(b, 3, Len(b))))
           /\ UploadCodeToIpfs(in2) = UploadCodeToIpfs(in1)
<1> DEFINE bt == b \o t
<1>1. bt \in Seq(Bytes) /\ Len(bt) = Len(b) + Len(t) /\ Len(t) \in Nat
  BY ConcatProperties, LenProperties
<1>2. Len(bt) >= HashBytes + 2 /\ HashBytes \in Nat
  BY <1>1, StorageAssumption, LenProperties
<1>3. UploadCodeToIpfs(in1) = Ok(IntoH256(SubSeq(b, 3, Len(b))))
  BY StorageAssumption, LenProperties DEF UploadCodeToIpfs, DropPrefix, Ok, Panic
<1>4. UploadCodeToIpfs(in2) = Ok(IntoH256(SubSeq(bt, 3, Len(bt))))
  BY <1>2 DEF UploadCodeToIpfs, DropPrefix, Ok, Panic, bt
<1>5. \A i \in 1..HashBytes : bt[i + 2] = b[i + 2]
  <2> SUFFICES ASSUME NEW i \in 1..HashBytes PROVE bt[i + 2] = b[i + 2]
    OBVIOUS
  <2>1. i + 2 \in 1..Len(b)
    BY <1>2, LenProperties
  <2>. QED
    BY <2>1, ConcatAt DEF bt
<1>6. IntoH256(SubSeq(bt, 3, Len(bt))) = IntoH256(SubSeq(b, 3, Len(b)))
  <2> SUFFICES ASSUME NEW i \in 1..HashBytes
               PROVE  (IF i <= Len(SubSeq(bt, 3, Len(bt)))
                       THEN SubSeq(bt, 3, Len(bt))[i] ELSE 0)
                    = (IF i <= Len(SubSeq(b, 3, Len(b)))
                       THEN SubSeq(b, 3, Len(b))[i] ELSE 0)
    BY DEF IntoH256
  <2>1. i <= Len(SubSeq(bt, 3, Len(bt))) /\ SubSeq(bt, 3, Len(bt))[i] = bt[i + 2]
    BY <1>1, <1>2, SliceAt
  <2>2. i <= Len(SubSeq(b, 3, Len(b))) /\ SubSeq(b, 3, Len(b))[i] = b[i + 2]
    BY SliceAt
  <2>. QED
    BY <1>5, <2>1, <2>2
<1>. QED
  BY <1>3, <1>4, <1>6
=============================================================================
