---------------------------- MODULE StorageUpload ----------------------------
(***************************************************************************)
(* The CLI's code uploader (src/cli/src/storage.rs).  A Storage type is    *)
(* read from a byte (Storage::from) and written back (Storage::to_u8);      *)
(* upload_to_storage sends a file to Swarm or IPFS and turns the answer     *)
(* into an H256.  One call is one step: the storage byte and what the      *)
(* network, the file system and the IPFS node answer are its inputs, the    *)
(* outcome (Ok(hash), Err or a panic) is the state it leaves.               *)
(*                                                                          *)
(* A hash is a sequence of HashBytes bytes (32 for H256); byte values are   *)
(* drawn from the small set Bytes, which holds the zero byte.  What IPFS    *)
(* calls the hash of the file is a base58 text that decodes to any byte     *)
(* sequence up to MaxDecoded long (a multihash: a function code byte, a     *)
(* length byte, the digest).                                                *)
(***************************************************************************)
EXTENDS Naturals, Sequences

CONSTANTS
    HashBytes,   \* the length of an H256
    Bytes,       \* the byte values the model draws from
    MaxDecoded   \* the longest decoded IPFS hash the model considers

ASSUME StorageAssumption ==
    /\ HashBytes \in Nat \ {0}
    /\ Bytes \subseteq 0..255 /\ 0 \in Bytes
    /\ MaxDecoded \in Nat

\* The values of `enum Storage { SWARM, IPFS, UNKNOWN(u8) }`.
Storages == {[tag |-> "SWARM", u |-> 0], [tag |-> "IPFS", u |-> 0]}
            \cup [tag : {"UNKNOWN"}, u : 0..255]

Hashes == [1..HashBytes -> Bytes]

\* What the IPFS node's JSON names Hash may decode to.
Decoded == UNION {[1..n -> Bytes] : n \in 0..MaxDecoded}

\* The inputs of one call: the storage byte, whether the upload itself
\* (file, URL, HTTP) fails, what Swarm answers (a hex hash or text that
\* does not parse as one), and what IPFS answers (a response that does not
\* parse as IpfsResponse, a Hash that is not base58, or the decoded bytes).
Inputs == [byte   : 0..255,
           ioFail : BOOLEAN,
           swarm  : {[hex |-> FALSE]} \cup [hex : {TRUE}, hash : Hashes],
           ipfs   : {[resp |-> "badjson"], [resp |-> "badbase58"]}
                    \cup [resp : {"decoded"}, bytes : Decoded]]

VARIABLES
    call,     \* the inputs of the call made (NoCall before it)
    result    \* [kind |-> "none" | "ok" | "err" | "panic", hash |-> ...]

vars == <<call, result>>

(* Mutant: the arms of Storage::from swapped. *)
FromSwapped(n) ==
    IF n = 0 THEN [tag |-> "IPFS", u |-> 0]
    ELSE IF n = 1 THEN [tag |-> "SWARM", u |-> 0]
    ELSE [tag |-> "UNKNOWN", u |-> n]

\* Storage::from
From(n) ==
    IF n = 0 THEN [tag |-> "SWARM", u |-> 0]
    ELSE IF n = 1 THEN [tag |-> "IPFS", u |-> 0]
    ELSE [tag |-> "UNKNOWN", u |-> n]

\* Storage::to_u8
ToU8(s) ==
    IF s.tag = "SWARM" THEN 0 ELSE IF s.tag = "IPFS" THEN 1 ELSE s.u

NoCall == [byte |-> 0, ioFail |-> TRUE, swarm |-> [hex |-> FALSE],
           ipfs |-> [resp |-> "badjson"]]
None == [kind |-> "none", hash |-> <<>>]
Ok(h) == [kind |-> "ok", hash |-> h]
Err == [kind |-> "err", hash |-> <<>>]
Panic == [kind |-> "panic", hash |-> <<>>]

\* upload_code_to_swarm, then `hash.parse()` into an H256.
UploadCodeToSwarm(in) ==
    IF in.ioFail \/ ~in.swarm.hex THEN Err ELSE Ok(in.swarm.hash)

(* `bytes.as_slice()[2..]`: a slice starting past the end panics. *)
DropPrefix(bytes) ==
    IF Len(bytes) < 2 THEN Panic ELSE Ok(SubSeq(bytes, 3, Len(bytes)))

\* `.into()`: web3::types::H256 is a fixed-hash type whose From<&[u8]>
\* copies the first min(len, 32) bytes into a zero hash, so a longer slice
\* is cut and a shorter one padded with zero bytes, neither refused.
IntoH256(bytes) ==
    [i \in 1..HashBytes |-> IF i <= Len(bytes) THEN bytes[i] ELSE 0]

\* upload_code_to_ipfs: the upload, serde_json::from_str, from_base58, the
\* slice and `.into()`.
UploadCodeToIpfs(in) ==
    IF in.ioFail \/ in.ipfs.resp # "decoded" THEN Err
    ELSE LET r == DropPrefix(in.ipfs.bytes)
         IN  IF r.kind = "ok" THEN Ok(IntoH256(r.hash)) ELSE r

\* upload_to_storage(Storage::from(byte), url, path)
UploadToStorage(in) ==
    LET st == From(in.byte) IN
    CASE st.tag = "SWARM" -> UploadCodeToSwarm(in)
      [] st.tag = "IPFS"  -> UploadCodeToIpfs(in)
      [] OTHER            -> Err

Init ==
    /\ call = NoCall
    /\ result = None

\* The CLI makes one upload and exits.
Upload(in) ==
    /\ result = None
    /\ call' = in
    /\ result' = UploadToStorage(in)

Next ==
    /\ result = None
    /\ \E in \in Inputs : Upload(in)

Spec == Init /\ [][Next]_vars

-----------------------------------------------------------------------------
(* Storage::from and Storage::to_u8 are inverse on bytes, and an upload     *)
(* succeeds only for the two storages the byte names: a contract's storage  *)
(* byte survives a read and a write, and UNKNOWN(u) is always refused.      *)
StorageByteRoundTrip ==
    result # None =>
        /\ ToU8(From(call.byte)) = call.byte
        /\ result.kind = "ok" => call.byte \in {0, 1}

(* What upload_code_to_ipfs promises by its type and the comment at the   *)
(* slice: the IPFS branch ends in an Err, never in a panic of the CLI, or  *)
(* in an Ok of the digest of the multihash IPFS returned, i.e. the decoded *)
(* bytes are two prefix bytes followed by exactly the hash.                 *)
IpfsErrOrDigest ==
    (result # None /\ call.byte = 1) =>
        \/ result = Err
        \/ /\ result.kind = "ok"
           /\ Len(call.ipfs.bytes) = HashBytes + 2
           /\ SubSeq(call.ipfs.bytes, 3, Len(call.ipfs.bytes)) = result.hash
=============================================================================
