------------------------------ MODULE KeyRotation ------------------------------
(***************************************************************************)
(* security::KeyRotationService and the AesGcmProvider it keeps per version. *)
(* Each node of a deployment has a service of its own; keys reach the nodes  *)
(* one at a time and in any order, and what one node has encrypted is stored *)
(* where every node may have to decrypt it.                                  *)
(***************************************************************************)
EXTENDS Integers, Sequences, FiniteSets

CONSTANTS Nodes,
          Versions,    \* uint32_t
          Keys,        \* 32-byte keys
          Texts,       \* plaintexts
          ShortKey,    \* a key of any other size
          MaxBlobs     \* bound on what is stored

ASSUME VersionsAssumption == \A v \in Versions : v \in Nat /\ v \div 16777216 < 256

VARIABLES
    keys_,   \* per node: version -> key
    blobs    \* what has been encrypted: by whom, of what text, and the bytes

rotation_vars == <<keys_, blobs>>

RotationInit ==
    /\ keys_ = [n \in Nodes |-> <<>>]
    /\ blobs = {}

-----------------------------------------------------------------------------
(* AesGcmProvider.  A ciphertext is nonce, encrypted text and tag; it is opened   *)
(* by the key that sealed it, and by no other.                                    *)

Seal(key, text) == [key |-> key, text |-> text]

CutBody == [key |-> "none", text |-> "fewer than 28 bytes"]

ASSUME CutAssumption == CutBody.key \notin Keys

Error == "error"

Open(key, ciphertext) == IF ciphertext.key = key THEN ciphertext.text ELSE Error

-----------------------------------------------------------------------------
(* KeyRotationService *)

PrefixReversed(version) == <<version % 256, (version \div 256) % 256,
                             (version \div 65536) % 256, (version \div 16777216) % 256>>

\* The four bytes of the version, big-endian
PrefixOf(version) == <<(version \div 16777216) % 256, (version \div 65536) % 256,
                       (version \div 256) % 256, version % 256>>

VersionIn(prefix) == prefix[1] * 16777216 + prefix[2] * 65536 + prefix[3] * 256 + prefix[4]

\* emplace() keeps the key of a version that is already there.
Emplaced(map, version, key) ==
    [v \in DOMAIN map \cup {version} |-> IF v \in DOMAIN map THEN map[v] ELSE key]

AddKey(n, version, key) ==
    /\ keys_' = [keys_ EXCEPT ![n] = Emplaced(@, version, key)]
    /\ UNCHANGED blobs

\* The provider's constructor refuses a key that has not 32 bytes.
AddKeyRefused(n, key) ==
    /\ key = ShortKey
    /\ UNCHANGED rotation_vars

\* current_version()
IsCurrent(n, version) ==
    /\ version \in DOMAIN keys_[n]
    /\ \A w \in DOMAIN keys_[n] : w <= version

Encrypt(n, text) ==
    \E version \in DOMAIN keys_[n] :
        /\ IsCurrent(n, version)
        /\ Cardinality(blobs) < MaxBlobs
        /\ blobs' = blobs \cup {[by |-> n, text |-> text,
                                 prefix |-> PrefixOf(version),
                                 body |-> Seal(keys_[n][version], text)]}
        /\ UNCHANGED keys_

\* No key is registered: encrypt() throws.
EncryptRefused(n) ==
    /\ DOMAIN keys_[n] = {}
    /\ UNCHANGED rotation_vars

\* decrypt(): the text, or an error for data cut short, for a version the node has
\* no key of, and for a tag that does not match.
decrypt(n, prefix, body) ==
    IF Len(prefix) < 4 \/ VersionIn(prefix) \notin DOMAIN keys_[n] \/ body = CutBody
    THEN Error
    ELSE Open(keys_[n][VersionIn(prefix)], body)

RotationNext ==
    \E n \in Nodes :
        \/ \E version \in Versions, key \in Keys : AddKey(n, version, key)
        \/ AddKeyRefused(n, ShortKey)
        \/ \E text \in Texts : Encrypt(n, text)
        \/ EncryptRefused(n)

RotationSpec == RotationInit /\ [][RotationNext]_rotation_vars

-----------------------------------------------------------------------------
(* Properties *)

HoldsKeyOf(n, b) ==
    /\ VersionIn(b.prefix) \in DOMAIN keys_[n]
    /\ keys_[n][VersionIn(b.prefix)] = b.body.key

\* What a node has encrypted it can decrypt for ever, whatever keys are added and
\* re-added afterwards; every other node decrypts it exactly when it holds that
\* version with the same key, and otherwise gets an error, never another text.
\* Data cut short is an error everywhere.
OldCiphertextsStayReadable ==
    \A b \in blobs :
        /\ HoldsKeyOf(b.by, b)
        /\ \A n \in Nodes :
              /\ decrypt(n, b.prefix, b.body) = IF HoldsKeyOf(n, b) THEN b.text ELSE Error
              /\ decrypt(n, b.prefix, CutBody) = Error
              /\ \A l \in 0..3 : decrypt(n, SubSeq(b.prefix, 1, l), b.body) = Error

\* A node never goes back to an older version for what it encrypts.
CurrentNeverGoesBack ==
    [][\A n \in Nodes : \A v, w \in Versions :
          IsCurrent(n, v) /\ IsCurrent(n, w)' => v <= w]_rotation_vars
=============================================================================
