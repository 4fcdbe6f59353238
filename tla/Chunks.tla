-------------------------------- MODULE Chunks --------------------------------
(***************************************************************************)
(* Chunks of an encrypted object and the keys derived for them             *)
(* (crates/reproit-core/src/crypto.rs and model.rs).                       *)
(*                                                                         *)
(* A stored chunk is the record of its key, its context, its nonce and its *)
(* plaintext: it decrypts under that key and that context only, and is its *)
(* own digest.                                                             *)
(***************************************************************************)
EXTENDS Integers

CONSTANT ChunkBytes  \* CHUNK_BYTES

ASSUME ChunkAssumption == ChunkBytes \in Nat \ {0}

ChunkCount(size) == IF size = 0 THEN 1 ELSE (size + ChunkBytes - 1) \div ChunkBytes

\* The plaintexts of a content's chunks; an empty content has one.
Parts(content) ==
    LET count == ChunkCount(content.size) IN
    [i \in 1..count |->
       [of |-> content, part |-> i,
        size |-> IF i < count THEN ChunkBytes ELSE content.size - (count - 1) * ChunkBytes]]

\* ObjectKeyContext and ChunkKeyContext.
ObjectContext(metadata, mode, id, role) ==
    [metadata |-> metadata.scope, mode |-> mode, id |-> id, role |-> role]

ChunkContext(object, count, index, size) ==
    [object |-> object, count |-> count, index |-> index, size |-> size]

\* derive_object_key and derive_chunk_key.
ChunkKey(key, context) == <<key, context>>

encrypt_chunk(key, nonce, plain, context) ==
    [key |-> ChunkKey(key, context), context |-> context, nonce |-> nonce,
     plain |-> plain, size |-> plain.size]

Decrypts(key, stored, context) ==
    /\ stored.size = context.size
    /\ stored.key = ChunkKey(key, context) /\ stored.context = context

================================================================================
