----------------------------- MODULE VaultFiles -----------------------------
(* What the two views of one vault have in common: VaultStore, which        *)
(* follows rows and blobs, and Transfer, which follows bytes.               *)
CONSTANTS
    Files,            \* node ids (fresh UUIDs) uploads may create
    EpochEnabled      \* manifest_meta.epoch_buffer_enabled, fixed at creation
=============================================================================
