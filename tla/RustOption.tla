----------------------------- MODULE RustOption -----------------------------
(* The value that stands for Rust's None in every module of a node.        *)
CONSTANT NoVal
=============================================================================
