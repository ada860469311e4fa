----------------------------- MODULE MPSCollector -----------------------------
(* The allocation primitives over the MPS (mps-collector.c): allocation      *)
(* points of moving pools, where a block is reserved, initialised and        *)
(* committed, and a pool of wrappers that do not move.                       *)
EXTENDS AllocationOptions

MMReserveObject == [allocator |-> "main_ap", fresh |-> Junk, scanned |-> TRUE, moving |-> TRUE]
MMReserveLeaf == [allocator |-> "leaf_ap", fresh |-> Junk, scanned |-> FALSE, moving |-> TRUE]
MMReserveExactAWL == [allocator |-> "exact_awl_ap", fresh |-> Junk, scanned |-> TRUE, moving |-> TRUE]
MMReserveWeakAWL == [allocator |-> "weak_awl_ap", fresh |-> Junk, scanned |-> TRUE, moving |-> TRUE]
MMReserveWrapper == [allocator |-> "wrapper_pool", fresh |-> Junk, scanned |-> TRUE, moving |-> FALSE]
MMReserveLeafObject == MMReserveLeaf
MMReserveLeafRepeated == MMReserveLeaf
MMReserveLeafTerminated == MMReserveLeaf

primitive_alloc == AllocInternal({}, MMReserveObject)
primitive_alloc_s1 == AllocInternal({"s1"}, MMReserveObject)
primitive_alloc_s2 == AllocInternal({"s1", "s2"}, MMReserveObject)
primitive_alloc_s == AllocInternal({"s"}, MMReserveObject)
primitive_alloc_r == AllocInternal({"r"}, MMReserveObject)
primitive_alloc_rf == AllocInternal({"r", "rf"}, MMReserveObject)
primitive_alloc_s_r == AllocInternal({"s", "r"}, MMReserveObject)
primitive_alloc_s_rf == AllocInternal({"s", "r", "rf"}, MMReserveObject)
primitive_alloc_s_rbf == AllocInternal({"s", "r", "uf"}, MMReserveObject)
primitive_alloc_s_rbfz == AllocInternal({"s", "r", "uf", "zt"}, MMReserveObject)
primitive_alloc_rbfz == AllocInternal({"r", "uf", "zt"}, MMReserveObject)
primitive_alloc_s_rb == AllocInternal({"s", "r"}, MMReserveObject)
primitive_alloc_leaf == AllocInternal({}, MMReserveLeafObject)
primitive_alloc_leaf_s_r == AllocInternal({"s", "r"}, MMReserveLeafRepeated)
primitive_alloc_leaf_s1 == AllocInternal({"s1"}, MMReserveLeafObject)
primitive_alloc_leaf_s2 == AllocInternal({"s1", "s2"}, MMReserveLeafObject)
primitive_alloc_leaf_s == AllocInternal({"s"}, MMReserveLeafObject)
primitive_alloc_leaf_r == AllocInternal({"r"}, MMReserveLeafRepeated)
primitive_alloc_leaf_s_rbf == AllocInternal({"s", "r", "uf"}, MMReserveLeafRepeated)
primitive_alloc_leaf_rf == AllocInternal({"r", "uf"}, MMReserveLeafRepeated)
primitive_alloc_leaf_s_rbfz == AllocInternal({"s", "r", "uf", "zt"}, MMReserveLeafTerminated)
primitive_alloc_leaf_rbfz == AllocInternal({"r", "uf", "zt"}, MMReserveLeafTerminated)
primitive_alloc_leaf_s_rb == AllocInternal({"s", "r"}, MMReserveLeafRepeated)
primitive_alloc_exact_awl_s_r == AllocInternal({"s", "s1", "r"}, MMReserveExactAWL)
primitive_alloc_weak_awl_s_r == AllocInternal({"s", "s1", "r"}, MMReserveWeakAWL)
primitive_alloc_exact_awl_rf == AllocInternal({"s1", "r", "rf"}, MMReserveExactAWL)
primitive_alloc_weak_awl_rf == AllocInternal({"s1", "r", "rf"}, MMReserveWeakAWL)
primitive_alloc_wrapper_s_r == AllocInternal({"s", "r"}, MMReserveWrapper)
primitive_alloc_rt == AllocInternal({"r", "rt"}, MMReserveObject)
primitive_copy == AllocInternal({"copy"}, MMReserveObject)
primitive_copy_r == AllocInternal({"copyfixed", "r", "null"}, MMReserveObject)

(* The primitives in the order of PrimitiveNames.                            *)
Primitives ==
  <<primitive_alloc, primitive_alloc_s1, primitive_alloc_s2,
    primitive_alloc_s, primitive_alloc_r, primitive_alloc_rf,
    primitive_alloc_s_r, primitive_alloc_s_rf, primitive_alloc_s_rbf,
    primitive_alloc_s_rbfz, primitive_alloc_rbfz, primitive_alloc_s_rb,
    primitive_alloc_leaf, primitive_alloc_leaf_s_r, primitive_alloc_leaf_s1,
    primitive_alloc_leaf_s2, primitive_alloc_leaf_s, primitive_alloc_leaf_r,
    primitive_alloc_leaf_s_rbf, primitive_alloc_leaf_rf,
    primitive_alloc_leaf_s_rbfz, primitive_alloc_leaf_rbfz,
    primitive_alloc_leaf_s_rb, primitive_alloc_exact_awl_s_r,
    primitive_alloc_weak_awl_s_r, primitive_alloc_exact_awl_rf,
    primitive_alloc_weak_awl_rf, primitive_alloc_wrapper_s_r,
    primitive_alloc_rt, primitive_copy, primitive_copy_r>>
================================================================================
