---------------------------- MODULE BoehmCollector ----------------------------
(* The allocation primitives over the Boehm collector (boehm-collector.c):   *)
(* objects are allocated, zeroed and never move.                             *)
EXTENDS AllocationOptions

MMAllocateObject == [allocator |-> "GC_MALLOC", fresh |-> Zero, scanned |-> TRUE, moving |-> FALSE]
MMAllocateLeaf == [allocator |-> "GC_MALLOC_ATOMIC", fresh |-> Junk, scanned |-> FALSE, moving |-> FALSE]
MMAllocateExactAWL == MMAllocateObject
MMAllocateWeakAWL == MMAllocateObject
MMAllocateWrapper == MMAllocateLeaf
MMAllocateLeafObject == MMAllocateLeaf
MMAllocateLeafRepeated == MMAllocateLeaf
MMAllocateLeafTerminated == MMAllocateLeaf

primitive_alloc == AllocInternal({}, MMAllocateObject)
primitive_alloc_s1 == AllocInternal({"s1"}, MMAllocateObject)
primitive_alloc_s2 == AllocInternal({"s1", "s2"}, MMAllocateObject)
primitive_alloc_s == AllocInternal({"s"}, MMAllocateObject)
primitive_alloc_r == AllocInternal({"r"}, MMAllocateObject)
primitive_alloc_rf == AllocInternal({"r", "rf"}, MMAllocateObject)
primitive_alloc_s_r == AllocInternal({"s", "r"}, MMAllocateObject)
primitive_alloc_s_rf == AllocInternal({"s", "r", "rf"}, MMAllocateObject)
primitive_alloc_s_rbf == AllocInternal({"s", "r", "uf"}, MMAllocateObject)
primitive_alloc_s_rbfz == AllocInternal({"s", "r", "uf", "zt"}, MMAllocateObject)
primitive_alloc_rbfz == AllocInternal({"r", "uf", "zt"}, MMAllocateObject)
primitive_alloc_s_rb == AllocInternal({"s", "r"}, MMAllocateObject)
primitive_alloc_leaf == AllocInternal({}, MMAllocateLeafObject)
primitive_alloc_leaf_s_r == AllocInternal({"s", "r"}, MMAllocateLeafRepeated)
primitive_alloc_leaf_s1 == AllocInternal({"s1"}, MMAllocateLeafObject)
primitive_alloc_leaf_s2 == AllocInternal({"s1", "s2"}, MMAllocateLeafObject)
primitive_alloc_leaf_s == AllocInternal({"s"}, MMAllocateLeafObject)
primitive_alloc_leaf_r == AllocInternal({"r"}, MMAllocateLeafRepeated)
primitive_alloc_leaf_s_rbf == AllocInternal({"s", "r", "uf"}, MMAllocateLeafRepeated)
primitive_alloc_leaf_rf == AllocInternal({"r", "uf"}, MMAllocateLeafRepeated)
primitive_alloc_leaf_s_rbfz == AllocInternal({"s", "r", "uf", "zt"}, MMAllocateLeafTerminated)
primitive_alloc_leaf_rbfz == AllocInternal({"r", "uf", "zt"}, MMAllocateLeafTerminated)
primitive_alloc_leaf_s_rb == AllocInternal({"s", "r"}, MMAllocateLeafRepeated)
primitive_alloc_exact_awl_s_r == AllocInternal({"s", "s1", "r"}, MMAllocateExactAWL)
primitive_alloc_weak_awl_s_r == AllocInternal({"s", "s1", "r"}, MMAllocateWeakAWL)
primitive_alloc_exact_awl_rf == AllocInternal({"s1", "r", "rf"}, MMAllocateExactAWL)
primitive_alloc_weak_awl_rf == AllocInternal({"s1", "r", "rf"}, MMAllocateWeakAWL)
primitive_alloc_wrapper_s_r == AllocInternal({"s", "r"}, MMAllocateWrapper)
primitive_alloc_rt == AllocInternal({"r", "rt"}, MMAllocateObject)
primitive_copy == AllocInternal({"copy"}, MMAllocateObject)
primitive_copy_r == AllocInternal({"copyfixed", "r", "null"}, MMAllocateObject)

(* The primitives in the order of PrimitiveNames.                            *)
Primitives ==
  <<primitive_alloc, primitive_alloc_s1, primitive_alloc_s2,
    primitive_alloc_s, primitive_alloc_r, primitive_alloc_rf,
    primitive_alloc_s_r, primitive_alloc_s_rf, primitive_alloc_s_rbf,
    primitive_alloc_s_rbfz, primitive_alloc_rbfz, primitive_alloc_s_rb,
    primitive_alloc_leaf, primitive_alloc_leaf_s_r, primitive_alloc_leaf_s1,
    primitive_alloc_leaf_s2, primitive_alloc_leaf_s, primitive_alloc_leaf_r,
    primitive_alloc_leaf_s_rbf, primitive_alloc_leaf_rf,
    primitive_alloc_leaf_s_rbfz, primitive_alloc_leaf_rbfz,
    primitive_alloc_leaf_s_rb, primitive_alloc_exact_awl_s_r,
    primitive_alloc_weak_awl_s_r, primitive_alloc_exact_awl_rf,
    primitive_alloc_weak_awl_rf, primitive_alloc_wrapper_s_r,
    primitive_alloc_rt, primitive_copy, primitive_copy_r>>
================================================================================
