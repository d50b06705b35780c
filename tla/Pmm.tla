-------------------------------- MODULE Pmm --------------------------------
(***************************************************************************)
(* The physical page allocator (mm/pmm.c): a bitmap with one bit per page, *)
(* searched first-fit from 1 MiB, and a count of free pages.               *)
(*                                                                         *)
(* The state is a record, so that the modules of its users (Heap) can      *)
(* compose several calls in one step.  A set of pages stands for the       *)
(* bitmap: bitmap is the set of pages whose bit is 1 (in use).             *)
(***************************************************************************)
EXTENDS Integers, FiniteSets

CONSTANTS
  TotalPages,   \* total_pages: pages up to the highest usable address
  FirstPage,    \* 0x100000 / PAGE_SIZE: the pages below are never handed out
  Usable,       \* the pages of the usable entries of the memory map
  BitmapPages   \* the pages the bitmap itself occupies

Pages == 0..(TotalPages - 1)
NULL  == -1

ASSUME PmmAssumption ==
  /\ TotalPages \in Nat /\ FirstPage \in Nat
  /\ Usable \subseteq Pages
  /\ BitmapPages \subseteq Usable

(* pmm_init: set every bit, clear and count the usable pages, set the bits *)
(* of the bitmap's own pages again.                                        *)
pmm_init == [bitmap |-> (Pages \ Usable) \cup BitmapPages,
             free_pages |-> Cardinality(Usable) - Cardinality(BitmapPages)]

RunAt(i, count)      == i..(i + count - 1)
IsFreeRun(m, i, count) == RunAt(i, count) \cap m.bitmap = {}

(* pmm_alloc_pages_contiguous: the page it returns, NULL when it fails.    *)
(* pmm_alloc_page is the case count = 1.                                   *)
FirstFreeRun(m, count) ==
  LET runs == {i \in FirstPage..(TotalPages - count) : IsFreeRun(m, i, count)}
  IN IF count = 0 \/ count > TotalPages \/ runs = {} THEN NULL
     ELSE CHOOSE i \in runs : \A j \in runs : i <= j

pmm_alloc_pages_contiguous(m, count) ==
  LET i == FirstFreeRun(m, count)
  IN [bitmap |-> m.bitmap \cup RunAt(i, count), free_pages |-> m.free_pages - count]

(* pmm_free_pages and pmm_free_page: bits that are 0 already are skipped.  *)
pmm_free_pages(m, freed) ==
  LET done == freed \cap Pages \cap m.bitmap
  IN [bitmap |-> m.bitmap \ done, free_pages |-> m.free_pages + Cardinality(done)]
=============================================================================
