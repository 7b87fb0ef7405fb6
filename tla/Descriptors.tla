----------------------------- MODULE Descriptors -----------------------------
(***************************************************************************)
(* The descriptors of code/arch/x86/include/asm/desc.h and gate.h: how the *)
(* kernel packs a segment or the address of a handler into fields, and     *)
(* what the processor reads out of them.                                   *)
(***************************************************************************)
EXTENDS Integers

CONSTANT W    \* 2^16: the words an address is cut into

ASSUME WordAssumption == W \in Nat \ {0}

Bit(x, n) == (x \div n) % 2

(* DESCRIPTOR_INIT(0, 0xFFFFF, flags), without the base and the limit, which *)
(* the processor ignores in long mode.                                      *)
DESCRIPTOR_INIT(flags) ==
  [type |-> flags % 16,       s   |-> Bit(flags, 16), dpl |-> (flags \div 32) % 4,
   p    |-> Bit(flags, 128),  avl |-> Bit(flags, 4096),
   l    |-> Bit(flags, 8192), d   |-> Bit(flags, 16384),
   g    |-> Bit(flags, 32768)]

NoDescriptor == DESCRIPTOR_INIT(0)

DEFAULT_KERNEL_CS_SELECTOR == 8
Entry8(selector) == selector \div 8

(* A segment that code of the kernel can run in, in long mode.              *)
IsLongCode(desc) == /\ desc.p = 1 /\ desc.s = 1 /\ desc.type >= 8
                    /\ desc.l = 1 /\ desc.d = 0
                    /\ desc.dpl = 0

SEG_TYPE_SYS_80386_INTR_GATE == 14

(* A slip: offset2 begins where offset1 does.                               *)
KERNEL_INTR_GATE_NARROW(handler, sel) ==
  [offset0 |-> handler % W, offset1 |-> (handler \div W) % W,
   offset2 |-> handler \div W, selector |-> sel,
   type |-> SEG_TYPE_SYS_80386_INTR_GATE, dpl |-> 0, p |-> 1]

KERNEL_INTR_GATE_INIT(handler, sel) ==
  [offset0 |-> handler % W,
   offset1 |-> (handler \div W) % W,
   offset2 |-> (handler \div W) \div W,
   selector |-> sel,
   type |-> SEG_TYPE_SYS_80386_INTR_GATE, dpl |-> 0, p |-> 1]

(* A gate of the idt that was never set: .bss is zero.                      *)
NoGate == [offset0 |-> 0, offset1 |-> 0, offset2 |-> 0, selector |-> 0,
           type |-> 0, dpl |-> 0, p |-> 0]

(* Where the processor goes through a gate.                                 *)
Target(gate) == (gate.offset2 * W + gate.offset1) * W + gate.offset0
=============================================================================
