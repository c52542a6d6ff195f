------------------------------ MODULE MCBlake3 ------------------------------
(* The machines and the windows of output of Blake3.                       *)
EXTENDS Blake3

x86(leaf1, leaf7, max_id, xcr0) ==
  [arch |-> "x86", leaf1 |-> leaf1, leaf7 |-> leaf7, max_id |-> max_id,
   xcr0 |-> xcr0]

SSE == {"SSE2", "SSSE3", "SSE41"}
AVX512 == {"AVX2", "AVX512F", "AVX512VL"}

MCMachines ==
  { x86({"SSE2"}, {}, 1, {}),
    x86(SSE, {}, 5, {}),
    x86(SSE \cup {"OSXSAVE", "AVX"}, {"AVX2"}, 7, {"xmm", "ymm"}),
    x86(SSE \cup {"OSXSAVE", "AVX"}, AVX512, 7, {"xmm", "ymm"}),
    x86(SSE \cup {"OSXSAVE", "AVX"}, {"AVX2", "AVX512F"}, 7, {"xmm", "ymm", "zmm"}),
    x86(SSE \cup {"OSXSAVE", "AVX"}, AVX512, 7, {"xmm", "ymm", "zmm"}),
    [arch |-> "neon", leaf1 |-> {}, leaf7 |-> {}, max_id |-> 0, xcr0 |-> {}],
    [arch |-> "other", leaf1 |-> {}, leaf7 |-> {}, max_id |-> 0, xcr0 |-> {}] }

MCWindows == { [seek |-> 0, len |-> 1], [seek |-> 1, len |-> 4] }
=============================================================================
