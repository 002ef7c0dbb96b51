------------------------------- MODULE MCBoot -------------------------------
(***************************************************************************)
(* Boot on small machines: a memory map with a gap, buses of two slots,    *)
(* short policies in the vault, and small rings.                           *)
(***************************************************************************)
EXTENDS Boot, TLC

Dev(k, r, m) == [kind |-> k, region |-> r, mem |-> m]
Fn(f, g) == [k \in {0, 3} |-> IF k = 0 THEN f ELSE g]
Single(d) == [multi |-> FALSE, fn |-> Fn(d, NoDevice)]
Other == Dev("other", {}, TRUE)
Nvme == Dev("nvme", {1, 2}, TRUE)
Nic == Dev("e1000", {3, 4}, TRUE)
Gpu == Dev("virtio", {5, 6}, TRUE)
Gpu2 == Dev("virtio", {4, 6}, TRUE)
OldNic == Dev("e1000", {3}, FALSE)

MCBoards ==
    { 0 :> Single(Nvme) @@ 1 :> Single(Nic),
      0 :> Single(Gpu) @@ 1 :> [multi |-> TRUE, fn |-> Fn(Other, Nvme)],
      0 :> [multi |-> TRUE, fn |-> Fn(Nic, Gpu)] @@ 1 :> [multi |-> FALSE, fn |-> Fn(Other, Nvme)],
      0 :> [multi |-> TRUE, fn |-> Fn(NoDevice, Nvme)] @@ 1 :> Single(OldNic),
      0 :> [multi |-> TRUE, fn |-> Fn(Nic, Gpu)] @@ 1 :> Single(Nvme),
      0 :> Single(Gpu2) @@ 1 :> Single(Nic),
      0 :> [multi |-> TRUE, fn |-> Fn(Nic, Gpu)] @@ 1 :> Single(Gpu2) }
MCUsable == <<0, 1, 2, 5, 6, 7, 8, 10, 11, 12, 13, 14, 15, 16>>

Cond(v, k, w, o, e) == [var |-> v, kind |-> k, with |-> w, op |-> o, error |-> e]
MCPolicies ==
    { <<>>,
      <<Cond(VarRequestor, "const", <<170, 170>>, OpEq, 66)>>,
      <<Cond(VarRequestor, "const", <<187, 187>>, OpNeq, 0), Cond(VarOwner, "var", <<VarAction>>, OpEq, 7)>>,
      <<Cond(VarStatus, "var", <<VarRequestor>>, OpNeq, 9), Cond(VarRequestor, "const", <<170, 63>>, OpEq, 1)>> }
MCOldCodes ==
    UNION {{SubSeq(Compile(p), 1, n) : n \in 0..Len(Compile(p))} : p \in MCPolicies}
    \cup { <<OpPushVar, VarOwner, OpPushVar, VarOwner, OpPushVar, VarOwner, OpHaltOk>>,
           <<OpPushVar, VarRequestor, OpAssert, 5, OpHaltOk>>,
           <<OpPushVar, 9, OpHaltOk>>, <<OpEq>>, <<OpPushVar, VarOwner, OpNeq>>,
           <<OpAssert, 1>>, <<2>> }
MCPayload == <<80, 111, 108, 121, 109, 111, 114, 112, 104, 79, 83, 32, 66, 97, 114, 101, 45,
               77, 101, 116, 97, 108, 32, 80, 105, 110, 103, 32, 84, 101, 115, 116, 33>>
MCSourceIp == <<10, 0, 2, 15>>
MCIps == {<<10, 0, 2, 2>>, <<255, 255, 28, 127>>}
=============================================================================
