---------------------------- MODULE MCRpcClient ----------------------------
(***************************************************************************)
(* RpcClient for TLC.  Adapters are alike, so the safety run identifies    *)
(* states that differ by exchanging them.                                  *)
(***************************************************************************)
EXTENDS RpcClient

CONSTANTS s1, s2, a1, n1, o1

AdapterSymmetry == Permutations(Adapters)

Plain == [serial |-> FALSE, needAuth |-> FALSE, sendThrows |-> TRUE,
          sslErrors |-> FALSE, limit |-> 1, calls |-> {s1, n1, o1}]
Tls == [serial |-> FALSE, needAuth |-> TRUE, sendThrows |-> FALSE,
        sslErrors |-> TRUE, limit |-> 0, calls |-> {s1, a1}]
SerialTls == [serial |-> TRUE, needAuth |-> TRUE, sendThrows |-> TRUE,
              sslErrors |-> TRUE, limit |-> 0, calls |-> {s1, s2, a1}]

SafetyModes == {Plain, SerialTls}
LiveModes == {Tls}
ThrowModes == {[Plain EXCEPT !.calls = {s1}]}
=============================================================================
