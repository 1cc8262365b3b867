----------------------------- MODULE MCStepGraph -----------------------------
(***************************************************************************)
(* Five MLGraph nodes: linear layers with elementwise ops between them;    *)
(* the first and the last linear share the weight W0 (a tied weight, as   *)
(* in a model that reuses a layer's parameters), with in-features 4, and   *)
(* W1 has in-features 6.  With 1 or 2 replicas every linear is            *)
(* partitioned, with 3 only that of W1, so composites mix replaced and     *)
(* copied linears, and a composite of all five reads W0 twice.             *)
(***************************************************************************)
EXTENDS StepGraph

X == <<"x", 0>>
W0 == <<"w", 0>>
H0 == <<"h", 0>>
H1 == <<"h", 1>>
W1 == <<"w", 1>>
Y == <<"y", 0>>
Z == <<"z", 0>>
O == <<"o", 0>>

MCParams == {W0, W1}

MCNodeGraphs ==
    0 :> [nodes |-> << [name |-> "aten::linear", in |-> <<X, W0>>, out |-> <<H0>>] >>,
          values |-> (X :> Tensor(<<2, 4>>)) @@ (W0 :> Tensor(<<6, 4>>))
                     @@ (H0 :> Tensor(<<2, 6>>)),
          inputs |-> <<X, W0>>, outputs |-> <<H0>>]
 @@ 1 :> [nodes |-> << [name |-> "aten::relu", in |-> <<H0>>, out |-> <<H1>>] >>,
          values |-> (H0 :> Tensor(<<2, 6>>)) @@ (H1 :> Tensor(<<2, 6>>)),
          inputs |-> <<H0>>, outputs |-> <<H1>>]
 @@ 2 :> [nodes |-> << [name |-> "aten::linear", in |-> <<H1, W1>>, out |-> <<Y>>] >>,
          values |-> (H1 :> Tensor(<<2, 6>>)) @@ (W1 :> Tensor(<<4, 6>>))
                     @@ (Y :> Tensor(<<2, 4>>)),
          inputs |-> <<H1, W1>>, outputs |-> <<Y>>]
 @@ 3 :> [nodes |-> << [name |-> "aten::gelu", in |-> <<Y>>, out |-> <<Z>>] >>,
          values |-> (Y :> Tensor(<<2, 4>>)) @@ (Z :> Tensor(<<2, 4>>)),
          inputs |-> <<Y>>, outputs |-> <<Z>>]
 @@ 4 :> [nodes |-> << [name |-> "aten::linear", in |-> <<Z, W0>>, out |-> <<O>>] >>,
          values |-> (Z :> Tensor(<<2, 4>>)) @@ (W0 :> Tensor(<<6, 4>>))
                     @@ (O :> Tensor(<<2, 6>>)),
          inputs |-> <<Z, W0>>, outputs |-> <<O>>]
=============================================================================
