---------------------------- MODULE MCTcpConfig ----------------------------
(***************************************************************************)
(* Configurations in which every key has a value of its own, in which all  *)
(* are ns-3's, or in which one of them is missing or wrong.                *)
(***************************************************************************)
EXTENDS TcpConfig, TLC

Texts == <<"1", "10", "131072", "131072", "536", "true", "1", "true", "false", "2", "true",
           "120000", "1000", "1000", "3000", "200", "6000">>
Others == <<"5", "20", "30", "40", "50", "false", "0", "false", "true", "60", "false",
            "70", "80", "90", "100", "110", "120">>

MCInt64Of == ("1" :> 1) @@ ("10" :> 10) @@ ("131072" :> 131072) @@ ("536" :> 536) @@ ("2" :> 2)
  @@ ("120000" :> 120000) @@ ("1000" :> 1000) @@ ("3000" :> 3000) @@ ("200" :> 200)
  @@ ("6000" :> 6000) @@ ("5" :> 5) @@ ("20" :> 20) @@ ("30" :> 30) @@ ("40" :> 40)
  @@ ("50" :> 50) @@ ("60" :> 60) @@ ("70" :> 70) @@ ("80" :> 80) @@ ("90" :> 90)
  @@ ("100" :> 100) @@ ("110" :> 110) @@ ("120" :> 120) @@ ("-1" :> -1)
MCDoubleOf == "1" :> 1

KeysOf(texts) ==
  [k \in {Keys[i] : i \in DOMAIN Keys} |->
     [form |-> "", parts |-> <<texts[CHOOSE i \in DOMAIN Keys : Keys[i] = k]>>]]

Without(k) == [x \in DOMAIN KeysOf(Others) \ {k} |-> KeysOf(Others)[x]]

\* ns-3's values but for one.
OneOther(i) == KeysOf([Texts EXCEPT ![i] = Others[i]])

\* As the documentation has it.
Documented ==
  [type |-> "custom",
   keys |-> [k \in DocumentedKeys |->
              KeysOf(Others)[IF k \in DOMAIN KeysOf(Others) THEN k ELSE "tcp_clock_granularity_ns"]]]

SomeConfigurations ==
  {Documented} \cup
  {[type |-> t, keys |-> KeysOf(Others)] : t \in {"default", "basic", "custom", "linux"}}
  \cup {[type |-> "custom", keys |-> k] :
          k \in {KeysOf(Texts), OneOther(1), OneOther(9), OneOther(17),
                 Without("tcp_no_delay"), Without("tcp_clock_granularity_ns"),
                 KeysOf([Others EXCEPT ![6] = "2"]), KeysOf([Others EXCEPT ![13] = "-1"])}}
=============================================================================
