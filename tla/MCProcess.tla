----------------------------- MODULE MCProcess ------------------------------
(* One gateway process: the prices and the multipliers it keeps in memory   *)
(* beside the database, and the relay of a stream.  They share no state, so *)
(* that a behaviour here is one of any of the three, the others at rest.    *)
(*                                                                          *)
(* Prices: two plans and two requests; an older release may have left       *)
(* nothing, a plan in force, or a plan in force and one that is scheduled.  *)
(* The stream: a Chat stream passed on and converted, a Responses stream    *)
(* passed on, and a Messages stream converted, with one of the timeouts or  *)
(* with none.                                                               *)
EXTENDS PriceCache, MultiplierCache, StreamRelay

CONSTANTS p1, p2, q1, q2

VARIABLE part

Row(status, from, to) == [status |-> status, rates |-> 1, from |-> from, to |-> to]
Absent == Row("absent", 0, Forever)

MCLegacyPlans == {
  [p \in Plans |-> Absent],
  [p \in Plans |-> IF p = p1 THEN Row("published", 0, Forever) ELSE Absent],
  [p \in Plans |-> IF p = p1 THEN Row("published", 0, 1) ELSE IF p = p2 THEN Row("published", 1, Forever) ELSE Absent]}

Stream(source, target, idle, total) == [source |-> source, target |-> target, idle |-> idle, total |-> total]

MCStreams == {
  Stream("chat_completions", "chat_completions", FALSE, TRUE), Stream("chat_completions", "responses", FALSE, FALSE),
  Stream("chat_completions", "responses", FALSE, TRUE), Stream("responses", "responses", FALSE, TRUE),
  Stream("messages", "chat_completions", TRUE, FALSE)}

ProcessInit ==
  /\ PriceInit /\ MultiplierInit /\ RelayInit
  /\ part \in {"prices", "multipliers", "relay"}
  /\ part # "prices" => plan = CHOOSE left \in MCLegacyPlans : TRUE
  /\ part # "multipliers" => stored = CHOOSE m \in [BillingGroups -> Multipliers] : TRUE
  /\ part # "relay" => stream = CHOOSE s \in MCStreams : TRUE

ProcessNext ==
  /\ UNCHANGED part
  /\ \/ part = "prices" /\ PriceNext /\ UNCHANGED <<multiplierVars, relayVars>>
     \/ part = "multipliers" /\ MultiplierNext /\ UNCHANGED <<priceVars, relayVars>>
     \/ part = "relay" /\ RelayNext /\ UNCHANGED <<priceVars, multiplierVars>>

processVars == <<priceVars, multiplierVars, relayVars, part>>
ProcessSpec == ProcessInit /\ [][ProcessNext]_processVars /\ PriceFairness /\ RelayFairness
=============================================================================
