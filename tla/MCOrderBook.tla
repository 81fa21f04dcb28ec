---------------------------- MODULE MCOrderBook -----------------------------
(* Instances of OrderBook small enough for TLC; each .cfg picks from these. *)
EXTENDS OrderBookClaims

Kind(type, tif) == [type |-> type, tif |-> tif]

LimitDay      == Kind("Limit", "Day")
MarketDay     == Kind("Market", "Day")
LimitIOC      == Kind("Limit", "ImmediateOrCancel")
LimitFOK      == Kind("Limit", "FillOrKill")
PostOnlyDay   == Kind("PostOnly", "Day")

TakingKinds   == {LimitDay, MarketDay, LimitIOC, LimitFOK}
HostileKinds  == {LimitDay, PostOnlyDay, LimitIOC, LimitFOK, MarketDay}

KilledKinds   == {LimitDay, LimitFOK}
JustLimits    == {LimitDay}

TradesOnly    == {{"trade"}}
WithReports   == {{"trade"}, {"trade", "execution"}}
OnOff         == {{}, {"trade"}}
=============================================================================
