-------------------------------- MODULE MCMoney --------------------------------
(***************************************************************************)
(* Payments, payouts and what providers are shown of their earnings, side  *)
(* by side, on small instances: one part is at work in a behaviour and the *)
(* others stay as they began.                                              *)
(***************************************************************************)
EXTENDS Integers, Sequences, FiniteSets, FiniteSetsExt, TLC, TLAPS

CONSTANTS Parts, x1, x2, c1, quick, planned, client, w1, p1, p2, d1, d2, d3, NoCharge, NoTarget, None

VARIABLES
    part,
    charge, offered, hooks, resent, granted, onWord, assigned, payment, invoice,    \* Payments
    audited, told, feePaid, points, mirror, earns, dispatched, req, faults,
    customer, mandate, moved, record, profile, dist, captured, payouts, statements, \* Payouts
    transfer, cuts,
    booking, share, now                                                             \* ProviderEarnings

\* Requests, charges, customers, mandates and batches: two of a kind; c1 is a charge on its own.
Pair == {x1, x2}

\* Two webhooks at a time about the two charges of a short-notice booking whose deposit is
\* below its price; the signup fee of a provider, with one charge, repeated and unfetched
\* events and crashes; one request at a time, with a planned booking and credits.
Webhooks == INSTANCE PaymentsProofs WITH
    Bookings <- {quick}, Clients <- {client}, Providers <- {}, Charges <- Pair, Workers <- Pair,
    ClientOf <- (quick :> client), ShortNotice <- {quick}, Deposit <- (quick :> 1),
    Total <- (quick :> 2), Credits <- (quick :> 0), InvoiceNumber <- (quick :> quick),
    MaxResent <- 0, MaxFaults <- 0
Deposits == (quick :> 1) @@ (planned :> 0)
Fees == INSTANCE PaymentsProofs WITH
    Bookings <- {quick}, Clients <- {client}, Providers <- {p1}, Charges <- {c1}, Workers <- Pair,
    ClientOf <- (quick :> client), ShortNotice <- {quick}, Deposit <- (quick :> 1),
    Total <- (quick :> 2), Credits <- (quick :> 0), InvoiceNumber <- (quick :> quick),
    MaxResent <- 1, MaxFaults <- 1
Serial == INSTANCE PaymentsProofs WITH
    Bookings <- {quick, planned}, Clients <- {client}, Providers <- {}, Charges <- Pair,
    Workers <- {w1}, ClientOf <- (quick :> client) @@ (planned :> client),
    ShortNotice <- {quick}, Deposit <- Deposits, Total <- (quick :> 2) @@ (planned :> 2),
    Credits <- (quick :> 0) @@ (planned :> 3), InvoiceNumber <- (quick :> 1) @@ (planned :> 1),
    MaxResent <- 1, MaxFaults <- 0

Racing == INSTANCE PayoutsProofs WITH
    Providers <- {p1}, Customers <- {}, Mandates <- {}, Distributions <- {d1, d2},
    ProviderOf <- (d1 :> p1) @@ (d2 :> p1), Batches <- Pair, Workers <- Pair, MaxFaults <- 1,
    hooks <- moved, req <- transfer, faults <- cuts
Weekly == INSTANCE PayoutsProofs WITH
    Providers <- {p1, p2}, Customers <- {}, Mandates <- {}, Distributions <- {d1, d3},
    ProviderOf <- (d1 :> p1) @@ (d3 :> p2), Batches <- Pair, Workers <- {w1},
    MaxFaults <- 1, hooks <- moved, req <- transfer, faults <- cuts
SetUps == INSTANCE PayoutsProofs WITH
    Providers <- {p1, p2}, Customers <- Pair, Mandates <- Pair, Distributions <- {},
    ProviderOf <- << >>, Batches <- {}, Workers <- {w1}, MaxFaults <- 0,
    hooks <- moved, req <- transfer, faults <- cuts

Earnings == INSTANCE ProviderEarnings WITH
    MaxBooking <- 2, Lengths <- {0, 1}, Leads <- {1},
    Statuses <- {"PENDING_CLIENT", "IN_PROGRESS", "COMPLETED", "DISPUTED"},
    Amounts <- {1}, PayoutStatuses <- {"paid"}, Lookback <- 1, Week <- 2, Limits <- {1},
    Rates <- {1999}, MaxTime <- 2
Paging == INSTANCE ProviderEarnings WITH
    MaxBooking <- 3, Lengths <- {0}, Leads <- {1}, Statuses <- {"COMPLETED"}, Amounts <- {1},
    PayoutStatuses <- {"paid"}, Lookback <- 2, Week <- 2, Limits <- {1, 2}, Rates <- {1999},
    MaxTime <- 1
Shares == INSTANCE ProviderEarnings WITH
    MaxBooking <- 1, Lengths <- {0}, Leads <- {0}, Statuses <- {"COMPLETED", "IN_PROGRESS"},
    Amounts <- {1, 2}, PayoutStatuses <- {"processing", "paid", "failed"}, Lookback <- 2,
    Week <- 2, Limits <- {1, 2}, Rates <- 0..120 \cup {3333, 9999, 100001}, MaxTime <- 2

ASSUME MoneyAssumption ==
       /\ Webhooks!PaymentsAssumption /\ Fees!PaymentsAssumption /\ Serial!PaymentsAssumption
       /\ Racing!PayoutsAssumption /\ Weekly!PayoutsAssumption /\ SetUps!PayoutsAssumption
       /\ Earnings!EarningsAssumption /\ Paging!EarningsAssumption /\ Shares!EarningsAssumption

mollie == <<charge, offered, hooks, resent, granted, onWord>>
papers == <<payment, invoice, audited, told, feePaid>>
dues == <<mollie, papers, assigned, points, mirror, earns, dispatched, req, faults>>
transfers == <<customer, mandate, moved, record, profile, dist, captured, payouts, statements,
               transfer, cuts>>
earnings == <<booking, share, now>>
all == <<part, dues, transfers, earnings>>

InitAll ==
    /\ part \in Parts
    /\ CASE part = "fees" -> Fees!Init [] part = "serial" -> Serial!Init [] OTHER -> Webhooks!Init
    /\ CASE part = "racing" -> Racing!Init [] part = "weekly" -> Weekly!Init [] OTHER -> SetUps!Init
    /\ CASE part = "paging" -> Paging!Init [] part = "shares" -> Shares!Init [] OTHER -> Earnings!Init

PaymentsNext ==
    /\ \/ part = "webhooks" /\ Webhooks!Next
       \/ part = "fees" /\ Fees!Next
       \/ part = "serial" /\ Serial!Next
    /\ UNCHANGED <<part, transfers, earnings>>
\* Batches alone run on profiles that operators set.
PayoutsNext ==
    /\ \/ part = "racing" /\ Racing!Next
       \/ part = "weekly" /\ Weekly!Next
       \/ part = "setups" /\ SetUps!Next
    /\ UNCHANGED <<part, dues, earnings>>
EarningsNext ==
    /\ \/ part = "earnings" /\ Earnings!Next
       \/ part = "paging" /\ Paging!Next
       \/ part = "shares" /\ Shares!Next
    /\ UNCHANGED <<part, dues, transfers>>

NextAll == PaymentsNext \/ PayoutsNext \/ EarningsNext
SpecAll == InitAll /\ [][NextAll]_all
Symmetry == Permutations(Pair)

-----------------------------------------------------------------------------
\* Payments: what the platform takes for paid, a client granted at Mollie, unless an event was
\* taken at its word; so too when there are fees and a second booking.
NothingWithoutMoney ==
    /\ part = "webhooks" => Webhooks!NothingWithoutMoney
    /\ part = "fees" => Fees!NothingWithoutMoney
    /\ part = "serial" => Serial!NothingWithoutMoney
\* Payments: points are earned at most once per authorization, payment, repeated webhook and
\* event taken at its word; requests one at a time, a client is told of an invoice once and no
\* balance is overdrawn.
PaymentsSound ==
    /\ part = "webhooks" => Webhooks!TypeOK /\ Webhooks!EarnedPerWebhook
    /\ part = "fees" => Fees!EarnedPerWebhook
    /\ part = "serial" => /\ Serial!TypeOK /\ Serial!EarnedPerWebhook
                          /\ Serial!ToldOnce /\ Serial!BalanceSound
\* Payments: the invoice prints its total as collected: that much was paid at Mollie.
InvoicedIsCollected ==
    part = "webhooks" =>
        invoice[quick] <= MapThenSumSet(LAMBDA c : charge[c].amount, Webhooks!Paid(quick))

\* Payouts: what is marked as processing is in the payout it names, however batches overlap;
\* one batch at a time, a distribution is paid out once; set-ups one at a time, a mandate
\* shows the status it has at Mollie and a provider is shown as the batches treat them.
PayoutsSound ==
    /\ part = "racing" => Racing!TypeOK /\ Racing!ProcessingIsPaidOut
    /\ part = "weekly" => Weekly!PaidOutOnce
    /\ part = "setups" => SetUps!TypeOK /\ SetUps!MandateSynced /\ SetUps!ShownAsUsed

\* ProviderEarnings: the three lists of missions and the summary of shares count everything
\* once or leave it out for a reason, agree with what can be opened and with what is called
\* a problem, page without repeating, and show a gross within two cents of the share's.
EarningsSound ==
    /\ part = "earnings" =>
         /\ Earnings!TypeOK /\ Earnings!EachMissionOnce /\ Earnings!EveryShareCounted
         /\ Earnings!ListedCanBeOpened /\ Earnings!AllGoodMeansNoProblem
    /\ part = "paging" => Paging!NothingTwice
    /\ part = "shares" => Shares!SharesRoundTrip

-----------------------------------------------------------------------------
(***************************************************************************)
(* What the run checks of payments and payouts follows from the theorems   *)
(* about them: in a behaviour, the part at work obeys its specification.   *)
(***************************************************************************)
LEMMA PaymentsBegin ==
    InitAll => /\ part = "webhooks" => Webhooks!Init
               /\ part = "fees" => Fees!Init
               /\ part = "serial" => Serial!Init
BY DEF InitAll

LEMMA PayoutsBegin ==
    InitAll => /\ part = "racing" => Racing!Init
               /\ part = "weekly" => Weekly!Init
               /\ part = "setups" => SetUps!Init
BY DEF InitAll

LEMMA OnePartMoves ==
    [NextAll]_all =>
        /\ part' = part
        /\ part = "webhooks" => [Webhooks!Next]_(Webhooks!vars)
        /\ part = "fees" => [Fees!Next]_(Fees!vars)
        /\ part = "serial" => [Serial!Next]_(Serial!vars)
        /\ part = "racing" => [Racing!Next]_(Racing!vars)
        /\ part = "weekly" => [Weekly!Next]_(Weekly!vars)
        /\ part = "setups" => [SetUps!Next]_(SetUps!vars)
<1>1. ASSUME UNCHANGED all
      PROVE  /\ part' = part /\ UNCHANGED Webhooks!vars
             /\ UNCHANGED Fees!vars /\ UNCHANGED Serial!vars
             /\ UNCHANGED Racing!vars /\ UNCHANGED Weekly!vars /\ UNCHANGED SetUps!vars
  <2>1. part' = part /\ UNCHANGED dues /\ UNCHANGED transfers
    BY <1>1 DEF all
  <2>2. UNCHANGED Webhooks!vars /\ UNCHANGED Fees!vars /\ UNCHANGED Serial!vars
    BY <2>1
       DEF dues, mollie, papers, Webhooks!vars, Webhooks!mollie, Webhooks!papers, Webhooks!loyalty,
           Fees!vars, Fees!mollie, Fees!papers, Fees!loyalty,
           Serial!vars, Serial!mollie, Serial!papers, Serial!loyalty
  <2>3. UNCHANGED Racing!vars /\ UNCHANGED Weekly!vars /\ UNCHANGED SetUps!vars
    BY <2>1
       DEF transfers, Racing!vars, Racing!mollie, Racing!money, Weekly!vars, Weekly!mollie,
           Weekly!money, SetUps!vars, SetUps!mollie, SetUps!money
  <2> QED
    BY <2>1, <2>2, <2>3
<1>2. ASSUME NextAll
      PROVE  /\ part' = part
             /\ part = "webhooks" => Webhooks!Next
             /\ part = "fees" => Fees!Next
             /\ part = "serial" => Serial!Next
             /\ part = "racing" => Racing!Next
             /\ part = "weekly" => Weekly!Next
             /\ part = "setups" => SetUps!Next
  BY <1>2 DEF NextAll, PaymentsNext, PayoutsNext, EarningsNext
<1> QED
  BY <1>1, <1>2

LEMMA PartStays ==
    [NextAll]_all =>
        /\ (part = "webhooks")' <=> part = "webhooks"
        /\ (part = "fees")' <=> part = "fees"
        /\ (part = "serial")' <=> part = "serial"
        /\ (part = "racing")' <=> part = "racing"
        /\ (part = "weekly")' <=> part = "weekly"
        /\ (part = "setups")' <=> part = "setups"
BY OnePartMoves

\* NothingWithoutMoney, whatever the requests and charges are.
THEOREM MoneyComesFirst == SpecAll => []NothingWithoutMoney
<1>1. Webhooks!Spec => []Webhooks!NothingWithoutMoney
  BY MoneyAssumption, Webhooks!NothingIsTakenUnpaid
<1>2. Fees!Spec => []Fees!NothingWithoutMoney
  BY MoneyAssumption, Fees!NothingIsTakenUnpaid
<1>3. Serial!Spec => []Serial!NothingWithoutMoney
  BY MoneyAssumption, Serial!NothingIsTakenUnpaid
<1> QED
  BY <1>1, <1>2, <1>3, PaymentsBegin, OnePartMoves, PartStays, PTL
     DEF SpecAll, Webhooks!Spec, Fees!Spec, Serial!Spec, NothingWithoutMoney

\* PaymentsSound, whatever the requests, charges, bookings and accounts are.
THEOREM PaymentsAreSound == SpecAll => []PaymentsSound
<1>1. Webhooks!Spec => []Webhooks!TypeOK /\ []Webhooks!EarnedPerWebhook
  BY MoneyAssumption, Webhooks!PaymentsTypeCorrect, Webhooks!PointsAreEarnedPerWebhook, PTL
<1>2. Fees!Spec => []Fees!EarnedPerWebhook
  BY MoneyAssumption, Fees!PointsAreEarnedPerWebhook
<1>3. Serial!Spec => []Serial!TypeOK /\ []Serial!EarnedPerWebhook
  BY MoneyAssumption, Serial!PaymentsTypeCorrect, Serial!PointsAreEarnedPerWebhook, PTL
<1>4. Serial!Spec => []Serial!ToldOnce
  BY MoneyAssumption, Serial!ClientIsToldOnce
<1>5. Serial!Spec => []Serial!BalanceSound
  BY MoneyAssumption, Serial!NoBalanceIsOverdrawn
<1> QED
  BY <1>1, <1>2, <1>3, <1>4, <1>5, PaymentsBegin, OnePartMoves, PartStays, PTL
     DEF SpecAll, Webhooks!Spec, Fees!Spec, Serial!Spec, PaymentsSound

\* PayoutsSound, whatever the batches, distributions and mandates are.
THEOREM PayoutsAreSound == SpecAll => []PayoutsSound
<1>1. Racing!Spec => []Racing!TypeOK /\ []Racing!ProcessingIsPaidOut
  BY MoneyAssumption, Racing!PayoutsTypeCorrect, Racing!NothingIsLost, PTL
<1>2. Weekly!Spec => []Weekly!PaidOutOnce
  BY MoneyAssumption, Weekly!AloneNothingIsPaidTwice
<1>3. SetUps!Spec => []SetUps!TypeOK /\ []SetUps!ShownAsUsed
  BY MoneyAssumption, SetUps!PayoutsTypeCorrect, SetUps!PagesAgreeWithBatches, PTL
<1>4. SetUps!Spec => []SetUps!MandateSynced
  BY MoneyAssumption, SetUps!AloneMandatesAreSynced
<1> QED
  BY <1>1, <1>2, <1>3, <1>4, PayoutsBegin, OnePartMoves, PartStays, PTL
     DEF SpecAll, Racing!Spec, Weekly!Spec, SetUps!Spec, PayoutsSound

=============================================================================
