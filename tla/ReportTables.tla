---------------------------- MODULE ReportTables ----------------------------
(***************************************************************************)
(* The tables of the shift report (ShiftReports, shiftreports.cpp).  Money,*)
(* litres and kilograms are integers, in hundredths; markup is left out.   *)
(*                                                                         *)
(* A shift is a record of                                                  *)
(*   tanks     a function of the tanks: fuel, color, from, add, sub, to and *)
(*             corr as booked, addSub (what was given and put back: the     *)
(*             sales of pay type 0), measuredFrom, measuredTo, weightSub    *)
(*   counters  a sequence of tank, eFrom, eTo, spilled                     *)
(*   sales     a sequence of tank, paytype, give, summa, discount          *)
(*   receipts  a sequence of tank, doc, real, give                         *)
(***************************************************************************)
EXTENDS Integers, Sequences, SequencesExt

Total(rows, Column(_)) == MapThenSumSet(LAMBDA i : Column(rows[i]), DOMAIN rows)

-----------------------------------------------------------------------------
(* The queries; their groups come in some order.                           *)

Groups(rows, By(_)) == SetToSeq({By(rows[i]) : i \in DOMAIN rows})
Fuel(shift, row) == shift.tanks[row.tank].fuel
Color(shift, row) == shift.tanks[row.tank].color

\* What the pumps' counters say of a fuel, one row for each colour of its tanks.
SalesFuels(shift) ==
    LET By(c) == <<Fuel(shift, c), Color(shift, c)>>
        groups == Groups(shift.counters, By)
        Of(g) == SelectSeq(shift.counters, LAMBDA c : By(c) = g)
    IN  [i \in DOMAIN groups |->
            [fuel |-> groups[i][1], color |-> groups[i][2],
             sold |-> Total(Of(groups[i]), LAMBDA c : c.eTo - c.eFrom),
             spilled |-> Total(Of(groups[i]), LAMBDA c : c.spilled)]]

\* Fuel given with pay type 0 is put back.
ActivPaytypes(shift) ==
    SetToSortSeq({shift.sales[i].paytype : i \in DOMAIN shift.sales} \ {0}, <)

SalFID(shift) ==
    LET By(s) == <<Fuel(shift, s), s.paytype, Color(shift, s)>>
        groups == Groups(shift.sales, By)
    IN  [i \in DOMAIN groups |->
            [fuel |-> groups[i][1], paytype |-> groups[i][2],
             summ |-> Total(SelectSeq(shift.sales, LAMBDA s : By(s) = groups[i]), LAMBDA s : s.give)]]

\* The sales of a pay type by tank.
SaleModel(shift, paytype) ==
    LET sold == SelectSeq(shift.sales, LAMBDA s : s.paytype = paytype)
        tanks == Groups(sold, LAMBDA s : s.tank)
        Of(t) == SelectSeq(sold, LAMBDA s : s.tank = t)
    IN  [i \in DOMAIN tanks |->
            [tank |-> tanks[i], color |-> shift.tanks[tanks[i]].color,
             give |-> Total(Of(tanks[i]), LAMBDA s : s.give),
             summa |-> Total(Of(tanks[i]), LAMBDA s : s.summa),
             discount |-> Total(Of(tanks[i]), LAMBDA s : s.discount),
             paid |-> Total(Of(tanks[i]), LAMBDA s : s.summa - s.discount),
             count |-> Len(Of(tanks[i]))]]

-----------------------------------------------------------------------------
\* A cell is blank if its value rounds to 0, red if it is negative.
Blank == [blank |-> TRUE]
DisplayData(x) ==
    IF (x + 50) \div 100 = 0 THEN Blank ELSE [blank |-> FALSE, value |-> x, red |-> x < 0]

\* The database has a colour as a number with red in its lowest byte, HTML
\* writes red first: the six digits with their ends exchanged.
IntToColor(col) ==
    LET color == <<(col \div 65536) % 256, (col \div 256) % 256, col % 256>>
    IN  <<color[3], color[2], color[1]>>

\* The kilograms of a sale: its part of what has left the tank in the shift.
CalcWeight(shift, tank, give) ==
    LET totalGive == shift.tanks[tank].sub - shift.tanks[tank].addSub
    IN  IF give <= 0 \/ totalGive <= 0 THEN 0
        ELSE (give * shift.tanks[tank].weightSub) \div totalGive

-----------------------------------------------------------------------------
\* What was sold of a fuel with a pay type: the first row that has them.
SaleOf(fids, fuel, paytype) ==
    LET rows == SelectSeq(fids, LAMBDA r : r.fuel = fuel /\ r.paytype = paytype)
    IN  IF rows = <<>> THEN 0 ELSE Head(rows).summ

BugColumn(p) == p + 1
\* The place of the p-th pay type's sum; 0 has the counters', 1 the spilled.
Column(p) == p + 2

\* A row for each fuel: by the counters, spilled, a cell for each pay type, and
\* again spilled; then the sums.
CounterSales(shift) ==
    LET fuels == SalesFuels(shift)
        pays == ActivPaytypes(shift)
        fids == SalFID(shift)
        n == Len(pays)
        sale == [i \in DOMAIN fuels |-> [p \in 0..n - 1 |-> SaleOf(fids, fuels[i].fuel, pays[p + 1])]]
        Added(i, k) ==
            (IF k = 0 THEN fuels[i].sold ELSE 0) + (IF k \in {1, n + 2} THEN fuels[i].spilled ELSE 0)
            + MapThenSumSet(LAMBDA p : sale[i][p], {p \in 0..n - 1 : Column(p) = k})
    IN  [rows |-> [i \in DOMAIN fuels |->
                     [fuel |-> fuels[i].fuel, color |-> IntToColor(fuels[i].color),
                      cells |-> [k \in 1..n + 3 |->
                          DisplayData(CASE k = 1 -> fuels[i].sold
                                        [] k \in {2, n + 3} -> fuels[i].spilled
                                        [] OTHER -> sale[i][k - 3])]]],
         summCount |-> [k \in 1..n + 3 |->
                          DisplayData(MapThenSumSet(LAMBDA i : Added(i, k - 1), DOMAIN fuels))]]

\* The receipts of fuel, with the sums of the litres by document, by measure
\* and given to customers meanwhile; receipts without a document are not shown.
Incoming(shift) ==
    LET rows == SelectSeq(shift.receipts, LAMBDA r : r.doc > 0)
    IN  [rows |-> [i \in DOMAIN rows |-> [tank |-> rows[i].tank, color |-> IntToColor(Color(shift, rows[i]))]],
         docAmount |-> DisplayData(Total(rows, LAMBDA r : r.doc)),
         realAmount |-> DisplayData(Total(rows, LAMBDA r : r.real)),
         give |-> DisplayData(Total(rows, LAMBDA r : r.give))]

\* The books of the tanks; pogr is what the books cannot explain.
TanksBook(shift) ==
    [t \in DOMAIN shift.tanks |->
        LET k == shift.tanks[t]
            pogr == k.to - k.from - k.add + k.sub - k.corr
        IN  [color |-> IntToColor(k.color), from |-> DisplayData(k.from), add |-> DisplayData(k.add),
             sub |-> DisplayData(k.sub), corr |-> DisplayData(k.corr), to |-> DisplayData(k.to),
             pogr |-> DisplayData(pogr)]]

\* The same by measure: received, and sold with whatever pay type.
TanksFackt(shift) ==
    [t \in DOMAIN shift.tanks |->
        LET k == shift.tanks[t]
            add == Total(SelectSeq(shift.receipts, LAMBDA r : r.tank = t), LAMBDA r : r.real)
            sale == Total(SelectSeq(shift.sales, LAMBDA s : s.tank = t), LAMBDA s : s.give)
            pogr == k.measuredTo - k.measuredFrom - add + sale
        IN  [color |-> IntToColor(k.color), from |-> DisplayData(k.measuredFrom), add |-> DisplayData(add),
             sale |-> DisplayData(sale), to |-> DisplayData(k.measuredTo), pogr |-> DisplayData(pogr)]]

\* The sales of a pay type: litres, kilograms, money, and their sums.
TablePaytypeSale(shift, paytype) ==
    LET model == SaleModel(shift, paytype)
        weight == [i \in DOMAIN model |-> CalcWeight(shift, model[i].tank, model[i].give)]
    IN  [rows |-> [i \in DOMAIN model |->
                     [tank |-> model[i].tank, color |-> IntToColor(model[i].color),
                      give |-> DisplayData(model[i].give), weight |-> DisplayData(weight[i]),
                      summa |-> DisplayData(model[i].summa), discount |-> DisplayData(model[i].discount),
                      paid |-> DisplayData(model[i].paid), count |-> model[i].count]],
         give |-> DisplayData(Total(model, LAMBDA r : r.give)),
         weight |-> DisplayData(MapThenSumSet(LAMBDA i : weight[i], DOMAIN weight)),
         summa |-> DisplayData(Total(model, LAMBDA r : r.summa)),
         discount |-> DisplayData(Total(model, LAMBDA r : r.discount)),
         paid |-> DisplayData(Total(model, LAMBDA r : r.paid)),
         count |-> Total(model, LAMBDA r : r.count)]

\* service(): the tables in the order of the page.
ShiftReport(shift) ==
    LET pays == ActivPaytypes(shift)
    IN  [counterSales |-> CounterSales(shift), incomingYes |-> \E i \in DOMAIN shift.receipts : shift.receipts[i].doc > 0,
         incoming |-> Incoming(shift), book |-> TanksBook(shift), fackt |-> TanksFackt(shift),
         paytypes |-> pays, sales |-> [p \in DOMAIN pays |-> TablePaytypeSale(shift, pays[p])]]
=============================================================================
